----------------------------- MODULE StatServer -----------------------------
(***************************************************************************)
(* staty/server/StatServer.cpp: what the handlers answer, as a session of  *)
(* a client that follows the ids it was given.  The handlers are const and *)
(* share nothing, so that requests are independent of each other; what can *)
(* go wrong is that an id leads somewhere else than meant, because each of *)
(* the places that print one adds the range of the data set by itself.     *)
(*                                                                         *)
(* A data set is what StatIdx made of a file, reduced to what answers link *)
(* to; main gave the data sets their ranges (IdRanges).  A link remembers  *)
(* which object it was printed for.  Geometry, attributes and the JSON     *)
(* around the ids are left out, as are the zoom levels below which a map   *)
(* shows stations only; an error of an object with itself concerns one     *)
(* attribute.                                                              *)
(***************************************************************************)
EXTENDS IdRanges, FiniteSets

CONSTANTS DataSets,   \* what StatIdx may make of a file
          Missing     \* a request without the parameter it needs

\* Stations and groups are numbered from 0, and what they refer to is there:
\* a file gives its own numbers, and StatIdx takes the target of a suggestion
\* from them.
WellFormed(x) ==
  LET stations == DOMAIN x.stations
      groups == DOMAIN x.groups
      errsFit(errs) == \A e \in errs : e.other \in IF e.fromRel THEN groups ELSE stations
  IN /\ \A D \in {stations, groups} : IsFiniteSet(D) /\ D = 0..(Cardinality(D) - 1)
     /\ \A s \in stations : /\ x.stations[s].group \in groups
                            /\ x.stations[s].orig \in groups
                            /\ errsFit(x.stations[s].errs)
     /\ \A g \in groups : /\ x.groups[g].meta \in Nat
                          /\ x.groups[g].members \subseteq stations
                          /\ x.groups[g].poly \subseteq stations
                          /\ errsFit(x.groups[g].errs)
                          /\ \A y \in x.groups[g].suggs :
                               /\ y.type = 9 => y.target \in groups
                               /\ y.type = 10 => y.target \in {x.groups[h].meta : h \in groups} \ {0}

ASSUME DataSetAssumption == \A x \in DataSets : WellFormed(x)
ASSUME MissingAssumption == Missing \notin Int

VARIABLES
  idxs,    \* _idxs: the data sets, one for each range
  serving, \* main has read all files and runs the server
  links,   \* the links of the last answer
  asked,   \* the last request: a link, or a typed one that means nothing
  status,  \* the status of its answer
  viewed    \* the object its answer is about

svars == <<size, range, idxs, serving, links, asked, status, viewed>>

Nothing == <<>>
StatOf(d, s) == <<"stat", d, s>>
GroupOf(d, g) == <<"group", d, g>>
MGroupOf(d, m) == <<"mgroup", d, m>>
Link(cmd, id, means) == [cmd |-> cmd, id |-> id, means |-> means]

\* The id of a station, of a group and of a meta group in an answer.  Meta
\* groups are identified by their OSM relation, which needs no range.
StatLink(d, s) == Link("stat", Global("sid", d, s), StatOf(d, s))
GroupLink(d, g) == Link("group", Global("gid", d, g), GroupOf(d, g))
MGroupLink(d, m) == Link("mgroup", m, MGroupOf(d, m))

Stations(d) == DOMAIN idxs[d].stations
Groups(d) == DOMAIN idxs[d].groups
Metas(d) == {idxs[d].groups[g].meta : g \in Groups(d)} \ {0}

-----------------------------------------------------------------------------
(* What the answers link to. *)

\* other_grp or other of an attribute error.
ErrLink(d, e) == IF e.fromRel THEN GroupLink(d, e.other) ELSE StatLink(d, e.other)

\* handleStatReq: the attribute errors but those of the station with itself,
\* and the groups its suggestions move it from and to.
StatLinks(d, s) ==
  LET st == idxs[d].stations[s]
  IN {ErrLink(d, e) : e \in {x \in st.errs : x.fromRel \/ x.other # s}}
     \cup (IF st.suggs \cap (1..5 \cup {9, 10}) # {} THEN {GroupLink(d, st.group)} ELSE {})
     \cup (IF st.suggs \cap (3..5 \cup {9, 10}) # {} THEN {GroupLink(d, st.orig)} ELSE {})

\* Mutant: the target of a merge is taken to have its range already.
GroupSuggLinksLocal(d, x) ==
  CASE x.type = 9 -> {Link("group", x.target, GroupOf(d, x.target))}
    [] x.type = 10 -> {MGroupLink(d, x.target)}
    [] OTHER -> {}

\* The target of a suggestion for a group: a group to merge with, or a meta
\* group to move into.
GroupSuggLinks(d, x) ==
  CASE x.type = 9 -> {GroupLink(d, x.target)}
    [] x.type = 10 -> {MGroupLink(d, x.target)}
    [] OTHER -> {}

\* handleGroupReq: the attribute errors, the members with the groups they are
\* in and should be in, and the suggestions.
GroupLinks(d, g) ==
  LET gr == idxs[d].groups[g]
      st == idxs[d].stations
  IN {ErrLink(d, e) : e \in {x \in gr.errs : ~x.fromRel \/ x.other # g}}
     \cup (UNION {{StatLink(d, s), GroupLink(d, st[s].group), GroupLink(d, st[s].orig)} :
                  s \in gr.members})
     \cup (UNION {GroupSuggLinks(d, x) : x \in gr.suggs})

\* handleMGroupReq: the groups of the meta group.
MGroupLinks(d, m) == {GroupLink(d, g) : g \in {x \in Groups(d) : idxs[d].groups[x].meta = m}}

\* handleMapReq, for a bounding box around everything: all that is drawn.  A
\* group of one station that is no relation is not (initIndex), and of the
\* suggestions those with an arrow are, by the id printSugg makes.
Drawn(d, g) == Cardinality(idxs[d].groups[g].poly) # 1 \/ idxs[d].groups[g].osmid >= 2
Arrows(d) ==
  {StatLink(d, s) : s \in {x \in Stations(d) : idxs[d].stations[x].suggs \cap 2..5 # {}}}
  \cup {Link("group", -Marker(d, Owner("gid", g)), GroupOf(d, g)) :
        g \in {x \in Groups(d) \ {0} : \E y \in idxs[d].groups[x].suggs : y.type \in {9, 10}}}
MapLinks ==
  UNION {{StatLink(d, s) : s \in Stations(d)}
         \cup {GroupLink(d, g) : g \in {x \in Groups(d) : Drawn(d, x)}}
         \cup {MGroupLink(d, m) : m \in Metas(d)}
         \cup Arrows(d) : d \in DOMAIN idxs}

\* handleSearch, for a query that every name matches: the search index keeps
\* the groups with members and a hull by their global id; one with a single
\* station is shown as that station.
Hits ==
  {dg \in UNION {{d} \X Groups(d) : d \in DOMAIN idxs} :
     LET gr == idxs[dg[1]].groups[dg[2]] IN gr.members # {} /\ gr.poly # {}}
HitLink(id) ==
  LET d == Did("gid", id)
      g == Minus(id, range[d]["gid"].start)
      poly == idxs[d].groups[g].poly
  IN IF Cardinality(poly) = 1 THEN StatLink(d, CHOOSE s \in poly : TRUE)
                              ELSE GroupLink(d, g)
SearchLinks == {HitLink(Global("gid", dg[1], dg[2])) : dg \in Hits}

-----------------------------------------------------------------------------
(* main: the files are read, then the server runs. *)

SizeOf(x) ==
  [k \in Kinds |-> CASE k = "sid" -> Cardinality(DOMAIN x.stations)
                     [] k = "gid" -> Cardinality(DOMAIN x.groups)
                     [] k = "sugg" -> 0]

NoRequest == Link("", 0, Nothing)

SInit ==
  /\ Init
  /\ idxs = <<>> /\ serving = FALSE
  /\ links = {} /\ asked = NoRequest /\ status = "" /\ viewed = Nothing

Load ==
  /\ ~serving
  /\ ReadFile
  /\ \E x \in DataSets : /\ idxs' = Append(idxs, x)
                         /\ size'[Len(size')] = SizeOf(x)
  /\ UNCHANGED <<serving, links, asked, status, viewed>>

Run ==
  /\ ~serving /\ idxs # <<>>
  /\ serving' = TRUE
  /\ UNCHANGED <<size, range, idxs, links, asked, status, viewed>>

-----------------------------------------------------------------------------
(* StatServer::handle *)

Answer(s, object, ls) == status' = s /\ viewed' = object /\ links' = ls

\* The handlers throw std::invalid_argument by value and handle catches a
\* pointer to one, so that catch (...) answers.
BadRequest == Answer("500", Nothing, {})
NotFoundAnswer == Answer("404", Nothing, {})

\* handleStatReq, handleGroupReq: the object with the id, if there is one.
StatReq(id) ==
  LET at == Lookup("sid", id)
  IN \/ id = Missing /\ BadRequest
     \/ id # Missing /\ at = NotFound /\ NotFoundAnswer
     \/ id # Missing /\ at # NotFound
          /\ Answer("200", StatOf(at[1], at[2]), StatLinks(at[1], at[2]))
GroupReq(id) ==
  LET at == Lookup("gid", id)
  IN \/ id = Missing /\ BadRequest
     \/ id # Missing /\ at = NotFound /\ NotFoundAnswer
     \/ id # Missing /\ at # NotFound
          /\ Answer("200", GroupOf(at[1], at[2]), GroupLinks(at[1], at[2]))

\* Mutant: only the first data set is searched.
MGroupReqFirst(id) ==
  \/ id = Missing /\ BadRequest
  \/ id # Missing /\ id \notin Metas(1) /\ NotFoundAnswer
  \/ id \in Metas(1) /\ Answer("200", MGroupOf(1, id), MGroupLinks(1, id))

\* handleMGroupReq: the first data set with that meta group.
MGroupReq(id) ==
  LET ds == {d \in DOMAIN idxs : id \in Metas(d)}
  IN \/ id = Missing /\ BadRequest
     \/ id # Missing /\ ds = {} /\ NotFoundAnswer
     \/ \E d \in ds : /\ \A e \in ds : d <= e
                      /\ Answer("200", MGroupOf(d, id), MGroupLinks(d, id))

\* A request without its bounding box, or query, or with one.
ListReq(id, ls) ==
  \/ id = Missing /\ BadRequest
  \/ id # Missing /\ Answer("200", Nothing, ls)

Handle(l) ==
  /\ serving /\ asked' = l
  /\ \/ l.cmd \in {"", "build.js"} /\ Answer("200", Nothing, {})
     \/ l.cmd = "map" /\ ListReq(l.id, MapLinks)
     \/ l.cmd = "heatmap" /\ ListReq(l.id, {})
     \/ l.cmd = "search" /\ ListReq(l.id, SearchLinks)
     \/ l.cmd = "stat" /\ StatReq(l.id)
     \/ l.cmd = "group" /\ GroupReq(l.id)
     \/ l.cmd = "mgroup" /\ MGroupReq(l.id)
     \/ l.cmd = "unknown" /\ NotFoundAnswer
  /\ UNCHANGED <<size, range, idxs, serving>>

\* The client follows a link of the answer it has, or types a request.
Follow == \E l \in links : Handle(l)
TypeId ==
  \/ \E cmd \in {"", "build.js", "map", "heatmap", "search", "unknown"}, id \in {0, Missing} :
       Handle(Link(cmd, id, Nothing))
  \/ \E cmd \in {"stat", "group", "mgroup"}, id \in Ids \cup {Missing} :
       Handle(Link(cmd, id, Nothing))

SNext == Load \/ Run \/ Follow \/ TypeId

SSpec == SInit /\ [][SNext]_svars

-----------------------------------------------------------------------------
(* Properties. *)

\* A session shows objects of the data sets that are served.
SessionTypeOK ==
  /\ TypeOK
  /\ idxs \in Seq(DataSets) /\ Len(idxs) = Len(range)
  /\ status \in {"", "200", "404", "500"}
  /\ \A l \in links : l.cmd \in {"stat", "group", "mgroup"} /\ l.means # Nothing
  /\ viewed # Nothing =>
       /\ viewed[2] \in DOMAIN idxs
       /\ viewed[3] \in CASE viewed[1] = "stat" -> Stations(viewed[2])
                         [] viewed[1] = "group" -> Groups(viewed[2])
                         [] viewed[1] = "mgroup" -> Metas(viewed[2])

\* Whatever a client does, an id that was printed for an object leads to that
\* object: from the map, an arrow, a search hit, an attribute error, a member
\* list, a suggestion or a meta group, in the first data set and in the later
\* ones.  (A meta group that several data sets have is shown as the first has
\* it.)
LinksLead ==
  asked.means # Nothing =>
    /\ status = "200"
    /\ \/ viewed = asked.means
       \/ /\ asked.means[1] = "mgroup" /\ viewed[1] = "mgroup"
          /\ viewed[3] = asked.means[3] /\ viewed[2] <= asked.means[2]

\* A typed id is answered 200 exactly if some object has it.
Known(cmd, id) ==
  \E d \in DOMAIN idxs :
    CASE cmd = "stat" -> \E s \in Stations(d) : StatLink(d, s).id = id
      [] cmd = "group" -> \E g \in Groups(d) : GroupLink(d, g).id = id
      [] cmd = "mgroup" -> id \in Metas(d)
OnlyKnownFound ==
  asked.cmd \in {"stat", "group", "mgroup"} /\ asked.id # Missing =>
    status = IF Known(asked.cmd, asked.id) THEN "200" ELSE "404"

\* Only what exists is shown, and all that exists (StatServer::handle).
SessionInv == SessionTypeOK /\ OnlyKnownFound
=============================================================================
