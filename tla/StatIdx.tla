------------------------------ MODULE StatIdx ------------------------------
(***************************************************************************)
(* staty/index/StatIdx.cpp: how the index of one data set is built from    *)
(* its file.  A file assigns every station the group it is in (origGroup)  *)
(* and the group it should be in (group), and every group an osmid: above  *)
(* 2 an OSM relation, 1 a group that is to be created, 0 that of an orphan.*)
(* initGroups collects the members of the groups and decides which         *)
(* relations are to be merged, initSuggestions turns the differences       *)
(* between the two assignments into suggestions.                           *)
(*                                                                         *)
(* Stations and groups are numbered from 0, as in the code.  Geometry is   *)
(* left out but for whether a suggestion has an arrow; an attribute error  *)
(* is "self" (an attribute that contradicts itself: a track number), a     *)
(* "twin" (another one of the same OSM object) or "foreign".               *)
(***************************************************************************)
EXTENDS SequencesExt, Sorting

CONSTANT Files   \* the files that may be read: records of stations and groups

\* Stations and groups are numbered from 0, and a station is in groups of its
\* file (the assertions of initGroups).
WellFormed(f) ==
  LET stations == DOMAIN f.stations
      groups == DOMAIN f.groups
      errList(x) == Len(x.errs) \in Nat /\ DOMAIN x.errs = 1..Len(x.errs)
  IN /\ \A D \in {stations, groups} : IsFiniteSet(D) /\ D = 0..(Cardinality(D) - 1)
     /\ \A s \in stations : /\ f.stations[s].group \in groups
                            /\ f.stations[s].orig \in groups
                            /\ errList(f.stations[s])
     /\ \A g \in groups : /\ f.groups[g].osmid \in Nat
                          /\ f.groups[g].meta \in Nat
                          /\ errList(f.groups[g])

ASSUME FileAssumption == \A f \in Files : WellFormed(f)

VARIABLES
  file,      \* the file: stations[s] and groups[g]
  pc,        \* the phase of readFromFile
  i,         \* the loop variable of initGroups or initSuggestions
  mergeId,   \* mergeId[g]: Group::mergeId, 0 if there is none
  members,   \* members[g]: Group::stations
  hull,      \* hull[g]: Group::polyStations
  suggs,     \* _suggestions, from 1
  ofGroup,   \* ofGroup[g]: Group::suggestions
  ofStation  \* ofStation[s]: Station::suggestions

groupVars == <<mergeId, members, hull>>
suggVars == <<suggs, ofGroup, ofStation>>
vars == <<file, pc, i, groupVars, suggVars>>

Stations == DOMAIN file.stations
Groups == DOMAIN file.groups
Osmid(g) == file.groups[g].osmid
Meta(g) == file.groups[g].meta
Group(s) == file.stations[s].group
OrigGroup(s) == file.stations[s].orig

\* readFromFile has read the blocks of stations, groups, errors and meta
\* groups: addStation, addGroup and addGroupToMeta.
Init ==
  /\ file \in Files
  /\ pc = "initGroups" /\ i = 0
  /\ mergeId = [g \in Groups |-> 0]
  /\ members = [g \in Groups |-> <<>>]
  /\ hull = [g \in Groups |-> <<>>]
  /\ suggs = <<>>
  /\ ofGroup = [g \in Groups |-> <<>>]
  /\ ofStation = [s \in Stations |-> <<>>]

-----------------------------------------------------------------------------
(* initGroups *)

\* Mutant: a second target clears mergeId instead of barring the merge.
MergeTargetForget(g, target) ==
  IF mergeId[g] = 0 THEN target
  ELSE IF mergeId[g] # target THEN 0 ELSE mergeId[g]

\* The mergeId of relation g once one of its stations goes to `target`: the
\* first target, then g itself ("do not merge") if there is another one.
MergeTarget(g, target) ==
  CASE mergeId[g] = 0 -> target
    [] mergeId[g] \notin {0, target} -> g
    [] OTHER -> mergeId[g]

\* One round of the loop over the stations.
InitGroup ==
  LET g == Group(i)
      og == OrigGroup(i)
      push(f, at) == [x \in Groups |-> IF x \in at THEN Append(f[x], i) ELSE f[x]]
  IN /\ pc = "initGroups" /\ i \in Stations
     /\ hull' = push(hull, {og} \cup (IF Osmid(g) = 1 THEN {g} ELSE {}))
     /\ members' = push(members, {g, og})
     /\ mergeId' = IF Osmid(g) > 2 /\ Osmid(og) > 2
                     THEN [mergeId EXCEPT ![og] = MergeTarget(og, g)]
                     ELSE mergeId
     /\ i' = i + 1
     /\ UNCHANGED <<file, pc, suggVars>>

\* The class ByErrId sorts by: attribute errors, then suggestions, then rest.
ErrClass(s) ==
  IF file.stations[s].errs # <<>> THEN 2
  ELSE IF ofStation[s] # <<>> THEN 1 ELSE 0

\* The end of initGroups: the members of each group are sorted by ErrClass
\* (std::sort leaves the order within a class open; nothing here depends on it).
SortMembers ==
  LET key(list) == [k \in 1..Len(list) |-> -ErrClass(list[k])]
  IN /\ pc = "initGroups" /\ i \notin Stations
     /\ members' = [g \in Groups |-> SortBy(members[g], key(members[g]))]
     /\ pc' = "groupSuggs" /\ i' = 0
     /\ UNCHANGED <<file, mergeId, hull, suggVars>>

-----------------------------------------------------------------------------
(* initSuggestions *)

Sugg(type, station, arrow, target) ==
  [type |-> type, station |-> station, arrow |-> arrow, target |-> target]

\* The suggestions for the attribute errors of an object, one for each
\* attribute and kind of error, with station and arrow of the variable sug.
ErrSuggs(errs, station, arrow) ==
  LET first == {k \in DOMAIN errs : /\ errs[k].kind # "foreign"
                                    /\ \A l \in 1..(k - 1) : errs[l] # errs[k]}
      fixed == PickAt(errs, first)
  IN [k \in 1..Cardinality(first) |->
        Sugg(IF fixed[k].kind = "self" THEN 8 ELSE 6, station, arrow, 0)]

If(c, s) == IF c THEN <<s>> ELSE <<>>

\* The places of the suggestions `new` once they are appended to suggs.
Listed(new) == [k \in 1..Len(new) |-> Len(suggs) + k]

\* Suggestion 7, "give it a name".
NameSugg(named, station) == If(~named, Sugg(7, station, FALSE, 0))

Merges(g) == mergeId[g] \notin {0, g}

\* Mutant: the id of the group is not negated.
MergeSuggUnsigned(g) ==
  IF ~Merges(g) THEN <<>> ELSE <<Sugg(9, g, TRUE, mergeId[g])>>

\* Suggestions 9, "merge", and 10, "move into the meta group" of the target.
MergeSugg(g) ==
  LET meta == Meta(mergeId[g])
  IN IF ~Merges(g) THEN <<>>
     ELSE IF meta # 0 THEN <<Sugg(10, -g, TRUE, meta)>>
     ELSE <<Sugg(9, -g, TRUE, mergeId[g])>>

\* The suggestions for group g.  The local variable sug is used for the merge
\* and, with what the merge left in it, for the attribute errors.
GroupSuggs(g) ==
  NameSugg(file.groups[g].named, g) \o MergeSugg(g)
    \o ErrSuggs(file.groups[g].errs, IF Merges(g) THEN -g ELSE g, Merges(g))

\* One round of the loop over the groups.
GroupSuggestions ==
  LET new == GroupSuggs(i)
  IN /\ pc = "groupSuggs" /\ i \in Groups
     /\ suggs' = suggs \o new
     /\ ofGroup' = [ofGroup EXCEPT ![i] = Listed(new)]
     /\ i' = i + 1
     /\ UNCHANGED <<file, pc, groupVars, ofStation>>

GroupsDone ==
  /\ pc = "groupSuggs" /\ i \notin Groups
  /\ pc' = "stationSuggs" /\ i' = 0
  /\ UNCHANGED <<file, groupVars, suggVars>>

TrackHeur(s) ==
  \E k \in 1..Len(file.stations[s].errs) : file.stations[s].errs[k].kind = "self"

\* Mutant: a station is not moved out of a relation that is to be merged.
MoveTypeMerging(s) ==
  LET g == Group(s)
      og == OrigGroup(s)
      created == Osmid(g) = 1 /\ Len(members[g]) > 1
  IN CASE g = og /\ Osmid(g) # 1 -> 0
       [] Osmid(og) < 2 /\ created -> 1
       [] Osmid(og) < 2 /\ Osmid(g) > 1 -> 2
       [] Osmid(og) >= 2 /\ created -> 3
       [] Osmid(og) >= 2 /\ Osmid(g) > 1 /\ mergeId[og] = 0 -> 4
       [] Osmid(og) >= 2 /\ ~created /\ Osmid(g) <= 1 /\ ~TrackHeur(s) -> 5
       [] OTHER -> 0

\* The type of the suggestion to move station s, or 0: an orphan into a new
\* group (1) or a relation (2); out of a relation into a new group (3), into
\* another relation (4; the merge of the two stands for it), or out (5).
MoveType(s) ==
  LET g == Group(s)
      og == OrigGroup(s)
      created == Osmid(g) = 1 /\ Len(members[g]) > 1
  IN CASE g = og /\ Osmid(g) # 1 -> 0
       [] Osmid(og) < 2 /\ created -> 1
       [] Osmid(og) < 2 /\ Osmid(g) > 1 -> 2
       [] Osmid(og) >= 2 /\ created -> 3
       [] Osmid(og) >= 2 /\ Osmid(g) > 1 /\ mergeId[og] # g -> 4
       [] Osmid(og) >= 2 /\ ~created /\ Osmid(g) <= 1 /\ ~TrackHeur(s) -> 5
       [] OTHER -> 0

\* The suggestions for station s.
StationSuggs(s) ==
  LET st == file.stations[s]
  IN NameSugg(st.named \/ file.groups[st.group].named, s)
       \o ErrSuggs(st.errs, s, FALSE)
       \o If(MoveType(s) # 0, Sugg(MoveType(s), s, MoveType(s) # 1, st.group))

\* One round of the loop over the stations.
StationSuggestions ==
  LET new == StationSuggs(i)
  IN /\ pc = "stationSuggs" /\ i \in Stations
     /\ suggs' = suggs \o new
     /\ ofStation' = [ofStation EXCEPT ![i] = Listed(new)]
     /\ i' = i + 1
     /\ UNCHANGED <<file, pc, groupVars, ofGroup>>

StationsDone ==
  /\ pc = "stationSuggs" /\ i \notin Stations
  /\ pc' = "done"
  /\ UNCHANGED <<file, i, groupVars, suggVars>>

Next ==
  \/ InitGroup \/ SortMembers
  \/ GroupSuggestions \/ GroupsDone
  \/ StationSuggestions \/ StationsDone

Spec == Init /\ [][Next]_vars

-----------------------------------------------------------------------------
(* Properties. *)

Types == 1..10

\* mergeId names a group, members and hulls are made of stations, and every
\* suggestion that is listed exists.
TypeOK ==
  /\ file \in Files
  /\ pc \in {"initGroups", "groupSuggs", "stationSuggs", "done"}
  /\ i \in Nat
  /\ mergeId \in [Groups -> Groups]
  /\ \A g \in Groups :
       /\ ToSet(members[g]) \cup ToSet(hull[g]) \subseteq Stations
       /\ ToSet(ofGroup[g]) \subseteq DOMAIN suggs
  /\ \A s \in Stations : ToSet(ofStation[s]) \subseteq DOMAIN suggs
  /\ \A k \in DOMAIN suggs : suggs[k].type \in Types

Has(list, type, target) ==
  \E k \in 1..Len(list) : suggs[list[k]].type = type /\ suggs[list[k]].target = target

\* A suggestion to unite group g with group h, or with the meta group of h.
MergeSuggested(g, h) ==
  \E k \in 1..Len(ofGroup[g]) :
    \/ suggs[ofGroup[g][k]].type = 9 /\ suggs[ofGroup[g][k]].target = h
    \/ suggs[ofGroup[g][k]].type = 10 /\ suggs[ofGroup[g][k]].target = Meta(h) /\ mergeId[g] = h

\* The relations the stations of relation g are assigned to, g itself included.
Targets(g) ==
  {Group(s) : s \in {t \in Stations : OrigGroup(t) = g /\ Osmid(Group(t)) > 2}}

\* The first group of the file is no relation: 0 is then free to mean "none".
ZeroIsFree == 0 \in Groups => Osmid(0) < 2

\* Whatever the order of the stations in the file, relation g is suggested to
\* be merged into h exactly if h is another relation and the only one its
\* stations are assigned to.  That is what the code decides; its comment asks
\* for all stations, those that go to no relation included: MergeIfAllMoved.
MergeIsUnanimous ==
  pc = "done" /\ ZeroIsFree =>
    \A g, h \in Groups :
      Osmid(g) > 2 => (MergeSuggested(g, h) <=> Targets(g) = {h} /\ h # g)

\* No move gets lost between the two kinds of suggestions: a station assigned
\* to another group has a suggestion to move it there, or the merge of its
\* group with that one stands for it, unless it would only go from being alone
\* to being alone, or is taken to be a track and stays.
MovesCovered ==
  pc = "done" /\ ZeroIsFree =>
    \A s \in Stations :
      Group(s) # OrigGroup(s) =>
        \/ \E type \in 1..5 : Has(ofStation[s], type, Group(s))
        \/ MergeSuggested(OrigGroup(s), Group(s))
        \/ Osmid(OrigGroup(s)) < 2 /\ \/ Osmid(Group(s)) = 0
                                      \/ Osmid(Group(s)) = 1 /\ Len(members[Group(s)]) = 1
        \/ Osmid(OrigGroup(s)) >= 2 /\ Osmid(Group(s)) <= 1 /\ TrackHeur(s)

\* Every suggestion is listed by one object, once, and one that is drawn (it
\* has an arrow) carries the id of that object, negated for a group.
Owners(k) ==
  {<<"gid", g>> : g \in {x \in Groups : k \in ToSet(ofGroup[x])}} \cup
  {<<"sid", s>> : s \in {x \in Stations : k \in ToSet(ofStation[x])}}
ListedByOwner ==
  ZeroIsFree =>
    /\ \A g \in Groups : IsInjective(ofGroup[g])
    /\ \A s \in Stations : IsInjective(ofStation[s])
    /\ \A k \in DOMAIN suggs :
         /\ Cardinality(Owners(k)) = 1
         /\ suggs[k].arrow =>
              Owners(k) = {IF suggs[k].station < 0 THEN <<"gid", -suggs[k].station>>
                                                   ELSE <<"sid", suggs[k].station>>}

\* "if a merge group was set, but the current station is not moved into this
\* group, set the merge id to the group id. This is later interpreted as DO
\* NOT MERGE": also for the group with id 0.
DoNotMerge ==
  pc = "done" =>
    \A g, h \in Groups : MergeSuggested(g, h) => Cardinality(Targets(g)) <= 1

\* "if all stations of a relation are moved into another same relation, suggest
\* to merge the relation instead of suggesting each invidivual move": a merge
\* is suggested only if no station goes elsewhere, be it to no relation at all.
MergeIfAllMoved ==
  pc = "done" /\ ZeroIsFree =>
    \A g, h \in Groups :
      MergeSuggested(g, h) => \A s \in Stations : OrigGroup(s) = g => Group(s) = h

\* The index is consistent at every step of its loops, and its merges are those
\* all stations agree on (StatIdx::initGroups, initSuggestions).
MergeInv == TypeOK /\ MergeIsUnanimous
=============================================================================
