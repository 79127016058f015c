------------------------------ MODULE IdRanges ------------------------------
(***************************************************************************)
(* The ids under which several data sets are served together.  main of     *)
(* staty/FixerMain.cpp reads one file after the other and gives each an    *)
(* IdRange of station, group and suggestion ids; StatServer adds the start *)
(* of a range to every id it prints, and getDidBySid and getDidByGid find  *)
(* the data set again when the id comes back in a request.                 *)
(*                                                                         *)
(* Ids are size_t: maxSId() of an empty data set is 0 - 1, and the sums    *)
(* wrap around.  A dataset is numbered from 1 here (from 0 in the code).   *)
(***************************************************************************)
EXTENDS Integers, Sequences

CONSTANTS Word,       \* number of values of a size_t
          MaxFiles,   \* bound: how many files are given on the command line
          MaxSize     \* bound: objects of one kind in a file

ASSUME WordAssumption == Word \in Nat \ {0}
ASSUME BoundAssumption == MaxFiles \in Nat /\ MaxSize \in Nat

Kinds == {"sid", "gid", "sugg"}

VARIABLES size,    \* size[d][k]: objects of kind k in data set d
          range    \* range[d][k]: the IdRange of data set d, as start and end

vars == <<size, range>>

Ids == 0..(Word - 1)

\* size_t arithmetic on two ids.
Plus(a, b) == IF a + b >= Word THEN a + b - Word ELSE a + b
Minus(a, b) == IF a >= b THEN a - b ELSE a + Word - b

-----------------------------------------------------------------------------
\* maxSId(), maxGId() and maxSuggId() of a data set with n objects.
MaxId(n) == Minus(n, 1)

\* Mutant: the next range starts at the end of the previous one.
StartAtEnd(k) ==
  IF range = <<>> THEN 0 ELSE range[Len(range)][k].end

\* The start of the range after those in `range`: one past the end of the
\* last one, except that suggestion ids are only moved by one.
Start(k) ==
  LET last == range[Len(range)][k]
  IN CASE range = <<>> -> 0
       [] range # <<>> /\ k = "sugg" -> Plus(last.start, 1)
       [] range # <<>> /\ k # "sugg" -> Plus(last.end, 1)

\* The objects of all files are in memory, so there are fewer than Word.
Fits(n) == \A k \in Kinds : Start(k) + n[k] + 1 < Word

\* One round of main's loop: a file is read and given its ranges.
ReadFile ==
  /\ Len(size) < MaxFiles
  /\ \E n \in [Kinds -> 0..MaxSize] :
       /\ Fits(n)
       /\ size' = Append(size, n)
       /\ range' = Append(range,
            [k \in Kinds |-> [start |-> Start(k),
                              end |-> Plus(Plus(Start(k), MaxId(n[k])), 1)]])

Init == size = <<>> /\ range = <<>>
Next == ReadFile
Spec == Init /\ [][Next]_vars

-----------------------------------------------------------------------------
(* Requests, once the files are read. *)

NotFound == <<0, 0>>

InRange(d, k, id) == range[d][k].start <= id /\ id <= range[d][k].end

\* getDidBySid, getDidByGid: the first data set whose range has the id, and
\* the first of all if there is none.
Did(k, id) ==
  LET hits == {d \in DOMAIN range : InRange(d, k, id)}
  IN IF hits = {} THEN 1 ELSE CHOOSE d \in hits : \A e \in hits : d <= e

\* handleStatReq, handleGroupReq: the object a request for id is answered
\* with, as its data set and its index there, or 404.
Lookup(k, id) ==
  LET d == Did(k, id)
      local == Minus(id, range[d][k].start)
  IN IF local >= size[d][k] THEN NotFound ELSE <<d, local>>

\* The id printStation, printGroup and the search index give an object.
Global(k, d, local) == Plus(local, range[d][k].start)

\* Suggestion::station of a suggestion for station i or of a merge of group i,
\* and the id printSugg makes of it.
Owner(k, i) == IF k = "gid" THEN -i ELSE i

\* Mutant: the range is added to the negative id.
MarkerSigned(d, station) ==
  IF station >= 0 THEN Global("sid", d, station)
  ELSE station + range[d]["gid"].start

Marker(d, station) ==
  IF station >= 0 THEN Global("sid", d, station)
  ELSE -((-station) + range[d]["gid"].start)

\* What the web client opens when the arrow with that id is clicked.
Open(id) == IF id < 0 THEN <<"gid", Lookup("gid", -id)>> ELSE <<"sid", Lookup("sid", id)>>

-----------------------------------------------------------------------------
(* Properties. *)

\* Ranges are pairs of size_t values, one for each file read.
TypeOK ==
  /\ size \in Seq([Kinds -> 0..MaxSize])
  /\ range \in Seq([Kinds -> [start : Ids, end : Ids]])
  /\ Len(size) = Len(range) /\ Len(size) <= MaxFiles

\* Every id that is handed out leads back to the object it was printed for,
\* and every other id is answered 404: no id of one data set, no gap between
\* two of them and no id beyond the last is taken for an object, whichever of
\* the files are empty.
LookupExact ==
  range # <<>> =>
    \A k \in {"sid", "gid"} :
      /\ \A d \in DOMAIN range : \A i \in 0..(size[d][k] - 1) :
           Lookup(k, Global(k, d, i)) = <<d, i>>
      /\ \A id \in Ids :
           Lookup(k, id) # NotFound =>
             id = Global(k, Lookup(k, id)[1], Lookup(k, id)[2])

\* A click on the arrow of a suggestion opens the station or the group whose
\* suggestion it is.  Group 0 of a file is left out: its -0 is no negative id,
\* so that the arrow opens a station.
ArrowOpensOwner ==
  \A d \in DOMAIN range :
    /\ \A i \in 0..(size[d]["sid"] - 1) :
         Open(Marker(d, Owner("sid", i))) = <<"sid", <<d, i>>>>
    /\ \A i \in 1..(size[d]["gid"] - 1) :
         Open(Marker(d, Owner("gid", i))) = <<"gid", <<d, i>>>>
=============================================================================
