----------------------------- MODULE SearchIdx -----------------------------
(***************************************************************************)
(* The search index (staty/index/SearchIdx.cpp): names of groups are cut   *)
(* into tokens, tokens into q-grams.  A query token finds the tokens that  *)
(* it is nearly a prefix of by the q-grams they share, and by an edit      *)
(* distance for these; the scores of names are merged from posting lists.  *)
(*                                                                         *)
(* The names of a group are collected by StatIdx::initGroups, from its own *)
(* attributes and from those of its stations.                              *)
(*                                                                         *)
(* Strings are sequences of characters.  Scores are whole numbers: of a    *)
(* group by its `score`, of a match by the length of the query token over  *)
(* the distance + 1, times Scale.  Differences below 0.01, which the code  *)
(* takes for none, need tokens longer than the bounds.                     *)
(***************************************************************************)
EXTENDS SequencesExt, FiniteSetsExt, TLC, Sorting

CONSTANTS Contents,     \* sequences of groups [gid, score, attrs, members, poly]:
                        \* attrs and each of members are sequences of
                        \* <<attribute, name>> in the order of attributes
          Typed,        \* queries
          TopTokens,    \* TOPK, 100 in the code
          TopResults    \* 10 in the code

\* IdRanges gives the groups of all data sets ids of their own.
Names == Seq(STRING \X Seq(STRING))
ASSUME ContentsAssumption ==
  \A c \in Contents :
    /\ c \in Seq([gid : Nat, score : Nat, poly : Nat, attrs : Names, members : Seq(Names)])
    /\ \A i, j \in DOMAIN c : c[i].gid = c[j].gid => i = j

VARIABLES content,      \* the groups of all data sets
          ix,           \* the index: [names, toks, inv, grams]
          words,        \* the query, NoWords before it
          hits          \* what find returns, as a set

searchVars == <<content, ix, words, hits>>

NoWords == <<"none">>
Scale == 6              \* divisible by all distances + 1

Separators == {"-", " "}
ToLower(c) == IF c = "A" THEN "a" ELSE c

\* The tokens read, and the one that is read.
Read(acc, c) ==
  IF c \notin Separators THEN [acc EXCEPT !.cur = Append(@, ToLower(c))]
  ELSE IF acc.cur = <<>> THEN acc
  ELSE [ret |-> Append(acc.ret, acc.cur), cur |-> <<>>]

Tokenize(str) ==
  LET acc[i \in 0..Len(str)] ==
        IF i = 0 THEN [ret |-> <<>>, cur |-> <<>>] ELSE Read(acc[i - 1], str[i])
      end == acc[Len(str)]
  IN IF end.cur = <<>> THEN end.ret ELSE Append(end.ret, end.cur)

\* The separators are left out; tokens have none.
Normalize(str) ==
  PickAt([i \in 1..Len(str) |-> ToLower(str[i])], {i \in 1..Len(str) : ToLower(str[i]) \notin Separators})

GetQGrams(word) ==
  LET s == <<"$", "$">> \o Normalize(word)
  IN [i \in 1..Len(s) - 2 |-> SubSeq(s, i, i + 2)]

\* prefixEditDist of util/String.h: the least of the last row of the table of
\* edit distances.
PrefixEditDist(p, s, dmax) ==
  LET len2 == Min({Len(s), Len(p) + dmax + 1})
      cols == [j \in 1..len2 |-> j]
      row(prev, i) ==
        FoldLeft(LAMBDA cur, j :
                   Append(cur, Min({prev[j + 1] + 1, cur[j] + 1,
                                    prev[j] + IF p[i] = s[j] THEN 0 ELSE 1})),
                 <<i>>, cols)
      last == FoldLeft(row, <<0>> \o cols, [i \in 1..Len(p) |-> i])
  IN Min(ToSet(last))

-----------------------------------------------------------------------------
(* Posting lists: sequences of [id, val]. *)

\* Two lists, merged by id from their fronts; what is in both is added up.
Merge2(a, b) ==
  LET m[i \in 1..Len(a) + 1, j \in 1..Len(b) + 1] ==
        CASE i > Len(a) -> SubSeq(b, j, Len(b))
          [] j > Len(b) -> SubSeq(a, i, Len(a))
          [] OTHER ->
               IF a[i].id < b[j].id THEN <<a[i]>> \o m[i + 1, j]
               ELSE IF b[j].id < a[i].id THEN <<b[j]>> \o m[i, j + 1]
               ELSE <<[id |-> a[i].id, val |-> a[i].val + b[j].val]>> \o m[i + 1, j + 1]
  IN m[1, 1]

LMerge(lists) == IF lists = <<>> THEN <<>> ELSE FoldLeft(Merge2, Head(lists), Tail(lists))

\* Count one occurrence: at the end of the list, if that is the same token.
CountIn(list, tid) ==
  IF list # <<>> /\ Last(list).id = tid
  THEN Front(list) \o <<[id |-> tid, val |-> Last(list).val + 1]>>
  ELSE Append(list, [id |-> tid, val |-> 1])

\* The entry after those of tl, which it is added to if it is for the same token.
AddUp(tl, e) ==
  IF tl # <<>> /\ Last(tl).id = e.id
  THEN Front(tl) \o <<[e EXCEPT !.val = @ + Last(tl).val]>>
  ELSE Append(tl, e)

\* Lists are sorted, and entries of the same token added up.
SortedUp(list) ==
  LET sorted == SortBy(list, [k \in DOMAIN list |-> list[k].id])
      tl[k \in 0..Len(sorted)] == IF k = 0 THEN <<>> ELSE AddUp(tl[k - 1], sorted[k])
  IN tl[Len(sorted)]

IndexOf(toks, t) ==
  IF \E i \in DOMAIN toks : toks[i] = t THEN CHOOSE i \in DOMAIN toks : toks[i] = t
  ELSE Len(toks) + 1

-----------------------------------------------------------------------------
(* build *)

Counted(grams, q, tid) ==
  [x \in DOMAIN grams \cup {q} |->
     IF x # q THEN grams[x] ELSE CountIn(IF q \in DOMAIN grams THEN grams[q] ELSE <<>>, tid)]

GramsOf(grams, token, tid) ==
  LET qs == GetQGrams(token)
      g[k \in 0..Len(qs)] == IF k = 0 THEN grams ELSE Counted(g[k - 1], qs[k], tid)
  IN g[Len(qs)]

\* Mutant: a name is noted for each of its tokens.
NotedTwice(list, nid, score) == Append(list, [id |-> nid, val |-> score])

\* A token is noted once for each name it is in.
Noted(list, nid, score) ==
  IF list # <<>> /\ Last(list).id = nid THEN list ELSE Append(list, [id |-> nid, val |-> score])

\* A token of the name nid.
AddToken(x, token, nid, score) ==
  LET tid == IndexOf(x.toks, token)
      new == tid > Len(x.toks)
  IN [x EXCEPT !.toks = IF new THEN Append(@, token) ELSE @,
               !.inv = IF new THEN Append(@, Noted(<<>>, nid, score))
                       ELSE [@ EXCEPT ![tid] = Noted(x.inv[tid], nid, score)],
               !.grams = GramsOf(@, token, tid)]

AddName(x, g, name) ==
  LET nid == Len(x.names) + 1
      tokens == Tokenize(name)
      y[k \in 0..Len(tokens)] ==
        IF k = 0 THEN [x EXCEPT !.names = Append(@, [gid |-> g.gid, name |-> name])]
        ELSE AddToken(y[k - 1], tokens[k], nid, g.score)
  IN y[Len(tokens)]

\* How well a name fits.
NameAttrRel(attr) ==
  CASE attr \in {"ref_name", "uic_name"} -> 5
    [] attr = "nat_name" -> 4
    [] attr \in {"gtfs_name", "official_name"} -> 3
    [] attr = "int_name" -> 2
    [] attr = "name" -> 1
    [] attr = "alt_name" -> -1
    [] OTHER -> 0

\* All names of a group, its own before those of its stations.
Rated(attrs, more) ==
  [k \in 1..Len(attrs) |-> [rel |-> NameAttrRel(attrs[k][1]) + more, name |-> attrs[k][2]]]
NamesOf(g) ==
  LET met[m \in 0..Len(g.members)] ==
        IF m = 0 THEN Rated(g.attrs, 3) ELSE met[m - 1] \o Rated(g.members[m], 0)
  IN met[Len(g.members)]

\* Each name once, as it was met first, and the best ones first.
UniqueNames(g) ==
  LET met == NamesOf(g)
      first == {k \in 1..Len(met) : \A l \in 1..(k - 1) : met[l].name # met[k].name}
      names == PickAt(met, first)
  IN SortBy(names, [k \in 1..Len(names) |-> -names[k].rel])

\* Groups without stations or without a hull are not indexed.
Indexed(g) == g.members # <<>> /\ g.poly # 0
AddGroup(x, g) ==
  LET names == UniqueNames(g)
      y[k \in 0..Len(names)] == IF k = 0 THEN x ELSE AddName(y[k - 1], g, names[k].name)
  IN IF Indexed(g) THEN y[Len(names)] ELSE x

NoIndex == [names |-> <<>>, toks |-> <<>>, inv |-> <<>>, grams |-> <<>>]

Built(c) ==
  LET x[k \in 0..Len(c)] == IF k = 0 THEN NoIndex ELSE AddGroup(x[k - 1], c[k])
      all == x[Len(c)]
  IN [all EXCEPT !.grams = [q \in DOMAIN @ |-> SortedUp(@[q])]]

-----------------------------------------------------------------------------
(* find *)

\* Mutant: a token has to share one q-gram more.
ThresholdHigh(p) == Len(p) - 3 * (Len(p) \div 4) + 1

\* q-grams shared with a word that is so near.
Threshold(p) == Len(p) - 3 * (Len(p) \div 4)

TokenFind(p) ==
  LET delta == Len(p) \div 4
      lists == [i \in 1..Len(GetQGrams(p)) |->
                  LET q == GetQGrams(p)[i] IN IF q \in DOMAIN ix.grams THEN ix.grams[q] ELSE <<>>]
      ped(tid) == PrefixEditDist(p, ix.toks[tid], delta)
      near == SelectSeq(LMerge(lists), LAMBDA e : e.val >= Threshold(p) /\ ped(e.id) <= delta)
  IN [i \in 1..Len(near) |-> [id |-> near[i].id, val |-> ped(near[i].id)]]

\* The nearest TopTokens of them first.
Nearest(p) ==
  LET res == SortSeq(TokenFind(p), LAMBDA x, y : x.val < y.val \/ (x.val = y.val /\ x.id < y.id))
  IN SubSeq(res, 1, Min({Len(res), TopTokens}))

Score(p, score, ped) == (score * Len(p) * Scale) \div (1 + ped)

\* Mutant: a name is counted for each of its tokens that match.
ScoredAll(p, res, i) ==
  [j \in 1..Len(ix.inv[res[i].id]) |->
     LET e == ix.inv[res[i].id][j] IN [e EXCEPT !.val = Score(p, e.val, res[i].val)]]

\* The list of token res[i]: a name counts if this is the first token that
\* matches best for it.
Scored(p, res, i) ==
  LET list == ix.inv[res[i].id]
      here(k, n) == {e \in ToSet(ix.inv[res[k].id]) : e.id = n}
      val(k, n) == Max({Score(p, e.val, res[k].val) : e \in here(k, n)} \cup {0})
      best(n) == /\ \A k \in DOMAIN res : val(k, n) <= val(i, n)
                 /\ \A k \in 1..(i - 1) : val(k, n) < val(i, n)
  IN [j \in 1..Len(list) |-> [id |-> list[j].id,
                              val |-> IF best(list[j].id) THEN val(i, list[j].id) ELSE 0]]

\* The lists of all tokens near a query token, for all of these, merged.
ScoredNames(q) ==
  LMerge(FlattenSeq([k \in 1..Len(Tokenize(q)) |->
           LET p == Tokenize(q)[k]
               res == Nearest(p)
           IN [i \in 1..Len(res) |-> Scored(p, res, i)]]))

\* For each group the name with the best score, the first of them.
BestNames(q) ==
  LET fr == ToSet(ScoredNames(q))
      gid(e) == ix.names[e.id].gid
  IN {[gid |-> gid(e), name |-> e.id, score |-> e.val] :
      e \in {x \in fr : \A y \in fr : gid(x) = gid(y) =>
                          x.val > y.val \/ (x.val = y.val /\ x.id <= y.id)}}

-----------------------------------------------------------------------------
SearchIdxInit == content = <<>> /\ ix = NoIndex /\ words = NoWords /\ hits = {}

Build ==
  /\ ix = NoIndex
  /\ content' \in Contents
  /\ ix' = Built(content')
  /\ UNCHANGED <<words, hits>>

\* The partial sort leaves the order of equal scores open.  A query changes
\* nothing in the index: one is asked.
Find ==
  /\ ix # NoIndex /\ words = NoWords
  /\ \E q \in Typed :
       /\ words' = q
       /\ LET fin == BestNames(q)
          IN \E top \in kSubset(Min({TopResults, Cardinality(fin)}), fin) :
               /\ \A x \in top, y \in fin \ top : x.score >= y.score
               /\ hits' = top
  /\ UNCHANGED <<content, ix>>

SearchIdxNext == Build \/ Find
SearchIdxSpec == SearchIdxInit /\ [][SearchIdxNext]_searchVars

-----------------------------------------------------------------------------
Ascending(list) == \A i \in 1..Len(list) - 1 : list[i].id < list[i + 1].id

\* Merging needs its lists in the order of ids, each id once: those of q-grams
\* although tokens occur again in later names, those of tokens although a token
\* occurs twice in a name.
PostingsSorted ==
  /\ \A q \in DOMAIN ix.grams : Ascending(ix.grams[q])
  /\ \A t \in DOMAIN ix.inv : Ascending(ix.inv[t])

\* A group can be found by all its names, each once, and is called by the best
\* of them; a name is as good as where it was met first, its own first of all.
NamesKept ==
  \A g \in ToSet(content) :
    LET mine == PickAt(ix.names, {n \in DOMAIN ix.names : ix.names[n].gid = g.gid})
        own == {a[2] : a \in ToSet(g.attrs)}
        foreign == {a[2] : a \in UNION {ToSet(m) : m \in ToSet(g.members)}}
        met(n) == NamesOf(g)[Min({k \in DOMAIN NamesOf(g) : NamesOf(g)[k].name = n})].rel
    IN IF ~Indexed(g) THEN mine = <<>>
       ELSE /\ {n.name : n \in ToSet(mine)} = own \cup foreign
            /\ Len(mine) = Cardinality(own \cup foreign)
            /\ \A k \in DOMAIN mine : met(mine[1].name) >= met(mine[k].name)

\* The words that are one letter away from w.
Letters == UNION {ToSet(ix.toks[t]) : t \in DOMAIN ix.toks}
OneOff(w) ==
  {RemoveAt(w, i) : i \in DOMAIN w}
  \cup {[w EXCEPT ![i] = c] : i \in DOMAIN w, c \in Letters}
  \cup {InsertAt(w, i, c) : i \in 1..Len(w) + 1, c \in Letters}

\* The distance a token has from a query token of less than 8 letters: none,
\* one letter for every four, or 2 for too far.
Distance(p, t) ==
  LET prefixes(w) == {SubSeq(w, 1, i) : i \in 0..Len(w)}
  IN IF p \in prefixes(t) THEN 0
     ELSE IF Len(p) >= 4 /\ OneOff(p) \cap prefixes(t) # {} THEN 1 ELSE 2

\* The q-gram index loses no token: a query token finds exactly those it is
\* nearly a prefix of.
TokensFound ==
  words # NoWords =>
    \A p \in ToSet(Tokenize(words)) :
      /\ ToSet(TokenFind(p)) = {[id |-> t, val |-> Distance(p, ix.toks[t])] :
                                  t \in {x \in DOMAIN ix.toks : Distance(p, ix.toks[x]) <= 1}}
      /\ Ascending(TokenFind(p))

\* The score a name deserves: for each query token the best of its own.
Deserved(n) ==
  LET name == ix.names[n]
      val(p, t) == IF Distance(p, t) <= 1
                   THEN Score(p, (CHOOSE e \in ToSet(ix.inv[IndexOf(ix.toks, t)]) : e.id = n).val,
                              Distance(p, t))
                   ELSE 0
      best(p) == Max({val(p, t) : t \in ToSet(Tokenize(name.name))} \cup {0})
  IN FoldLeft(LAMBDA s, p : s + best(p), 0, Tokenize(words))

\* A query shows the groups with the best names, each once, by the first of its
\* best names and with the score this deserves; no group is left out for one
\* with a worse name.
BestShown ==
  words # NoWords =>
    LET of(g) == {n \in DOMAIN ix.names : ix.names[n].gid = g}
        score(g) == Max({Deserved(n) : n \in of(g)} \cup {0})
        gids == {ix.names[n].gid : n \in DOMAIN ix.names}
        match == {g \in gids : score(g) > 0}
    IN /\ Cardinality(hits) = Min({TopResults, Cardinality(match)})
       /\ \A h \in hits :
            /\ h.gid \in match /\ h.score = score(h.gid)
            /\ h.name = Min({n \in of(h.gid) : Deserved(n) = h.score})
            /\ \A g \in match \ {x.gid : x \in hits} : score(g) <= h.score
       /\ \A h, i \in hits : h.gid = i.gid => h = i

\* The index has all names of all groups, and its lists can be merged
\* (StatIdx::initGroups, SearchIdx::build).
IndexInv == NamesKept /\ PostingsSorted

\* A query finds the tokens and shows the groups that it should
\* (SearchIdx::tokenFind, lmerge, find).
FindInv == TokensFound /\ BestShown
=============================================================================
