----------------------------- MODULE WebClient -----------------------------
(***************************************************************************)
(* The page (web/script.js): a map that is drawn anew after each movement, *)
(* popups of stations, groups and meta groups, and a search box with a     *)
(* list of hits.  The page has one thread; what interleaves are the events *)
(* of the user, of the map library, of the timer and of requests in        *)
(* flight.  Every action is one callback from its first to its last line.  *)
(*                                                                         *)
(* Objects are pairs of a kind and an id.  A view is its zoom level.  What *)
(* the map library does (order of its events, when a popup closes) is      *)
(* external.                                                               *)
(***************************************************************************)
EXTENDS Naturals, Sequences, FiniteSets, FiniteSetsExt, SequencesExt

CONSTANTS Objects,    \* <<kind, id>>, kind one of PopKinds
          Contents,   \* what the server may answer to a request for the map
          Results,    \* search text -> sequence of stations and groups
          Zooms,      \* zoom levels, among them FirstZoom and PopupZoom
          MaxSent,    \* bound on the requests sent
          MaxLost,    \* bound on those of them that fail
          None, NoIndex

PopKinds == {"st", "gr", "mgr"}
Purposes == PopKinds \cup {"map", "search"}
FirstZoom == 13
PopupZoom == 16
Undef == "undefined"  \* s() is called without a text
NoText == "empty"      \* s("")
Texts == DOMAIN Results

ASSUME WebAssumption ==
  /\ Objects \subseteq PopKinds \X Nat /\ Contents \subseteq SUBSET Objects
  /\ \A q \in Texts : Range(Results[q]) \subseteq {o \in Objects : o[1] # "mgr"}
  /\ {FirstZoom, PopupZoom} \subseteq Zooms /\ Zooms \subseteq Nat
  /\ MaxSent \in Nat \ {0} /\ MaxLost \in Nat /\ {Undef, NoText} \cap Texts = {}

\* The requests for a purpose, with what they may ask for.
Requests(p) ==
  [p : {p}, n : Nat,
   what : CASE p = "map" -> Zooms [] p = "search" -> Texts
            [] p \in PopKinds -> {o \in Objects : o[1] = p}]

\* None stands for null and undefined, NoIndex for an index never set: they are
\* none of the values they are compared with.
ASSUME NoneAssumption ==
  /\ None \notin Zooms /\ None \notin Objects /\ None \notin Texts
  /\ \A p \in Purposes : None \notin Requests(p)
  /\ None \notin [n : Nat, heat : BOOLEAN, zoom : Zooms]
  /\ NoIndex \notin Contents

VARIABLES
  view,        \* map.getZoom()
  due,         \* where a movement leads, None when the map rests
  reqs,        \* reqs: channel -> last request
  flying,      \* requests without an answer yet
  lost,        \* numbers of failed requests
  sent,        \* number of requests so far
  drawn,       \* the layers of the map: [n, heat, zoom], None at first
  index,       \* keys of stIdx, grIdx, mGrIdx
  lit,         \* objects drawn as highlighted
  opened,      \* openedSt, openedGr, openedMGr
  popup,       \* object whose popup is open
  prevSearch, delayTimer,
  list,        \* #sres: [open, text, rows]
  selectedRes, \* position and object of the selected row
  thrown,      \* a callback ended in a TypeError
  shown        \* history: purpose -> number of the last request shown

netVars == <<reqs, flying, lost, sent>>
mapVars == <<view, due, drawn, index>>
popVars == <<opened, popup>>
searchVars == <<prevSearch, delayTimer, list, selectedRes>>
webVars == <<netVars, mapVars, popVars, searchVars, lit, thrown, shown>>

-----------------------------------------------------------------------------
\* The channel a request is sent on; one channel has one request at a time.
\* Mutant: meta groups get one of their own.
ChannelOfKind(p) ==
  CASE p = "map" -> "m" [] p = "st" -> "s" [] p = "gr" -> "g" [] p = "mgr" -> "mg"
    [] p = "search" -> "sr"

Channel(p) ==
  CASE p = "map" -> "m" [] p = "st" -> "s" [] p \in {"gr", "mgr"} -> "g"
    [] p = "search" -> "sr"

Channels == {"m", "s", "g", "mg", "sr"}

\* req: the last request of the channel is aborted, which ends it.
Req(p, what) ==
  LET r == [p |-> p, n |-> sent + 1, what |-> what]
  IN /\ sent < MaxSent
     /\ sent' = sent + 1
     /\ flying' = (flying \ {reqs[Channel(p)]}) \cup {r}
     /\ reqs' = [reqs EXCEPT ![Channel(p)] = r]

\* An answer arrives that is handed on; this == reqs[id].
Answered(r) ==
  /\ r \in flying /\ r = reqs[Channel(r.p)]
  /\ flying' = flying \ {r}
  /\ shown' = [shown EXCEPT ![r.p] = r.n]
  /\ UNCHANGED <<reqs, lost, sent>>

Fail ==
  /\ Cardinality(lost) < MaxLost
  /\ \E r \in flying : flying' = flying \ {r} /\ lost' = lost \cup {r.n}
  /\ UNCHANGED <<reqs, sent, mapVars, popVars, searchVars, lit, thrown, shown>>

-----------------------------------------------------------------------------
\* s(q): the list is closed at once for no text, else searched for by the timer.
\* Mutant: the timer is cleared before the text is compared.
SearchFirstClear(q) ==
  /\ prevSearch' = q
  /\ delayTimer' = IF q # prevSearch /\ q \in Texts THEN q ELSE None
  /\ list' = IF q # prevSearch /\ q \notin Texts THEN [open |-> FALSE, text |-> NoText, rows |-> <<>>]
             ELSE list
  /\ UNCHANGED selectedRes

Search(q) ==
  /\ prevSearch' = q
  /\ delayTimer' = IF q = prevSearch THEN delayTimer ELSE IF q \in Texts THEN q ELSE None
  /\ list' = IF q # prevSearch /\ q \notin Texts THEN [open |-> FALSE, text |-> NoText, rows |-> <<>>]
             ELSE list
  /\ UNCHANGED selectedRes

\* The handlers of the popups: opened is reset and the highlight taken away,
\* but only while it is this object's popup that counts as open.
\* Mutant: the handler takes the highlight away only.
RemovedKeep(o, ops, hl) == [ops |-> ops, lit |-> IF ops[o[1]] = o THEN hl \ {o} ELSE hl]

Removed(o, ops, hl) ==
  IF ops[o[1]] = o THEN [ops |-> [ops EXCEPT ![o[1]] = None], lit |-> hl \ {o}]
  ELSE [ops |-> ops, lit |-> hl]

Closed(ops, hl) == IF popup = None THEN [ops |-> ops, lit |-> hl] ELSE Removed(popup, ops, hl)

\* stHl, grHl, mGrHl: only what is in the index; without an index they throw.
Highlighted(o, hl) == IF o \in index THEN hl \cup {o} ELSE hl

-----------------------------------------------------------------------------
\* render: a request for the heat map or the map of the present view.
Render == Req("map", view')

\* The user moves a map at rest; the view changes before moveend is fired.
Move ==
  /\ due = None
  /\ \E z \in Zooms : due' = z
  /\ UNCHANGED <<view, drawn, index, netVars, popVars, searchVars, lit, thrown, shown>>

Glide ==
  /\ due # None /\ view # due
  /\ view' = due
  /\ UNCHANGED <<due, drawn, index, netVars, popVars, searchVars, lit, thrown, shown>>

\* Mutant: the map is not requested again when only its place changed.
MoveEndZoomOnly ==
  /\ due # None
  /\ due' = None
  /\ view' \in {view, due}
  /\ IF view' = view THEN UNCHANGED <<reqs, flying, sent>> ELSE Render
  /\ UNCHANGED <<lost, drawn, index, popVars, searchVars, lit, thrown, shown>>

\* moveend, at the end of the movement or where it was stopped.
MoveEnd ==
  /\ due # None
  /\ due' = None
  /\ view' \in {view, due}
  /\ Render
  /\ UNCHANGED <<lost, drawn, index, popVars, searchVars, lit, thrown, shown>>

\* The answer to the heat map hides the layers; the indexes stay.
HeatAnswer ==
  /\ \E r \in flying :
       /\ r.p = "map" /\ r.what < 11
       /\ Answered(r)
       /\ drawn' = [n |-> r.n, heat |-> TRUE, zoom |-> view]
  /\ UNCHANGED <<view, due, index, popVars, searchVars, lit, thrown>>

\* The answer to the map: new layers and indexes, drawn for the zoom of now.
MapAnswer ==
  /\ \E r \in flying, c \in Contents :
       /\ r.p = "map" /\ r.what >= 11
       /\ Answered(r)
       /\ drawn' = [n |-> r.n, heat |-> FALSE, zoom |-> view]
       /\ index' = c /\ lit' = {opened[k] : k \in PopKinds} \cap c
  /\ UNCHANGED <<view, due, popVars, searchVars, thrown>>

-----------------------------------------------------------------------------
\* A click on the map closes the popup and the list.
MapClick ==
  LET c == Closed(opened, lit)
  IN /\ opened' = c.ops /\ lit' = c.lit /\ popup' = None
     /\ Search(Undef)
     /\ UNCHANGED <<netVars, mapVars, thrown, shown>>

\* Groups are drawn from zoom 14, stations always; a click on one also is a
\* click on the map.
Clickable(o) ==
  /\ drawn # None /\ ~drawn.heat /\ o \in index
  /\ o[1] # "st" => drawn.zoom > 13

\* An arrow is drawn from zoom 16; what it opens need not be on the map.
ArrowTo(o) == drawn # None /\ ~drawn.heat /\ drawn.zoom > 15 /\ o[1] # "mgr"

LayerClick ==
  LET c == Closed(opened, lit)
  IN /\ \E o \in Objects : (Clickable(o) \/ ArrowTo(o)) /\ Req(o[1], o)
     /\ opened' = c.ops /\ lit' = c.lit /\ popup' = None
     /\ Search(Undef)
     /\ UNCHANGED <<lost, mapVars, thrown, shown>>

\* The close button of the popup.
ClosePopup ==
  LET c == Closed(opened, lit)
  IN /\ popup # None
     /\ opened' = c.ops /\ lit' = c.lit /\ popup' = None
     /\ UNCHANGED <<netVars, mapVars, searchVars, thrown, shown>>

\* rndrSt, rndrGr, rndrMGr: the object counts as open and is highlighted, the
\* last popup closes, which resets both if it was of the same object.  Then
\* popupopen moves the map, unless a zoom is being animated, and calls s.
PopupAnswer ==
  /\ index # NoIndex
  /\ \E r \in flying :
       LET o == r.what
           c == Closed([opened EXCEPT ![r.p] = o], Highlighted(o, lit))
       IN /\ r.p \in PopKinds
          /\ Answered(r)
          /\ opened' = c.ops /\ lit' = c.lit /\ popup' = o
  /\ due' \in {Max({view, PopupZoom})} \cup ({due} \ {None})
  /\ Search(Undef)
  /\ UNCHANGED <<view, drawn, index, thrown>>

\* The same before any map was drawn: the highlight throws.
PopupThrows ==
  /\ index = NoIndex
  /\ \E r \in flying :
       /\ r.p \in PopKinds
       /\ Answered(r)
       /\ opened' = [opened EXCEPT ![r.p] = r.what]
  /\ thrown' = TRUE
  /\ UNCHANGED <<popup, mapVars, searchVars, lit>>

-----------------------------------------------------------------------------
Row(i) == [i |-> i, o |-> list'.rows[i]]

Unselected(row, hl) ==
  IF row = None \/ opened[row.o[1]] = row.o THEN hl ELSE hl \ {row.o}

\* unselect and select throw without an index, the one before the new row is
\* selected, the other after.
Throws(row) == index = NoIndex /\ row # None /\ opened[row.o[1]] # row.o

Select(row) ==
  /\ selectedRes' = IF Throws(selectedRes) THEN None ELSE row
  /\ lit' = IF index = NoIndex THEN lit
            ELSE Highlighted(row.o, Unselected(selectedRes, lit))
  /\ thrown' = (thrown \/ index = NoIndex)

\* A key in the search box.
Type ==
  /\ \E q \in Texts \cup {NoText} : Search(q)
  /\ UNCHANGED <<netVars, mapVars, popVars, lit, thrown, shown>>

\* The cross beside the box.
Delete ==
  /\ Search(Undef)
  /\ UNCHANGED <<netVars, mapVars, popVars, lit, thrown, shown>>

TimerFires ==
  /\ delayTimer # None
  /\ Req("search", delayTimer)
  /\ delayTimer' = None
  /\ UNCHANGED <<lost, prevSearch, list, selectedRes, mapVars, popVars, lit, thrown, shown>>

\* The list opens with the hits and the first is selected; also when it has
\* been closed since the request was sent.
SearchAnswer ==
  /\ \E r \in flying :
       /\ r.p = "search"
       /\ Answered(r)
       /\ list' = [open |-> TRUE, text |-> r.what, rows |-> Results[r.what]]
  /\ IF list'.rows = <<>> THEN UNCHANGED <<selectedRes, lit, thrown>> ELSE Select(Row(1))
  /\ UNCHANGED <<prevSearch, delayTimer, mapVars, popVars>>

\* The rows of the list that are marked as selected.
SelectedRow == selectedRes # None /\ selectedRes.i \in DOMAIN list.rows
                 /\ list.rows[selectedRes.i] = selectedRes.o

\* The mouse over a row, or the keys down and up.
SelectRow ==
  /\ list.open
  /\ UNCHANGED list
  /\ \E i \in DOMAIN list.rows : Select(Row(i))
  /\ UNCHANGED <<prevSearch, delayTimer, netVars, mapVars, popVars, shown>>

\* The key up in the first row.
Unselect ==
  /\ SelectedRow /\ selectedRes.i = 1
  /\ selectedRes' = None
  /\ lit' = IF index = NoIndex THEN lit ELSE Unselected(selectedRes, lit)
  /\ thrown' = (thrown \/ Throws(selectedRes))
  /\ UNCHANGED <<prevSearch, delayTimer, list, netVars, mapVars, popVars, shown>>

\* A click on a row, or return.
RowClick ==
  /\ list.open
  /\ \E i \in DOMAIN list.rows : Req(list.rows[i][1], list.rows[i])
  /\ UNCHANGED <<lost, mapVars, popVars, searchVars, lit, thrown, shown>>

-----------------------------------------------------------------------------
WebInit ==
  LET first == [p |-> "map", n |-> 1, what |-> FirstZoom]
  IN /\ view = FirstZoom /\ due = None
     /\ reqs = [c \in Channels |-> IF c = "m" THEN first ELSE None]
     /\ flying = {first} /\ lost = {} /\ sent = 1
     /\ drawn = None /\ index = NoIndex /\ lit = {}
     /\ opened = [k \in PopKinds |-> None] /\ popup = None
     /\ prevSearch = Undef /\ delayTimer = None /\ selectedRes = None
     /\ list = [open |-> FALSE, text |-> NoText, rows |-> <<>>]
     /\ thrown = FALSE
     /\ shown = [p \in Purposes |-> 0]

WebNext ==
  \/ Move \/ Glide \/ MoveEnd \/ HeatAnswer \/ MapAnswer
  \/ MapClick \/ LayerClick \/ ClosePopup \/ PopupAnswer \/ PopupThrows
  \/ Type \/ Delete \/ TimerFires \/ SearchAnswer
  \/ SelectRow \/ Unselect \/ RowClick \/ Fail

WebSpec == WebInit /\ [][WebNext]_webVars

-----------------------------------------------------------------------------
WebTypeOK ==
  /\ view \in Zooms /\ due \in Zooms \cup {None}
  /\ \A r, t \in flying : Channel(r.p) = Channel(t.p) => r = t
  /\ lost \subseteq 1..sent /\ sent \in 1..MaxSent
  /\ index = NoIndex \/ index \subseteq Objects
  /\ lit \subseteq IF index = NoIndex THEN {} ELSE index
  /\ \A k \in PopKinds : opened[k] = None \/ opened[k][1] = k
  /\ popup \in Objects \cup {None}
  /\ prevSearch \in Texts \cup {Undef, NoText}
  /\ delayTimer \in Texts \cup {None}
  /\ list.open \/ list.rows = <<>>

\* The map, the popups of stations, those of groups and meta groups, and the
\* list of hits never go back to the answer of an earlier request, in
\* whatever order answers arrive (req, script.js:48-54).
Topic(p) == IF p = "mgr" THEN "gr" ELSE p
LastShown(num, p) == Max({num[q] : q \in {x \in Purposes : Topic(x) = Topic(p)}})
NeverBack == \A p \in Purposes : shown'[p] # shown[p] => shown'[p] > LastShown(shown, p)
ShownNewest == [][NeverBack]_webVars

\* At rest, the layers are those of the last request for the map, and they
\* were drawn with the widths of the zoom that is seen (render, moveend).
DrawnIsView ==
  LET last == reqs["m"]
  IN due = None /\ last \notin flying /\ last.n \notin lost =>
       drawn # None /\ drawn.n = last.n /\ drawn.zoom = view /\ last.what = view

\* What counts as open is what the popup shows (the handlers of remove).  The
\* converse fails: an object opened again while its popup is open is reset by
\* the popup it replaces.
OpenedIsPopup == ~thrown => \A k \in PopKinds : opened[k] # None => popup = opened[k]

\* What is open is highlighted wherever it is on the map, through any
\* sequence of new maps, selected rows and closed popups.
OpenedIsLit ==
  index # NoIndex =>
    \A k \in PopKinds : opened[k] # None /\ opened[k] \in index => opened[k] \in lit

\* When no search is under way and none failed, the open list answers the
\* text that was typed last.
ListIsOfSearch ==
  /\ prevSearch \in Texts /\ list.open
  /\ delayTimer = None /\ reqs["sr"] \notin flying
  /\ reqs["sr"].n \notin lost
  => list.text = prevSearch

\* What is open, what the popup shows and what is highlighted agree
\* (openStat, openGroup, openMGroup and the handlers of remove).
PopupInv == WebTypeOK /\ OpenedIsPopup /\ OpenedIsLit
=============================================================================
