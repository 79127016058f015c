-------------------------- MODULE WebClientProofs --------------------------
(***************************************************************************)
(* TLAPS proofs about WebClient, for any objects, contents of the map,     *)
(* search results and zoom levels, and any numbers of requests.            *)
(***************************************************************************)
EXTENDS WebClient, TLAPS

IsRequest(r) == r.p \in Purposes /\ r \in Requests(r.p)

\* Only the last request of a channel may still be answered, and nothing shown
\* on its channel is younger.
NetInv ==
  /\ sent \in 1..MaxSent /\ lost \subseteq 1..sent
  /\ DOMAIN reqs = Channels /\ reqs = [c \in Channels |-> reqs[c]]
  /\ \A c \in Channels : reqs[c] # None =>
       IsRequest(reqs[c]) /\ Channel(reqs[c].p) = c /\ reqs[c].n \in 1..sent
  /\ \A r \in flying : r # None /\ \E c \in Channels : r = reqs[c]
  /\ shown \in [Purposes -> 0..sent]
  /\ \A r \in flying : \A p \in Purposes : Channel(p) = Channel(r.p) => shown[p] < r.n

\* The types of what the page keeps: the map, the popups, and the search.
MapTypes ==
  /\ view \in Zooms /\ due \in Zooms \cup {None}
  /\ index \in Contents \cup {NoIndex}

PopupTypes ==
  /\ lit \subseteq IF index = NoIndex THEN {} ELSE index
  /\ opened \in [PopKinds -> Objects \cup {None}]
  /\ \A k \in PopKinds : opened[k] = None \/ opened[k][1] = k
  /\ popup \in Objects \cup {None}

SearchTypes ==
  /\ prevSearch \in Texts \cup {Undef, NoText}
  /\ delayTimer \in Texts \cup {None}
  /\ list.open \/ list.rows = <<>>
  /\ \A i \in DOMAIN list.rows : list.rows[i] \in Objects

\* What is open, what the popup shows and what is highlighted agree.
Popups == PopupTypes /\ OpenedIsPopup /\ OpenedIsLit

\* The last request for the map is for the view the map came to rest at, and
\* once it was answered, that answer is drawn.
MapLast ==
  LET last == reqs["m"]
  IN /\ last # None
     /\ due = None => last.what = view
     /\ last \notin flying /\ last.n \notin lost =>
          drawn # None /\ drawn.n = last.n /\ (due = None => drawn.zoom = view)

\* A text is waiting for the timer, or asked for, or answered in the list.
SearchLast ==
  LET last == reqs["sr"]
  IN /\ delayTimer # None => delayTimer = prevSearch
     /\ prevSearch \in Texts /\ delayTimer = None =>
          /\ last # None /\ last.what = prevSearch
          /\ last \notin flying /\ last.n \notin lost => list.text = prevSearch

WInv == NetInv /\ MapTypes /\ SearchTypes /\ Popups /\ MapLast /\ SearchLast

-----------------------------------------------------------------------------
(* Requests and answers (req). *)

LEMMA RequestsOf ==
  /\ Requests("map") = [p : {"map"}, n : Nat, what : Zooms]
  /\ Requests("search") = [p : {"search"}, n : Nat, what : Texts]
  /\ \A k \in PopKinds : Requests(k) = [p : {k}, n : Nat, what : {o \in Objects : o[1] = k}]
  BY DEF Requests, PopKinds

LEMMA AskedFor ==
  ASSUME NEW p \in Purposes, NEW r \in Requests(p)
  PROVE  /\ r.p = p
         /\ p = "search" => r.what \in Texts
         /\ p \in PopKinds => r.what \in Objects /\ r.what[1] = p
  <1>1. CASE p = "map"
    <2>1. r \in [p : {"map"}, n : Nat, what : Zooms] BY <1>1, RequestsOf
    <2> QED BY <1>1, <2>1 DEF PopKinds
  <1>2. CASE p = "search"
    <2>1. r \in [p : {"search"}, n : Nat, what : Texts] BY <1>2, RequestsOf
    <2> QED BY <1>2, <2>1 DEF PopKinds
  <1>3. CASE p \in PopKinds
    <2>1. r \in [p : {p}, n : Nat, what : {o \in Objects : o[1] = p}] BY <1>3, RequestsOf
    <2> QED BY <1>3, <2>1 DEF PopKinds
  <1> QED BY <1>1, <1>2, <1>3 DEF Purposes

LEMMA ChannelType == \A p \in Purposes : Channel(p) \in Channels
  BY DEF Purposes, PopKinds, Channel, Channels

\* What is in flight is the last request of its channel.
LEMMA FlyingIsLast ==
  ASSUME NetInv, NEW r \in flying
  PROVE  /\ r.p \in Purposes /\ r \in Requests(r.p)
         /\ r = reqs[Channel(r.p)] /\ r.n \in 1..sent
  BY DEF NetInv, IsRequest

\* A request sent leaves the other channels alone.
LEMMA AfterReq ==
  ASSUME NetInv, NEW p \in Purposes, NEW what, [p |-> p, n |-> sent + 1, what |-> what] \in Requests(p),
         Req(p, what), UNCHANGED <<lost, shown>>
  PROVE  /\ NetInv'
         /\ reqs'[Channel(p)] = [p |-> p, n |-> sent + 1, what |-> what]
         /\ reqs'[Channel(p)] \in flying'
         /\ \A c \in Channels \ {Channel(p)} :
              /\ reqs'[c] = reqs[c]
              /\ reqs[c] # None /\ reqs[c] \in flying => reqs[c] \in flying'
  <1> DEFINE r == [p |-> p, n |-> sent + 1, what |-> what]
             k == Channel(p)
  <1>1. /\ sent' = sent + 1 /\ sent < MaxSent
        /\ flying' = (flying \ {reqs[k]}) \cup {r}
        /\ reqs' = [reqs EXCEPT ![k] = r]
    BY DEF Req
  <1>2. k \in Channels /\ r # None /\ r.p = p /\ r.n = sent + 1
    BY ChannelType, NoneAssumption
  <1>3. sent \in Nat /\ MaxSent \in Nat /\ sent' \in 1..MaxSent /\ 1..sent \subseteq 1..sent'
    BY <1>1, WebAssumption DEF NetInv
  <1>4. DOMAIN reqs = Channels /\ reqs'[k] = r /\ \A c \in Channels \ {k} : reqs'[c] = reqs[c]
    BY <1>1, <1>2 DEF NetInv
  <1>5. DOMAIN reqs' = Channels /\ reqs' = [c \in Channels |-> reqs'[c]]
    BY <1>1, <1>4
  <1>6. \A c \in Channels : reqs'[c] # None =>
          IsRequest(reqs'[c]) /\ Channel(reqs'[c].p) = c /\ reqs'[c].n \in 1..sent'
    <2> SUFFICES ASSUME NEW c \in Channels, reqs'[c] # None
                 PROVE  IsRequest(reqs'[c]) /\ Channel(reqs'[c].p) = c /\ reqs'[c].n \in 1..sent'
      OBVIOUS
    <2>1. CASE c = k
      <3>1. reqs'[c] = r /\ sent + 1 \in 1..sent' BY <1>1, <1>3, <1>4, <2>1
      <3> HIDE DEF r
      <3> QED BY <1>2, <2>1, <3>1 DEF IsRequest, r
    <2>2. CASE c # k
      BY <1>3, <1>4, <2>2 DEF NetInv
    <2> QED BY <2>1, <2>2
  <1>7. ASSUME NEW t \in flying, t # reqs[k] PROVE Channel(t.p) # k
    BY <1>7, FlyingIsLast
  <1>8. \A t \in flying' : t # None /\ \E c \in Channels : t = reqs'[c]
    <2> SUFFICES ASSUME NEW t \in flying' PROVE t # None /\ \E c \in Channels : t = reqs'[c]
      OBVIOUS
    <2>1. CASE t = r
      BY <1>2, <1>4, <2>1
    <2>2. CASE t \in flying /\ t # reqs[k]
      <3>1. Channel(t.p) \in Channels \ {k} /\ t = reqs[Channel(t.p)]
        BY <1>7, <2>2, FlyingIsLast, ChannelType
      <3> QED BY <1>4, <2>2, <3>1 DEF NetInv
    <2> QED BY <1>1, <2>1, <2>2
  <1>9. shown' \in [Purposes -> 0..sent']
    BY <1>1, <1>3 DEF NetInv
  <1>10. \A t \in flying' : \A q \in Purposes : Channel(q) = Channel(t.p) => shown'[q] < t.n
    <2> SUFFICES ASSUME NEW t \in flying', NEW q \in Purposes, Channel(q) = Channel(t.p)
                 PROVE  shown'[q] < t.n
      OBVIOUS
    <2>1. CASE t = r
      <3>1. shown[q] \in 0..sent BY DEF NetInv
      <3> QED BY <1>2, <1>3, <2>1, <3>1
    <2>2. CASE t \in flying
      BY <2>2 DEF NetInv
    <2> QED BY <1>1, <2>1, <2>2
  <1>11. \A c \in Channels \ {k} : reqs[c] # None /\ reqs[c] \in flying => reqs[c] \in flying'
    <2> SUFFICES ASSUME NEW c \in Channels \ {k}, reqs[c] # None, reqs[c] \in flying
                 PROVE  reqs[c] \in flying'
      OBVIOUS
    <2>1. reqs[c] # reqs[k]
      BY <1>2 DEF NetInv
    <2> QED BY <1>1, <2>1
  <1> HIDE DEF r
  <1>12. lost' \subseteq 1..sent' BY <1>3 DEF NetInv
  <1>13. NetInv'
    BY <1>3, <1>5, <1>6, <1>8, <1>9, <1>10, <1>12 DEF NetInv, IsRequest, Requests
  <1> QED BY <1>1, <1>4, <1>11, <1>13 DEF r

\* An answer ends its request, and is younger than all that is shown.
LEMMA AfterAnswer ==
  ASSUME NetInv, NEW r \in flying, Answered(r)
  PROVE  /\ NetInv'
         /\ UNCHANGED <<reqs, lost, sent>> /\ r = reqs[Channel(r.p)] /\ r.p \in Purposes
         /\ flying' = flying \ {r}
         /\ shown' = [shown EXCEPT ![r.p] = r.n]
  <1>1. /\ flying' = flying \ {r} /\ shown' = [shown EXCEPT ![r.p] = r.n]
        /\ UNCHANGED <<reqs, lost, sent>>
    BY DEF Answered
  <1>2. r.p \in Purposes /\ r = reqs[Channel(r.p)] /\ r.n \in 1..sent /\ sent \in Nat
    BY FlyingIsLast DEF NetInv
  <1>3. shown' \in [Purposes -> 0..sent]
    BY <1>1, <1>2 DEF NetInv
  <1>4. ASSUME NEW t \in flying', NEW q \in Purposes, Channel(q) = Channel(t.p)
        PROVE  shown'[q] < t.n
    <2>1. t \in flying /\ t # r BY <1>1
    <2>2. Channel(t.p) # Channel(r.p)
      BY <1>2, <2>1, FlyingIsLast
    <2>3. shown'[q] = shown[q]
      BY <1>1, <1>4, <2>2 DEF NetInv
    <2> QED BY <1>4, <2>1, <2>3 DEF NetInv
  <1> QED BY <1>1, <1>2, <1>3, <1>4 DEF NetInv

\* A request fails.
LEMMA AfterFail ==
  ASSUME NetInv, Fail
  PROVE  /\ NetInv' /\ UNCHANGED reqs
         /\ \A c \in Channels : reqs[c] # None /\ reqs[c] \notin flying' /\ reqs[c].n \notin lost' =>
              reqs[c] \notin flying /\ reqs[c].n \notin lost
  <1>1. PICK r \in flying : flying' = flying \ {r} /\ lost' = lost \cup {r.n}
    BY DEF Fail
  <1>2. UNCHANGED <<reqs, sent, shown>>
    BY DEF Fail
  <1>3. r.n \in 1..sent
    BY FlyingIsLast
  <1>4. NetInv'
    BY <1>1, <1>2, <1>3 DEF NetInv
  <1> QED BY <1>1, <1>2, <1>4

LEMMA NetSame ==
  ASSUME NetInv, UNCHANGED <<netVars, shown>>
  PROVE  NetInv'
  BY DEF NetInv, netVars

-----------------------------------------------------------------------------
(* What a step does to the network. *)

\* The last request of channel c stays the same, and is not answered.
Calm(c) ==
  /\ reqs'[c] = reqs[c]
  /\ reqs[c] # None /\ reqs[c] \notin flying' /\ reqs[c].n \notin lost' =>
       reqs[c] \notin flying /\ reqs[c].n \notin lost

LEMMA NetStep ==
  ASSUME WInv, WebNext
  PROVE  /\ NetInv'
         /\ Calm("m") \/ MoveEnd \/ HeatAnswer \/ MapAnswer
         /\ Calm("sr") \/ TimerFires \/ SearchAnswer
  <1> USE DEF WInv, netVars
  <1>1. "m" \in Channels /\ "sr" \in Channels
    BY DEF Channels
  <1>2. ASSUME NEW p \in Purposes, NEW what, Req(p, what), UNCHANGED <<lost, shown>>,
               [p |-> p, n |-> sent + 1, what |-> what] \in Requests(p)
        PROVE  NetInv' /\ \A c \in Channels \ {Channel(p)} : Calm(c)
    BY <1>2, AfterReq DEF Calm
  <1>3. ASSUME NEW r \in flying, Answered(r)
        PROVE  NetInv' /\ \A c \in Channels \ {Channel(r.p)} : Calm(c)
    <2>1. ASSUME NEW c \in Channels \ {Channel(r.p)}, reqs[c] # None PROVE reqs[c] # r
      <3>1. Channel(reqs[c].p) = c BY <2>1 DEF NetInv
      <3> QED BY <2>1, <3>1
    <2> QED BY <1>3, <2>1, AfterAnswer DEF Calm
  <1>4. CASE UNCHANGED <<netVars, shown>>
    BY <1>4, NetSame DEF Calm
  <1>5. CASE Fail
    BY <1>1, <1>5, AfterFail DEF Calm
  <1>6. CASE MoveEnd
    <2>1. view' \in Zooms /\ Req("map", view') /\ UNCHANGED <<lost, shown>> /\ "map" \in Purposes
      BY <1>6 DEF MoveEnd, Render, MapTypes, Purposes
    <2>2. sent + 1 \in Nat BY DEF NetInv
    <2>3. [p |-> "map", n |-> sent + 1, what |-> view'] \in Requests("map")
      BY <2>1, <2>2, RequestsOf
    <2>4. Channel("map") = "m" BY DEF Channel
    <2> QED BY <1>1, <1>2, <1>6, <2>1, <2>3, <2>4
  <1>7. ASSUME NEW o \in Objects, Req(o[1], o), UNCHANGED <<lost, shown>>
        PROVE  NetInv' /\ Calm("m") /\ Calm("sr")
    <2>1. o[1] \in PopKinds
      BY WebAssumption
    <2>2. o[1] \in Purposes /\ Channel(o[1]) \notin {"m", "sr"}
      BY <2>1 DEF Purposes, PopKinds, Channel
    <2>3. sent + 1 \in Nat BY DEF NetInv
    <2>4. Requests(o[1]) = [p : {o[1]}, n : Nat, what : {x \in Objects : x[1] = o[1]}]
      BY <2>1, RequestsOf
    <2>5. [p |-> o[1], n |-> sent + 1, what |-> o] \in Requests(o[1])
      BY <2>3, <2>4
    <2> QED BY <1>1, <1>2, <1>7, <2>2, <2>5
  <1>8. CASE LayerClick
    BY <1>7, <1>8 DEF LayerClick
  <1>9. CASE RowClick
    BY <1>7, <1>9 DEF RowClick, SearchTypes
  <1>10. CASE TimerFires
    <2>1. delayTimer \in Texts /\ Req("search", delayTimer) /\ UNCHANGED <<lost, shown>>
          /\ "search" \in Purposes /\ Channel("search") = "sr"
      BY <1>10 DEF TimerFires, SearchTypes, Purposes, Channel
    <2>2. sent + 1 \in Nat BY DEF NetInv
    <2>3. [p |-> "search", n |-> sent + 1, what |-> delayTimer] \in Requests("search")
      BY <2>1, <2>2, RequestsOf
    <2> QED BY <1>1, <1>2, <1>10, <2>1, <2>3
  <1>11. CASE HeatAnswer
    BY <1>1, <1>3, <1>11 DEF HeatAnswer, Channel
  <1>12. CASE MapAnswer
    BY <1>1, <1>3, <1>12 DEF MapAnswer, Channel
  <1>13. CASE SearchAnswer
    BY <1>1, <1>3, <1>13 DEF SearchAnswer, Channel
  <1>14. CASE PopupAnswer \/ PopupThrows
    <2>1. PICK r \in flying : r.p \in PopKinds /\ Answered(r)
      BY <1>14 DEF PopupAnswer, PopupThrows
    <2>2. Channel(r.p) \notin {"m", "sr"}
      BY <2>1 DEF PopKinds, Channel
    <2> QED BY <1>1, <1>3, <2>1, <2>2
  <1> QED BY <1>4, <1>5, <1>6, <1>8, <1>9, <1>10, <1>11, <1>12, <1>13, <1>14
          DEF WebNext, Move, Glide, MapClick, ClosePopup, Type, Delete, SelectRow, Unselect

-----------------------------------------------------------------------------
(* The map. *)

LEMMA MapStep ==
  ASSUME WInv, WebNext
  PROVE  MapTypes' /\ MapLast'
  <1> USE DEF WInv, netVars, mapVars
  <1>1. view \in Zooms /\ view \in Nat /\ PopupZoom \in Zooms /\ PopupZoom \in Nat
    BY WebAssumption DEF MapTypes
  <1>2. Max({view, PopupZoom}) \in {view, PopupZoom}
    BY <1>1 DEF Max
  <1>3. MapTypes'
    <2>1. CASE UNCHANGED mapVars
      BY <2>1 DEF MapTypes
    <2>2. CASE PopupAnswer
      BY <1>1, <1>2, <2>2 DEF PopupAnswer, MapTypes
    <2>3. CASE Move \/ Glide \/ MoveEnd \/ HeatAnswer \/ MapAnswer
      BY <2>3 DEF Move, Glide, MoveEnd, HeatAnswer, MapAnswer, MapTypes
    <2> QED BY <2>1, <2>2, <2>3
            DEF WebNext, MapClick, LayerClick, ClosePopup, PopupThrows, Type, Delete,
                TimerFires, SearchAnswer, SelectRow, Unselect, RowClick, Fail
  <1>4. CASE HeatAnswer \/ MapAnswer
    <2>1. PICK r \in flying, h \in BOOLEAN :
            r.p = "map" /\ Answered(r) /\ drawn' = [n |-> r.n, heat |-> h, zoom |-> view]
      BY <1>4 DEF HeatAnswer, MapAnswer
    <2>2. r = reqs["m"] /\ UNCHANGED <<reqs, lost>>
      BY <2>1, AfterAnswer DEF Channel
    <2>3. UNCHANGED <<view, due>>
      BY <1>4 DEF HeatAnswer, MapAnswer
    <2>4. drawn' # None
      <3>1. r.n \in Nat
        BY <2>1, FlyingIsLast DEF NetInv
      <3>2. [n |-> r.n, heat |-> h, zoom |-> view] \in [n : Nat, heat : BOOLEAN, zoom : Zooms]
        BY <1>1, <3>1
      <3> QED BY <2>1, <3>2, NoneAssumption
    <2> QED BY <1>3, <2>1, <2>2, <2>3, <2>4 DEF MapLast
  <1>5. CASE MoveEnd
    <2>1. view' \in Zooms /\ Req("map", view') /\ UNCHANGED <<lost, shown>> /\ "map" \in Purposes
      BY <1>5 DEF MoveEnd, Render, MapTypes, Purposes
    <2>2. sent + 1 \in Nat /\ Channel("map") = "m" BY DEF NetInv, Channel
    <2>3. [p |-> "map", n |-> sent + 1, what |-> view'] \in Requests("map")
      BY <2>1, <2>2, RequestsOf
    <2>4. reqs'["m"] = [p |-> "map", n |-> sent + 1, what |-> view'] /\ reqs'["m"] \in flying'
      BY <2>1, <2>2, <2>3, AfterReq
    <2>5. reqs'["m"] # None
      BY <2>1, <2>3, <2>4, NoneAssumption
    <2> QED BY <1>3, <2>4, <2>5 DEF MapLast
  <1>6. CASE Calm("m") /\ UNCHANGED drawn /\ (due' = None => due = None /\ view' = view)
    BY <1>3, <1>6 DEF MapLast, Calm
  <1>7. \A z \in Zooms : z # None
    BY NoneAssumption
  <1>8. CASE Calm("m") /\ (Move \/ Glide \/ PopupAnswer)
    <2>1. UNCHANGED drawn /\ due' # None
      BY <1>1, <1>2, <1>7, <1>8 DEF Move, Glide, PopupAnswer
    <2> QED BY <1>6, <1>8, <2>1
  <1> QED BY <1>3, <1>4, <1>5, <1>6, <1>8, NetStep
          DEF WebNext, MapClick, LayerClick, ClosePopup, PopupThrows, Type, Delete,
              TimerFires, SearchAnswer, SelectRow, Unselect, RowClick, Fail

-----------------------------------------------------------------------------
(* The search. *)

LEMMA NoRows == \A i : i \notin DOMAIN <<>>
  OBVIOUS

\* s(q): a new text waits for the timer, no text closes the list.
LEMMA AfterSearch ==
  ASSUME WInv, NEW q \in Texts \cup {Undef, NoText}, Search(q), Calm("sr")
  PROVE  SearchTypes' /\ SearchLast'
  <1> USE DEF WInv
  <1>1. \A t \in Texts : t # None /\ t # Undef /\ t # NoText
    BY NoneAssumption, WebAssumption
  <1>2. CASE q = prevSearch
    <2>1. UNCHANGED <<prevSearch, delayTimer, list>>
      BY <1>1, <1>2 DEF Search
    <2> QED BY <2>1 DEF SearchTypes, SearchLast, Calm
  <1>3. CASE q # prevSearch /\ q \in Texts
    <2>1. prevSearch' = q /\ delayTimer' = q /\ list' = list /\ q # None
      BY <1>1, <1>3 DEF Search
    <2> QED BY <1>3, <2>1 DEF SearchTypes, SearchLast
  <1>4. CASE q # prevSearch /\ q \notin Texts
    <2>1. prevSearch' = q /\ delayTimer' = None /\ list'.rows = <<>>
      BY <1>4 DEF Search
    <2> QED BY <1>4, <2>1, NoRows DEF SearchTypes, SearchLast
  <1> QED BY <1>2, <1>3, <1>4

LEMMA SearchStep ==
  ASSUME WInv, WebNext
  PROVE  SearchTypes' /\ SearchLast'
  <1> USE DEF WInv
  <1>1. CASE Calm("sr") /\ UNCHANGED <<prevSearch, delayTimer, list>>
    BY <1>1 DEF SearchTypes, SearchLast, Calm
  <1>2. CASE Calm("sr") /\ \E q \in Texts \cup {Undef, NoText} : Search(q)
    BY <1>2, AfterSearch
  <1>3. CASE TimerFires
    <2>1. delayTimer \in Texts /\ Req("search", delayTimer) /\ UNCHANGED <<lost, shown>>
          /\ "search" \in Purposes /\ Channel("search") = "sr" /\ delayTimer = prevSearch
      BY <1>3 DEF TimerFires, SearchTypes, SearchLast, Purposes, Channel
    <2>2. sent + 1 \in Nat BY DEF NetInv
    <2>3. [p |-> "search", n |-> sent + 1, what |-> delayTimer] \in Requests("search")
      BY <2>1, <2>2, RequestsOf
    <2>4. reqs'["sr"] = [p |-> "search", n |-> sent + 1, what |-> delayTimer]
          /\ reqs'["sr"] \in flying'
      BY <2>1, <2>3, AfterReq
    <2>5. reqs'["sr"] # None
      BY <2>1, <2>3, <2>4, NoneAssumption
    <2>6. UNCHANGED <<prevSearch, list>> /\ delayTimer' = None
      BY <1>3 DEF TimerFires
    <2> QED BY <2>1, <2>4, <2>5, <2>6 DEF SearchTypes, SearchLast
  <1>4. CASE SearchAnswer
    <2>1. PICK r \in flying :
            /\ r.p = "search" /\ Answered(r)
            /\ list' = [open |-> TRUE, text |-> r.what, rows |-> Results[r.what]]
      BY <1>4 DEF SearchAnswer
    <2>2. r = reqs["sr"] /\ UNCHANGED <<reqs, lost>> /\ r \in Requests("search")
      BY <2>1, AfterAnswer, FlyingIsLast DEF Channel
    <2>3. r.what \in Texts
      BY <2>2, AskedFor DEF Purposes
    <2>4. \A i \in DOMAIN Results[r.what] : Results[r.what][i] \in Objects
      BY <2>3, WebAssumption DEF Range
    <2>5. UNCHANGED <<prevSearch, delayTimer>>
      BY <1>4 DEF SearchAnswer
    <2> QED BY <2>1, <2>2, <2>4, <2>5 DEF SearchTypes, SearchLast
  <1> QED
    BY <1>1, <1>2, <1>3, <1>4, NetStep
       DEF WebNext, Move, Glide, MoveEnd, HeatAnswer, MapAnswer, MapClick, LayerClick,
           ClosePopup, PopupAnswer, PopupThrows, Type, Delete, SelectRow, Unselect,
           RowClick, Fail, searchVars

-----------------------------------------------------------------------------
(* The popups. *)

\* Closing the popup resets what counts as open if it is of the same object,
\* and takes the highlight only from that object.
LEMMA AfterClose ==
  ASSUME popup \in Objects \cup {None}, NEW hl,
         NEW ops \in [PopKinds -> Objects \cup {None}], \A k \in PopKinds : ops[k] = None \/ ops[k][1] = k
  PROVE  /\ Closed(ops, hl).ops \in [PopKinds -> Objects \cup {None}]
         /\ \A k \in PopKinds : Closed(ops, hl).ops[k] = IF ops[k] = popup THEN None ELSE ops[k]
         /\ Closed(ops, hl).lit \subseteq hl
         /\ \A x \in hl : x # popup => x \in Closed(ops, hl).lit
  <1>1. CASE popup = None
    <2>1. Closed(ops, hl) = [ops |-> ops, lit |-> hl]
      BY <1>1 DEF Closed
    <2> QED BY <1>1, <2>1
  <1>2. CASE popup # None /\ ops[popup[1]] = popup
    <2>1. Closed(ops, hl) = [ops |-> [ops EXCEPT ![popup[1]] = None], lit |-> hl \ {popup}]
      BY <1>2 DEF Closed, Removed
    <2>2. popup[1] \in PopKinds
      BY <1>2, WebAssumption
    <2>3. \A k \in PopKinds : ops[k] = popup <=> k = popup[1]
      BY <1>2
    <2> QED BY <2>1, <2>2, <2>3
  <1>3. CASE popup # None /\ ops[popup[1]] # popup
    <2>1. Closed(ops, hl) = [ops |-> ops, lit |-> hl]
      BY <1>3 DEF Closed, Removed
    <2>2. \A k \in PopKinds : ops[k] # popup
      BY <1>3
    <2> QED BY <2>1, <2>2
  <1> QED BY <1>1, <1>2, <1>3

\* The popup is closed, by a click or by its button.
LEMMA PopupsClosed ==
  ASSUME Popups, opened' = Closed(opened, lit).ops, lit' = Closed(opened, lit).lit,
         popup' = None, UNCHANGED <<index, thrown>>
  PROVE  Popups'
  <1> DEFINE c == Closed(opened, lit)
  <1>1. /\ c.ops \in [PopKinds -> Objects \cup {None}]
        /\ \A k \in PopKinds : c.ops[k] = IF opened[k] = popup THEN None ELSE opened[k]
        /\ c.lit \subseteq lit
        /\ \A x \in lit : x # popup => x \in c.lit
    BY AfterClose DEF Popups, PopupTypes
  <1> HIDE DEF c
  <1>2. opened' = c.ops /\ lit' = c.lit
    BY DEF c
  <1>3. PopupTypes'
    BY <1>1, <1>2 DEF Popups, PopupTypes
  <1>4. OpenedIsPopup'
    BY <1>1, <1>2 DEF Popups, OpenedIsPopup
  <1>5. OpenedIsLit'
    BY <1>1, <1>2 DEF Popups, OpenedIsLit
  <1> QED BY <1>3, <1>4, <1>5 DEF Popups

\* The rows of the list: what is open keeps its highlight.
LEMMA PopupsSelect ==
  ASSUME Popups, UNCHANGED <<opened, popup, index>>, thrown => thrown',
         index = NoIndex => lit' = lit,
         index # NoIndex => lit' \subseteq index,
         \A k \in PopKinds : opened[k] # None /\ opened[k] \in lit => opened[k] \in lit'
  PROVE  Popups'
  BY DEF Popups, PopupTypes, OpenedIsPopup, OpenedIsLit

LEMMA UnselectedKeeps ==
  ASSUME Popups, NEW row
  PROVE  /\ Unselected(row, lit) \subseteq lit
         /\ \A k \in PopKinds : opened[k] # None /\ opened[k] \in lit => opened[k] \in Unselected(row, lit)
  BY DEF Unselected, Popups, PopupTypes

LEMMA PopupStep ==
  ASSUME WInv, WebNext
  PROVE  Popups'
  <1> USE DEF WInv, mapVars, popVars
  <1>1. CASE UNCHANGED <<index, popVars, lit, thrown>>
    BY <1>1 DEF Popups, PopupTypes, OpenedIsPopup, OpenedIsLit
  <1>2. CASE MapClick \/ LayerClick \/ ClosePopup
    BY <1>2, PopupsClosed DEF MapClick, LayerClick, ClosePopup
  <1>3. CASE MapAnswer
    <2>1. PICK m \in Contents : index' = m /\ lit' = {opened[k] : k \in PopKinds} \cap m
      BY <1>3 DEF MapAnswer
    <2>2. UNCHANGED <<popVars, thrown>> /\ index' # NoIndex
      BY <1>3, <2>1, NoneAssumption DEF MapAnswer
    <2>3. PopupTypes'
      BY <2>1, <2>2 DEF Popups, PopupTypes
    <2>4. OpenedIsPopup'
      BY <2>2 DEF Popups, OpenedIsPopup
    <2>5. OpenedIsLit'
      BY <2>1, <2>2 DEF OpenedIsLit
    <2> QED BY <2>3, <2>4, <2>5 DEF Popups
  <1>4. CASE PopupAnswer
    <2>1. PICK r \in flying :
            LET o == r.what
                c == Closed([opened EXCEPT ![r.p] = o], Highlighted(o, lit))
            IN r.p \in PopKinds /\ opened' = c.ops /\ lit' = c.lit /\ popup' = o
      BY <1>4 DEF PopupAnswer
    <2>2. index # NoIndex /\ UNCHANGED <<index, thrown>>
      BY <1>4 DEF PopupAnswer
    <2> DEFINE o == r.what
               hl == Highlighted(o, lit)
               ops == [opened EXCEPT ![r.p] = o]
               c == Closed(ops, hl)
    <2>3. r.p \in PopKinds /\ o \in Objects /\ o[1] = r.p
      BY <2>1, FlyingIsLast, AskedFor
    <2>4. o # None
      BY <2>3, NoneAssumption
    <2>5. /\ ops \in [PopKinds -> Objects \cup {None}] /\ \A k \in PopKinds : ops[k] = None \/ ops[k][1] = k
          /\ \A k \in PopKinds : ops[k] = IF k = r.p THEN o ELSE opened[k]
      BY <2>3 DEF Popups, PopupTypes
    <2>6. lit \subseteq hl /\ hl \subseteq index /\ (o \in index => o \in hl)
      BY <2>2 DEF Highlighted, Popups, PopupTypes
    <2> HIDE DEF ops, hl, o
    <2>7. /\ c.ops \in [PopKinds -> Objects \cup {None}]
          /\ \A k \in PopKinds : c.ops[k] = IF ops[k] = popup THEN None ELSE ops[k]
          /\ c.lit \subseteq hl
          /\ \A x \in hl : x # popup => x \in c.lit
      BY <2>5, AfterClose DEF Popups, PopupTypes
    <2>8. opened' = c.ops /\ lit' = c.lit /\ popup' = o
      BY <2>1 DEF c, ops, hl, o
    <2> HIDE DEF c
    <2>9. PopupTypes'
      BY <2>2, <2>3, <2>5, <2>6, <2>7, <2>8 DEF PopupTypes
    <2>10. OpenedIsPopup'
      <3> SUFFICES ASSUME ~thrown, NEW k \in PopKinds, opened'[k] # None
                   PROVE  popup' = opened'[k]
        BY <2>2 DEF OpenedIsPopup
      <3>1. opened'[k] = ops[k] /\ ops[k] # popup
        BY <2>7, <2>8
      <3>2. CASE k = r.p
        BY <2>5, <2>8, <3>1, <3>2
      <3>3. CASE k # r.p
        <4>1. opened[k] # None /\ opened[k] # popup BY <2>5, <3>1, <3>3
        <4> QED BY <4>1 DEF Popups, OpenedIsPopup
      <3> QED BY <3>2, <3>3
    <2>11. OpenedIsLit'
      <3> SUFFICES ASSUME NEW k \in PopKinds, opened'[k] # None, opened'[k] \in index
                   PROVE  opened'[k] \in lit'
        BY <2>2 DEF OpenedIsLit
      <3>1. opened'[k] = ops[k] /\ ops[k] # popup
        BY <2>7, <2>8
      <3>2. ops[k] \in hl
        BY <2>2, <2>5, <2>6, <3>1 DEF Popups, OpenedIsLit
      <3> QED BY <2>7, <2>8, <3>1, <3>2
    <2> QED BY <2>9, <2>10, <2>11 DEF Popups
  <1>5. CASE PopupThrows
    <2>1. PICK r \in flying : r.p \in PopKinds /\ opened' = [opened EXCEPT ![r.p] = r.what]
      BY <1>5 DEF PopupThrows
    <2>2. r.what \in Objects /\ r.what[1] = r.p
      BY <2>1, FlyingIsLast, AskedFor
    <2>3. index' = NoIndex /\ thrown' /\ UNCHANGED <<popup, lit, index>>
      BY <1>5 DEF PopupThrows
    <2>4. PopupTypes'
      BY <2>1, <2>2, <2>3 DEF Popups, PopupTypes
    <2> QED BY <2>3, <2>4 DEF Popups, OpenedIsPopup, OpenedIsLit
  <1>6. ASSUME NEW i, Select(Row(i)), UNCHANGED <<index, popVars>>
        PROVE  Popups'
    <2>1. thrown => thrown'
      BY <1>6 DEF Select
    <2>2. CASE index = NoIndex
      <3>1. lit' = lit BY <1>6, <2>2 DEF Select
      <3> QED BY <1>6, <2>1, <2>2, <3>1, PopupsSelect
    <2>3. CASE index # NoIndex
      <3>1. lit' = Highlighted(Row(i).o, Unselected(selectedRes, lit))
        BY <1>6, <2>3 DEF Select
      <3>2. Unselected(selectedRes, lit) \subseteq lit' /\ lit' \subseteq index
        BY <2>3, <3>1, UnselectedKeeps DEF Highlighted, Popups, PopupTypes
      <3>3. \A k \in PopKinds : opened[k] # None /\ opened[k] \in lit => opened[k] \in lit'
        BY <3>2, UnselectedKeeps
      <3> QED BY <1>6, <2>1, <2>3, <3>2, <3>3, PopupsSelect
    <2> QED BY <2>2, <2>3
  <1>7. CASE SearchAnswer
    <2>1. CASE Select(Row(1))
      BY <1>6, <1>7, <2>1 DEF SearchAnswer
    <2>2. CASE UNCHANGED <<lit, thrown>>
      BY <1>1, <1>7, <2>2 DEF SearchAnswer
    <2> QED BY <1>7, <2>1, <2>2 DEF SearchAnswer
  <1>8. CASE SelectRow
    BY <1>6, <1>8 DEF SelectRow
  <1>9. CASE Unselect
    <2>1. UNCHANGED <<index, popVars>> /\ (thrown => thrown')
      BY <1>9 DEF Unselect
    <2>2. CASE index = NoIndex
      <3>1. lit' = lit BY <1>9, <2>2 DEF Unselect
      <3> QED BY <2>1, <2>2, <3>1, PopupsSelect
    <2>3. CASE index # NoIndex
      <3>1. lit' = Unselected(selectedRes, lit)
        BY <1>9, <2>3 DEF Unselect
      <3>2. lit' \subseteq index
        BY <2>3, <3>1, UnselectedKeeps DEF Popups, PopupTypes
      <3> QED BY <2>1, <2>3, <3>1, <3>2, UnselectedKeeps, PopupsSelect
    <2> QED BY <2>2, <2>3
  <1> QED
    BY <1>1, <1>2, <1>3, <1>4, <1>5, <1>7, <1>8, <1>9
       DEF WebNext, Move, Glide, MoveEnd, HeatAnswer, Type, Delete, TimerFires,
           RowClick, Fail

-----------------------------------------------------------------------------
LEMMA InitWInv == WebInit => WInv
  <1> SUFFICES ASSUME WebInit PROVE WInv OBVIOUS
  <1> DEFINE first == [p |-> "map", n |-> 1, what |-> FirstZoom]
  <1> USE DEF WebInit
  <1>1. first \in Requests("map") /\ FirstZoom \in Zooms
    BY WebAssumption, RequestsOf
  <1>2. first # None /\ first.p = "map" /\ first.n = 1 /\ first.what = FirstZoom
        /\ "map" \in Purposes /\ Channel("map") = "m"
    BY <1>1, NoneAssumption DEF Purposes, Channel
  <1>3. NetInv
    <2>1. sent = 1 /\ flying = {first} /\ lost = {} /\ DOMAIN reqs = Channels
          /\ \A c \in Channels : reqs[c] = IF c = "m" THEN first ELSE None
      OBVIOUS
    <2>2. \A c \in Channels : reqs[c] # None => reqs[c] = first /\ c = "m"
      BY <2>1
    <2>3. IsRequest(first)
      BY <1>1, <1>2 DEF IsRequest
    <2>4. shown \in [Purposes -> 0..sent] /\ \A p \in Purposes : shown[p] = 0
      BY <2>1
    <2>5. reqs = [c \in Channels |-> reqs[c]]
      BY <2>1
    <2>6. "m" \in Channels /\ sent \in 1..MaxSent /\ first.n \in 1..sent
      BY <1>2, <2>1, WebAssumption DEF Channels
    <2> HIDE DEF first, WebInit
    <2> QED BY <1>2, <2>1, <2>2, <2>3, <2>4, <2>5, <2>6 DEF NetInv
  <1>4. MapTypes /\ SearchTypes /\ Popups
    BY <1>1, NoRows DEF MapTypes, SearchTypes, Popups, PopupTypes, OpenedIsPopup, OpenedIsLit
  <1>5. MapLast /\ SearchLast
    BY <1>2, WebAssumption DEF MapLast, SearchLast, Channels
  <1> QED BY <1>3, <1>4, <1>5 DEF WInv

LEMMA StepWInv == WInv /\ [WebNext]_webVars => WInv'
  <1> SUFFICES ASSUME WInv, [WebNext]_webVars PROVE WInv' OBVIOUS
  <1>1. CASE WebNext
    BY <1>1, NetStep, MapStep, SearchStep, PopupStep DEF WInv
  <1>2. CASE UNCHANGED webVars
    <2> USE <1>2 DEF webVars, netVars, mapVars, popVars, searchVars, WInv
    <2>1. NetInv' BY NetSame
    <2>2. MapTypes' /\ SearchTypes' BY DEF MapTypes, SearchTypes
    <2>3. Popups' BY DEF Popups, PopupTypes, OpenedIsPopup, OpenedIsLit
    <2>4. MapLast' /\ SearchLast' BY DEF MapLast, SearchLast
    <2> QED BY <2>1, <2>2, <2>3, <2>4
  <1> QED BY <1>1, <1>2

THEOREM SpecWInv == WebSpec => []WInv
  BY InitWInv, StepWInv, PTL DEF WebSpec

\* At rest, and whatever requests were overtaken or aborted, the layers are
\* those of the last request for the map, drawn for the zoom that is seen.
THEOREM DrawnView == WebSpec => []DrawnIsView
  <1>1. WInv => DrawnIsView
    BY DEF WInv, MapLast, DrawnIsView
  <1> QED BY <1>1, SpecWInv, PTL

\* The open list answers the text typed last, once no search is under way.
THEOREM ListAnswersSearch == WebSpec => []ListIsOfSearch
  <1>1. WInv => ListIsOfSearch
    BY DEF WInv, SearchLast, ListIsOfSearch
  <1> QED BY <1>1, SpecWInv, PTL

\* What is open, what the popup shows and what is highlighted agree.
THEOREM PopupsAgree == WebSpec => []PopupInv
  <1>1. WInv => PopupInv
    <2> SUFFICES ASSUME WInv PROVE PopupInv OBVIOUS
    <2> USE DEF WInv
    <2>1. \A r, t \in flying : Channel(r.p) = Channel(t.p) => r = t
      BY FlyingIsLast
    <2>2. index = NoIndex \/ index \subseteq Objects
      BY WebAssumption DEF MapTypes
    <2>3. WebTypeOK
      BY <2>1, <2>2 DEF WebTypeOK, NetInv, MapTypes, SearchTypes, Popups, PopupTypes
    <2> QED BY <2>3 DEF PopupInv, Popups
  <1> QED BY <1>1, SpecWInv, PTL

-----------------------------------------------------------------------------
(* The order of what is shown. *)

\* One or two purposes have the same topic, and these share a channel.
LEMMA LastShownIs ==
  ASSUME NEW num \in [Purposes -> Nat], NEW p \in Purposes
  PROVE  \E q \in Purposes : Channel(q) = Channel(p) /\ LastShown(num, p) = num[q]
  <1> DEFINE same == {x \in Purposes : Topic(x) = Topic(p)}
             o == IF p = "gr" THEN "mgr" ELSE IF p = "mgr" THEN "gr" ELSE p
  <1>1. same = {p, o} /\ o \in Purposes /\ Channel(o) = Channel(p)
    BY DEF Purposes, PopKinds, Topic, Channel
  <1>2. {num[q] : q \in same} = {num[p], num[o]}
    BY <1>1
  <1>3. num[p] \in Nat /\ num[o] \in Nat
    BY <1>1
  <1>4. Max({num[p], num[o]}) \in {num[p], num[o]}
    <2> DEFINE a == num[p]
               b == num[o]
    <2>1. \E x \in {a, b} : \A y \in {a, b} : x >= y
      BY <1>3
    <2> QED BY <2>1 DEF Max
  <1>5. LastShown(num, p) = Max({num[p], num[o]})
    BY <1>2 DEF LastShown
  <1> QED BY <1>1, <1>4, <1>5

LEMMA NeverBackStep == WInv /\ [WebNext]_webVars => [NeverBack]_webVars
  <1> SUFFICES ASSUME WInv, [WebNext]_webVars PROVE [NeverBack]_webVars OBVIOUS
  <1> USE DEF WInv
  <1>1. CASE UNCHANGED shown
    BY <1>1 DEF NeverBack
  <1>2. ASSUME NEW r \in flying, Answered(r)
        PROVE  NeverBack
    <2> SUFFICES ASSUME NEW p \in Purposes, shown'[p] # shown[p]
                 PROVE  shown'[p] > LastShown(shown, p)
      BY DEF NeverBack
    <2>1. shown \in [Purposes -> Nat] /\ sent \in Nat
      BY DEF NetInv
    <2>2. p = r.p /\ shown'[p] = r.n /\ r.n \in Nat
      BY <1>2, <2>1, AfterAnswer, FlyingIsLast
    <2>3. PICK q \in Purposes : Channel(q) = Channel(p) /\ LastShown(shown, p) = shown[q]
      BY <2>1, LastShownIs
    <2>4. shown[q] < r.n /\ shown[q] \in Nat
      BY <2>1, <2>2, <2>3 DEF NetInv
    <2> QED BY <2>2, <2>3, <2>4
  <1>3. CASE HeatAnswer \/ MapAnswer \/ PopupAnswer \/ PopupThrows \/ SearchAnswer
    BY <1>2, <1>3 DEF HeatAnswer, MapAnswer, PopupAnswer, PopupThrows, SearchAnswer
  <1> QED
    BY <1>1, <1>3
       DEF WebNext, webVars, Move, Glide, MoveEnd, MapClick, LayerClick, ClosePopup,
           Type, Delete, TimerFires, SelectRow, Unselect, RowClick, Fail

\* The map, each kind of popup and the list never go back to the answer of an
\* earlier request, in whatever order answers arrive.
THEOREM NeverGoesBack == WebSpec => ShownNewest
  BY SpecWInv, NeverBackStep, PTL DEF WebSpec, ShownNewest
=============================================================================
