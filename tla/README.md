# staty in TLA+

Specifications, model checking runs and proofs for
[staty](https://github.com/ad-freiburg/staty), the web front end for the "fix"
mode of statsimi: it reads one or more `.fix` files (stations and station groups
of OpenStreetMap, each station with the group it is in and the group it should
be in), derives suggestions from them, and serves a map with stations, groups
and suggestions over HTTP. Paths below are those of the repository, lines as in
`StatIdx.cpp:303` are of the file of that name.

## 1. The system

| component | source | state | operations | modelled by |
|---|---|---|---|---|
| start-up, ids | `src/staty/FixerMain.cpp`, `StatIdx.h`, `StatServer.cpp` | the data sets and their `IdRange`s | `main`: read every file, assign ranges, build the search index, run the server; `getDidBySid`, `getDidByGid` | `IdRanges` |
| index of a data set | `src/staty/index/StatIdx.{h,cpp}` | stations, groups, meta groups, suggestions, spatial grids, heat maps | `readFromFile` (`addStation`, `addGroup`, `addGroupToMeta`, `initGroups`, `initMetaGroups`, `initSuggestions`, `initIndex`), then queries only | `StatIdx`, `MapIdx` (partly: not its parser) |
| search index | `src/staty/index/SearchIdx.{h,cpp}` | names, tokens, posting lists, q-gram lists | `build`, `find` (`tokenFind`, `lmerge`) | `SearchIdx` |
| request handlers | `src/staty/server/StatServer.{h,cpp}` | none of their own (const) | `handle` and one handler per command | `StatServer`, `MapIdx` |
| HTTP server | `src/util/http/Server.{h,cpp}` | queue of descriptors with mutex and condition variable; per worker the connection and its answer | `run`, `Queue::add`, `Queue::get`, `handle`, `send` | `HttpServer`, `HttpService` |
| request parser | `src/util/http/Server.cpp` | buffer, state, positions | `getReq` | `HttpReq` |
| web client | `web/script.js` | one request per channel, what is open, highlighted, selected and listed | `req`, `render`, `openSt`, `openGr`, `openMGr`, `s`, `select` | `WebClient` |
| spatial indexes | `src/util/geo/Grid.*`, `QuadTree.*` | cells; nodes and value lists | `add`, `get`, `remove`, `getNeighbors`; `insert`, `split` | `Grid`, `QuadTree` |
| geometry | `src/util/geo/Geo.h` and others | none | predicates, hulls, simplification | `Geo`, `Hulls` (partly: exact arithmetic) |
| graphs, shortest paths | `src/util/graph/*` | adjacency; queue, costs and settled nodes of a search | graph updates, components; `Dijkstra`, `EDijkstra`, `BiDijkstra` | `Graph`, `GraphAlgorithm`, `NodeDijkstra`, `EdgeDijkstra`, `BiDijkstra`, `ShortestPath` |
| priority queues | `src/util/PriorityQueue.*`, `graph/radix_heap.h` | buckets, last key | `push`, `top`, `pop`, `clear` | `RadixHeap`, `MonotoneQueue` |
| writers | `src/util/json`, `src/util/xml` | stack of open elements | `obj`, `arr`, `key`, `val`, `close`; `openTag`, `closeTag`, ... | `JsonWriter`, `XmlWriter` |
| output of geometry, log, utilities, third party, tests | `src/util/...` | none | | not modelled |

How they interact. `main` is sequential up to `HttpServer::run`; from then on the
indexes are constant. `run` starts the workers and accepts connections for ever;
the acceptor and the workers share only the `Queue`. A worker calls `getReq`,
then `StatServer::handle`, which reads the constant indexes, then `send`, then
`close`. The index of a data set rests on the grids and on the geometry, the
search index on the names the index collects. The web client knows objects only
by the ids that answers contain. Graphs, searches, heaps, the quad tree and the
writers are library code that staty itself does not call; they are modelled under
every sequence of calls.

What is hard in it:

- **threads**: notification after unlock, a queue shared by acceptor and workers,
  descriptor numbers the kernel reuses immediately;
- **the network**: requests arrive in pieces, clients leave at any moment, writes
  are partial, descriptors run out; at the client, answers overtake each other,
  are aborted or get lost while the user goes on;
- **order of passes**: suggestions are derived in several passes over the same
  arrays, with sentinels (group id 0, `mergeId == id`) and with state one pass
  leaves for the next;
- **numbering**: local ids, global ids and signed ids of several data sets, in
  unsigned arithmetic, printed at some twenty places;
- **borders**: cells, boxes, rays and rasters that points lie exactly on;
- **sorted lists and linked lists** that are extended or walked while they change;
- **searches** whose queue holds stale entries, and that stop early.

`PROJECT.json` lists the hazards line by line, each with the properties that
guard it, and a note where a property leaves something out.

## 2. The modules

### HttpServer, HttpService: threads, queue, descriptors

One module for `Server.{h,cpp}` without parsing. The acceptor's program counter
`apc` is its place in `while (1) _jobs.add(socket.wait())`, a worker's `wpc` its
place in `handle`; `afd`, `wfd`, `answ`, `wrote` are the local variables, `jobs`
is `Queue::_jobs`, `fdtab` is the descriptor table of the process.

| action | code |
|---|---|
| `AcceptOk`, `AcceptAborted`, `AcceptNoFd` | `accept` in `Socket::wait`: success, `ECONNABORTED`, `EMFILE` (both return -1) |
| `Add`, `Notify` | `Queue::add`: the locked block, then `notify_one` |
| `GetWait`, `GetJob`, `SpuriousWake` | `Queue::get` |
| `GetReq`, `HandleReq`, `SendPart`, `SendEnd`, `Close` | the body of `handle`, with `getReq` and `send` |
| `Connect`, `SendRequest`, `HangUp` | clients and kernel |

A critical section is one action because everything in it is protected by the
mutex; `notify_one` is outside of it in the code and is an action of its own.

`HttpService` is what the server promises without threads and descriptors: first
come first served, at most as many connections at once as there are workers, the
parts of one answer to each, and no connection let go before its answer is
complete or its client gone. `ImplementsService` states that `HttpServer`
implements it; the line of waiting connections is the queue, then the one in the
acceptor's hand, then the kernel's backlog. Both are about a server whose process
lives: one kind of hang-up ends it in `getReq` (`HttpReq`, finding `http_req_hangup`).

### HttpReq: the request parser

`getReq` as a scanner over a stream that `read` delivers in pieces of any size. The
stream is what a client sends of a request (`Render`, whose lines are `HeadOf`),
`WellFormed` which requests these are. `Scan` is the switch over `HeaderState`,
`ScanChunk` the loop over one read with its `break` (`ScanOn`), `ReadHeader` a whole
round of the first loop with the code after it (431, copy of the payload bytes that
are already there), `ReadPayload` a round of the second. A hang-up is a `read` of 0
bytes (`HeaderEnds`, `PayloadEnds`, the latter with the part of `postBuf` nobody
wrote), a reset a failing one (`HeaderFails`, `PayloadFails`). `HeaderEnds` is the code
after the first loop with `brk` still 0: what was parsed is the request, but if that
is a POST with a Content-Length, `memcpy` reads from a null pointer; `phase` is then
"crashed". A byte is one of those the parser or `util::trim` distinguishes (`White`: blank,
tab, CR, LF), or opaque; `POST`, `Content-Length` and a number are one byte each. A CR
within a value becomes a blank (`Value`), so that what a request means (`Meant`) is its
headers with blanks for these.

### StatIdx, SearchIdx, MapIdx: what is computed when a file is loaded

`StatIdx`: `InitGroup` is one round of `initGroups`' loop, `SortMembers` the sort
after it, `GroupSuggestions` and `StationSuggestions` one round of the two loops
of `initSuggestions`. `MergeTarget` is the decision about `mergeId`, `MoveType`
the nested decision which of the suggestions 1 to 5 a station gets.
`GroupSuggs(g)` and `StationSuggs(s)` are what one round appends. `Sorting` has
the stable sort that stands for `std::sort` wherever entries may tie: TLC replaces
`SortSeq` by one of its own, whose TLA+ definition has no value for a list with
ties, so nothing could be proved from it.

`MapIdx` extends it by the spatial side, in the order of `readFromFile`:

| action | code |
|---|---|
| `InitGroupPolys` | the end of `initGroups`, with `hull` |
| `InitMetaGroups` | `initMetaGroups` |
| `InitRest`, `InitArrows` | `initGroups` and `initSuggestions` as in `StatIdx`; that a suggestion gets an arrow, somewhere |
| `InitIndex` | `initIndex`: four grids, and thirty more with the clusters of ten levels |
| `MapRequest`, `HeatRequest` | `handleMapReq`, `handleHeatMapReq` with `getStations`, `getGroups`, ..., `getHeatGridErr` |
| `HitRequest` | how `handleSearch` prints a hit |

The grids are three instances of `Grid` whose `Meets` is a predicate of `Geo`, as
the code's are three instances of a template. A unit of length stands for 10 km /
60, so that the steps of all ten levels (2 km to 20 km) and both cell widths (10
km, 5 km) are whole numbers. `hull`'s circle of twenty corners is the constant
`Rim`; its radius of 11 m is no more than a unit.

`SearchIdx`: `UniqueNames` is what `initGroups` collects for a group, `Built` is
`build`, `BestNames` is `find` up to its partial sort, of which `Find` takes any
outcome. Posting lists are the sequences of the code, merged as `lmerge` merges.

### IdRanges, StatServer: ids of several data sets, the handlers

`ReadFile` is one round of `main`'s loop in arithmetic modulo `Word`, with
`maxSId()` of an empty data set being `0 - 1`. `Did` and `Lookup` are
`getDidBySid`/`getDidByGid` and the handlers' translation back, `Marker` and
`Open` the signed id of a suggestion's arrow and what the client makes of it.
`StatServer` extends `IdRanges`: `Load` reads data sets whose contents are given
(`DataSets`), `Handle` is `StatServer::handle` for one request, whole: it is a
function of the request and constant data. A session follows ids of the last
answer or types others. Each link carries the object it was printed for, as a
ghost.

### WebClient: the page

The page has one thread, so an action is one callback from its first to its last
line, with all that `render`, `req` and the handlers of `remove` do on the way:
`MoveEnd`, `HeatAnswer`, `MapAnswer`, `LayerClick`, `MapClick`, `PopupAnswer`,
`PopupThrows` (an answer that comes before there is an index), `TimerFires`,
`SearchAnswer`, `SelectRow`, `Unselect`, `RowClick`. `reqs` and `flying` are
the requests of `req`, by channel ("m", "s", "g", "sr"); `Fail` loses one.
`opened`, `popup`, `lit`, `list`, `delayTimer` are the variables of the page.
The user and Leaflet's events (`Move`, `Glide`, `ClosePopup`, `Type`) are external.

### Geo, Hulls, Plane, GeoCalls: geometry

`Geo` has the predicates the grids, the tree and the maps are decided by, in
exact integer arithmetic: points, segments, lines, polygons and boxes that
contain or meet each other. `Hulls` has quickhull and Douglas-Peucker. `Plane`
says what they mean another way (points in common by the sides the ends are
on, a half-open ray, inner points of boxes on a finer lattice), and `GeoCalls` is a
call of each.

### Grid, QuadTree

`Add`, `RemoveVal` and the queries of `Grid.tpp` with and without its value index;
`InsertPoint` and `InsertOutside` of `QuadTree.tpp`, where `Split` and
`Redistribute` walk and change the arrays as the code does, a link at a time.

Coordinates are integers in a unit as fine as a double's. `getCellXFromX` and
`getCellYFromY` narrow the offset from the lower left corner to float before they divide
it: `Floats` are the offsets a float can hold, any set of numbers, and `Narrow` is one
next to the offset. The division itself is taken to be exact. In `MapIdx` all
offsets are small whole numbers, which a float holds (`Floats <- Nat`); in the run of the
library a float holds every third number. `Covered` are the points that narrowing
leaves in their cell.

### Net, NodeDijkstra, EdgeDijkstra, BiDijkstra, ShortestPath

`Net` is the data, with `ShortestIn` (relaxing every edge as often as there are
nodes) as the reference. Each search is a module whose step is one round of the
loop: take one of the least entries of the queue, then give up, skip a stale one,
or settle. `NodeDijkstra` has the four forms of `Dijkstra.tpp`, `EdgeDijkstra` the
six of `EDijkstra.tpp`, `BiDijkstra` two. `ShortestPath` is what the many
overloads of `ShortestPath.h` and `EDijkstra.tpp` come to.

### Graph, GraphAlgorithm, RadixHeap, MonotoneQueue

`Graph` makes memory explicit: `edge` are the edges on the heap by address, `adj`
the lists of nodes; `AddNd`, `AddEdg`, `DelEdg`, `DelNd`, `MergeNds` are the
operations of `DirGraph` and `UndirGraph` with their destructors.
`GraphAlgorithm` is `connectedComponents`, whose while loop has a number of rounds
(`Rounds`) that is proved to be enough. `RadixHeap` is the heap bucket by
bucket; `MonotoneQueue` is what it promises and what `EdgeDijkstra` assumes.

### JsonWriter, XmlWriter

The stack of each writer and what it writes, as tokens, under any calls; `val` of
a tree calls itself for the members, level by level. The reference of each is a
reader of its own (`JsonRead`, `XmlRead`): one token takes it from a state to
the next, and what is not JSON or XML to a state that it never leaves or that is
not the one at the end. It knows nothing of the writer.

### MC modules and proof modules

`MC*` modules give the constants their values; where one composes several
modules (`MCIndex`, `MCSession`, `MCLibrary` with `MCSearches`) a behaviour is one of
its parts, so that one run covers what does not interact. The theorems are in eight modules:
`HttpServerProofs`, `HttpReqProofs`, `StatServerProofs`, `StatIdxProofs`,
`WebClientProofs`, `LibraryProofs` (graphs, grids, the radix heap, the writers),
`DijkstraProofs`, and `Lemmas`, which three of them share. Definitions
marked `Mutant` are single-bug variants of the definition that follows them; each
property is violated by one.

## 3. The runs

Twelve runs, six that pass and six that end in a violation.

| run | bounds | properties |
|---|---|---|
| `http_safety` | 3 connections, 2 descriptors, 2 workers, backlog 2, answers of 2 parts, symmetry | `TypeOK`, `DescriptorOwnership`, `NoLostWakeup`, `NoWorkerExits`, `OwnAnswer`, `CompleteOrGone`, `ImplementsService` |
| `http_live` | 2 connections, 2 workers, 2 descriptors of which something else may take one, no symmetry | `Served`: every connection is answered and closed, also when `accept` fails with `EMFILE` again and again |
| `http_req` | 25 requests, some with a tab or a CR within a value; buffer of 18 bytes, every cut into reads, hang-ups and resets anywhere | `ParserInv` (what was sent whole comes out as sent, but for a CR within a value), `CutInv` (what was cut short is handled in whole fields, and ends the process only as a POST amid its header), `RefusedBySize`, `Answered` |
| `index` | all 46 656 files of 3 stations and 3 groups, and 18 432 with names, errors and meta groups; 54 files with points, 5 views, 6 zooms; 5 contents of the search index, 366 queries | `MergeInv`, `MovesCovered`, `ListedByOwner`, `IndexInv` (names and posting lists), `FindInv` (what a query finds and shows), `MapInv` |
| `session` | handlers: all sequences of up to 3 of 4 data sets, `Word` = 20; page: 3 objects, 3 zooms, 4 requests of which one may be lost | `SessionInv`, `LinksLead`, `LookupExact`, `ArrowOpensOwner`; `PopupInv`, `ShownNewest`, `DrawnIsView`, `ListIsOfSearch` |
| `library` | graphs of 3 nodes and 4 addresses of edges; heaps of 3 items with keys of 3 bits; grids of 2 values in 2 by 3 cells of 6 units or in none, floats for every third unit; trees of 4 points, depth 2; texts of 9 tokens; geometry on a lattice of 3 by 3; searches: all graphs over 5 and 6 pairs of 4 nodes with costs 1 and 3 (edges: with one expensive edge; `BiDijkstra` also with costs 0 and 1), directed or not, all forms, with heuristics | `GraphInv`, `MergeMoves`, `ComponentsAreClasses`, `HeapIsQueue`, `GridInv`, `TreeInv`, `JsonInv`, `XmlInv`, `GeoExact`, `SearchInv`, `EdgeInv` (costs, also of backward searches), `EdgeAnswers` (lists of edges and nodes, calls from nodes), `BiInv`, `CallsReturn` |

What they show, beyond the properties' comments:

- `index`: relation g is suggested to be merged into h exactly if all of its
  stations that go to a relation go to h (not quite what the code's comment asks,
  see `stat_all_moved`); every station that is to move has a suggestion or a merge
  that stands for it; a suggestion is listed once, by the object its arrow carries.
  Lists of q-grams stay sorted although tokens come again, a query finds exactly the
  tokens it is nearly a prefix of, and shows the groups with the best names.
  `MapInv`: a map of any view and zoom shows the stations, groups and arrows that
  are there, marked as the heat maps count them; each point is counted at each level
  among its kind, once or on the border of boxes; a heat map of a view has just the
  clusters of one level in it; a search hit has the marks of all stations it stands
  for.
- `session`: whatever ids a user follows or types, an id is answered 200 exactly if
  some object has it, links and arrows lead to what they were printed for; neither
  map, popups nor list ever go back to an earlier answer of their channel; what
  counts as open is what the popup shows, and is lit; what is drawn at rest is drawn
  for the zoom that is seen.
- `library`: adjacency lists and the edges on the heap agree after any calls; the
  radix heap implements the plain monotone queue, its sizes, minima and buckets
  being what its entries say (`HeapIsQueue` has both parts); a box or a distance in
  a grid misses no value with a point in it that floats keep in its cell; leaves are
  lists of their own values; texts of the writers are well formed whatever calls
  were not refused; predicates are right. Costs equal those of the reference, paths
  handed out are paths, cost what is said and end where they should, whichever of
  equal entries of a queue comes first; and every call returns, also when one of two
  queues runs empty. Stated for heuristics the code can be right for: admissible,
  and consistent where nodes are never settled twice.

Why the bounds are enough. Three connections on two descriptors force a number to be
reused while its predecessor's worker may still run, and with two workers there is
one to sleep while another takes its job; two parts make a partial write. A buffer
of 18 lets some headers fit with their payload, some only without, one end on the
last byte and one not fit. With floats for every third unit and cells of six,
offsets are exact, rounded within a cell, or rounded up to a border (5 to 6). Three
stations are one to set a merge, one to contradict it and one after that; three
groups are a relation, its target and another one, of every kind and at every
number, 0 included. The files with points have stations that are nodes, ways and
areas, in a cell, on a border and in several cells, over areas that end on a border
of a cell or not; views are within a cell, on a border, around everything and beyond
it; zooms are on both sides of every threshold and below 0. Three data sets have a
first, a middle and a last one, each possibly empty; `Word` = 20 makes the ends of
ranges meet the wrap-around. Four requests are one of each channel, or one that
overtakes another twice. Four nodes have two ways that part and meet again and a
tail: a node is queued, improved and settled stale. On three by three points
segments cross, touch, overlap and are points; a lattice point can be on a corner,
an edge, the ray through a corner and along an edge.

Runs that end in a violation: the code differs from what it says of itself.

| run | the code says | the code does |
|---|---|---|
| `http_req_431` | "431 Request Header Fields Too Large" (`Server.cpp:241`) | also answers a small header whose payload fills the buffer |
| `stat_do_not_merge` | "if a merge group was set, but the current station is not moved into this group, ... DO NOT MERGE" (`StatIdx.cpp:311`) | group 0 as a target counts as none |
| `http_req_hangup` | "catch everything to make sure the server continues running" (`Server.cpp:117`) | a POST whose client hangs up after Content-Length and before the end of the header copies its payload from a null pointer (`Server.cpp:257`), which no `catch` sees |
| `stat_all_moved` | "if all stations of a relation are moved into another same relation, suggest to merge the relation" (`StatIdx.cpp:300`) | stations that leave for an orphan's or a new group are not looked at |
| `grid_inner_kept` | a grid "that covers the area of bounding box bbox" (`Grid.h:58`) | a point just below a border of cells is narrowed to the next cell (`Grid.tpp:204`), whose box it does not meet, and is in none |
| `quad_all_kept` | "insert into the tree" (`QuadTree.h:61`) | a leaf that splits loses all of its values but the first (`QuadTree.tpp:87`) |

What remains true is stated next to them: `CutInv` says that no other request
crashes the process, and `Answered` that every other one is answered;
`MergeIsUnanimous`, `MovesCovered` and `ListedByOwner` are about files whose first group
is no relation, the first of them about stations that go to a relation; `GridInv` is
about points that narrowing leaves in their cell (`Covered`), `OneKept` about leaves
of one value.

Fairness. `HttpServer`: weak fairness of the acceptor and of each worker (the
operating system schedules every thread that can run; blocking calls are disabled
actions), and of each client that it sends its request or leaves. The latter is an
assumption about clients: the code has no timeout on `read`, and without it a silent
client holds its worker for ever. No fairness is given to spurious wake-ups,
failures or hang-ups. `HttpReq`: what was sent is delivered; nothing has to fail.
`library`: weak fairness of the round of a search, which is a loop of the thread
that called it. The other runs check safety only. `CHECK_DEADLOCK FALSE` where the
modelled code ends: the parser returned, the file is read, the search is over, no
further call or request is within bounds.

## 4. The proofs

Checked by TLAPS for every value of the constants that satisfies the
assumptions below. Every module follows one pattern: an inductive invariant as a
conjunction of named parts, a lemma for each action (with a frame lemma for
actions that leave a part alone), and the properties as consequences.

| theorem | states | module |
|---|---|---|
| `TypeCorrect`, `Ownership`, `PoolStaysWhole`, `WakeupsKept` | `TypeOK`, `DescriptorOwnership`, `NoWorkerExits`, `NoLostWakeup` | `HttpServerProofs` |
| `OwnAnswers`, `CompleteAnswers`, `Implements` | `OwnAnswer`, `CompleteOrGone`, `ImplementsService` | `HttpServerProofs` |
| `RequestsParsed`, `CutRequests`, `SizeDecides` | `ParserInv`, `CutInv`, `RefusedBySize` | `HttpReqProofs` |
| `LookupsExact`, `ArrowsOpenOwner`, `SessionsSound`, `EveryLinkLeads` | `LookupExact`, `ArrowOpensOwner`, `SessionInv`, `LinksLead` | `StatServerProofs` |
| `MergesAgreed`, `NoMoveLost`, `EveryoneListed` | `MergeInv`, `MovesCovered`, `ListedByOwner` | `StatIdxProofs` |
| `IndexBuilt` | `IndexInv` | `StatIdxProofs` |
| `DrawnView`, `ListAnswersSearch`, `PopupsAgree`, `NeverGoesBack` | `DrawnIsView`, `ListIsOfSearch`, `PopupInv`, `ShownNewest` | `WebClientProofs` |
| `GraphSound`, `MergesMove`, `ComponentsSound` | `GraphInv`, `MergeMoves`, `ComponentsAreClasses` | `LibraryProofs` |
| `GridSound` | `GridInv` | `LibraryProofs` |
| `HeapRefines` | `HeapIsQueue` | `LibraryProofs` |
| `JsonFits`, `XmlFits` | `JsonInv`, `XmlInv` | `LibraryProofs` |
| `SearchesFindShortest`, `SearchesMeetOnShortest`, `EdgesAreShortest`, `WaysAreShortest` | `SearchInv`, `BiInv`, `EdgeInv`, `EdgeAnswers` | `DijkstraProofs` |

**`HttpServerProofs`**, for any sets of connections, descriptors and workers (the
latter finite), any backlog and any length of answers. `DescriptorOwnership`
alone is not inductive: what `Add` queues must be the open descriptor the
acceptor holds, and what a worker closes must be its own. `IInv` therefore adds
the types, that a descriptor is in the acceptor's hand exactly while it is to be
added, that -1 is never queued, and that the three kinds of owners exclude each
other. Only `AcceptOk`, `Add`, `GetJob` and `Close` move a descriptor, the others
are handled by a frame lemma. `WakeupsKept` counts: jobs are at most the workers
awake plus the pending notification, whenever somebody sleeps; `Add` raises both
sides by one, `Notify` trades the pending notification for a worker, `GetJob`
lowers both, and `GetWait` is possible only with an empty queue.

Its second half builds on `IInv`. `AInv` adds where a connection is (once in
the kernel's queue or behind one descriptor, `OnePlace`), that nothing is sent to it
before a worker has handled its request (`Untouched`), that the answer a worker
holds is that of its connection and fits the request (`AnswerFits`), and that what
the client has got is as much of it as was written (`PartsOfIt`). `OwnAnswer`
needs all four: descriptor numbers come again, and only ownership tells that
the number a worker writes to still stands for the connection it read from.
`Implements` is the refinement: the line of `HttpService` is the queue, then the
connection in the acceptor's hand, then the backlog. `AcceptOk`, `Add`, `Notify` and
a worker's waiting do not change it and map to stutters. `GetJob` begins to
serve its first connection (`Begin`), `SendPart` is `Deliver` and `Close` is
`Finish`; `HangUp` is `Leave`, also of a connection that is still in the line, and
an `accept` that fails because the client has gone (`AcceptAborted`) is `Drop`, which
takes the connection out of the middle of the line.

**`HttpReqProofs`**, for any well-formed requests, sent whole or up to any byte, cut
into reads in any way, and a buffer of any size. The first lemmas say which byte
of a request is where (`FirstLineMap`, `LineMap`, `EndMap`) and what trimming
leaves of the text between two separators (`FirstTexts`, `LineTexts`).
`Place(r, p, i)` is the state p the scanner is in after i bytes of r, with one lemma
per state for the next byte; at the end of a header line, `LastStep` shows that
overriding one key at a time gives the last value of each. `ScanAll` follows it
through the loop over one read, a recursive function whose existence and unfolding
are proved by a least counterexample (`Induct`): where a read ends does
not matter. `ReqInv` adds the buffer, the position in the stream and that the
payload read so far is what follows the header. That a whole header never
crashes (`InvCrash`) follows from `Place` at the position where the client hung up: `brk`
is 0 there only if the header has not ended. The empty value before
a bare LF (section 6) is what `WellFormed` has to exclude.

**`StatServerProofs`**, for any `Word`, any number of files and any sizes that fit.
The first part is about `IdRanges`, where the inductive invariant is that ranges are
disjoint and increasing: the end of a range is its start plus the size (the
wrap-around of `maxSId()` of an empty file cancels), and the next starts after that.
From it follows that at most one range contains an id. The second part adds that the
ranges were made for the data sets that are served (`Loaded`) and that every link of
the last answer is a `StatLink`, `GroupLink` or `MGroupLink` of one of them
(`Printed`). Each way a handler prints ids, and each request, has a lemma;
`LookupFinds` turns `LookupsExact` into: the handler finds the object the link was
printed for.

**`StatIdxProofs`**, for any files whose stations are in groups of the file.
`IdxInv` says what a pass leaves for the next: at every round of `initGroups`,
`mergeId` of a relation is 0 if no station seen so far goes from it to a relation,
the target if there is only one, and else the relation itself (`MergeSeen`); the
suggestions of a group or a station that is done are consecutive in `_suggestions`
and are `GroupSuggs` or `StationSuggs` of it (`ListsMade`); and each has one owner
(`OneOwner`). `MergeIsUnanimous` is `MergeSeen` when all are seen; `MovesCovered`
combines it with what the lists contain. `SortMembers` needs that a sort keeps the
entries: `EveryRank` shows that ranks by (key, place) are a bijection, from the
pigeonhole facts of `FiniteSetTheorems`.

`IndexBuilt` is about one big step: `build` is loops in loops, each a recursive
function over the rounds, and each has a lemma that says the function exists
(`Recursion`) and carries the loop's invariant from round to round (`Through`).
`Indices` is what every round keeps: the list of a token has names up to the
current one, rising, since a name is noted only at its end (`NotedIs`). `Laid`
says where the names of a group are: in a row, after those of the groups before
it, so that later ones do not disturb it (`LaidStays`; ids of groups are
distinct). `UniqueNamesAre` follows the names from where they are met first
through the sort (`SortedIs`, `PickedAre`). Lists of q-grams are not rising
while they are built, a token can come again in a later name; `SortedUpIs`
says that sorting and adding up makes them so.

**`WebClientProofs`**, for any objects, zooms, texts and numbers of requests.
`NetInv` says that what is in flight is the last request of its channel, and that
nothing shown on that channel is younger; `MapTypes`, `SearchTypes`, `Popups` what
the page holds, and `MapLast`, `SearchLast` relate what is shown to the last request
answered. A callback is followed through the page's own functions by a lemma for
each (`AfterReq`, `AfterAnswer`, `AfterClose`, `AfterSearch`). `NeverGoesBack` is an
action property, proved from `WInv` for each of the callbacks that show something.

**`LibraryProofs`, graphs**, for any nodes and any set of addresses. `Sound(edge, adj)` is
`GraphInv` as a predicate of a heap and lists, so that it can be stated of what is
between the steps of an operation: `LeaveSound`, `DestroySound` and `EnterSound`
are about an edge that leaves the lists, is freed, or enters both, `Merged` about the
heap after the loops of `mergeNds`. `MergesMove` is an action property: the
neighbours of the merged node are those of both. For `ComponentsSound` the nodes
are finitely many after any sequence of operations. `InPart` is the invariant of the
while loop: the component and the stack are linked to the first node, and a
neighbour of the component is visited or on the stack; so the class is found once the stack is
empty. It gets empty since a node that comes off the stack visited has all its
neighbours visited or above it, hence visited: it pushes nothing, and any other
shrinks the rest by a node (`RoundsLeft`). That what was visited before has no
edge to the rest (`ClassesApart`) is the invariant of the for loop.

**`LibraryProofs`, grids**, for any geometries of integer points, any areas and
widths of cells, and any set of floats. `GridIInv` adds to the exactness of the value index that
a value added and not removed is in all cells its geometry touches (`CellsHold`).
That queries miss nothing then follows from the monotonicity of the cell of a
coordinate: the corners of a geometry's box bound the cells of its points. Narrowing
keeps that monotone, whatever numbers are floats and whichever of two equally near ones
is taken (`NarrowMonotone`). What it does not keep is that a point lies in the box of
its cell, which only `Covered` points do. That a
finite set of integers has a greatest element is proved by taking a least set
without one, since the library's induction theorems cannot be used.

**`LibraryProofs`, radix heap**, for keys of any number of bits and any values. A word shifted by k
is a recursive function; that it exists, unfolds, keeps the order and leaves nothing
after all bits are proved by a least counterexample (`Induct`, `Recursion` of `Lemmas`). Two
lemmas say why the heap need not compare: if the least key of the first bucket
i that is not empty becomes `last_`, an item of a later bucket is in the right
one still (`LaterStay`), and every item of bucket i goes to one below it
(`FirstSinks`). `HInv` is the exactness of buckets and minima; it also holds amid
the loop of `pull` for what is below i (`SpreadInv`), whose other half is that each
item is counted once: for every set of items, the places that hold one of them, but
for those of bucket i already read, are as many as before. `HeapRefines`
follows with one lemma per call: the bag of `MonotoneQueue` maps an item to the number
of its places, so that `push` adds one, `pop` takes one of bucket 0, where
every key is `last_`, and `pull` changes none.

**`LibraryProofs`, writers**, for any trees, names and texts. That closeAll gives JSON is
about a future of the state, and not inductive; what is, is that the writer is where a
reader of its text is. `Fits` says so: the reader's state is the stack of the writer,
node by node, with what was read last in each as the node's `empty` tells it, and a
key on top is a key just read. In `Waits` a value may come, which is what `valCheck`
and `PopKey` leave. Each call then follows from one step of the reader (`JsonTextOn`), and
`closeAll` from as many as there are nodes (`CloseAllFits`). `val` of a tree fits if `val` of
trees of fewer levels does (`TreeDone`, `ValDone`). In XML (`XFits`), the reader's open elements
are the tags of the stack, and it is in a start tag exactly while the top one hangs; the
characters of a text leave it where it is (`XmlTextOver`), for those that would not are
escaped (`EscIs`).

**`DijkstraProofs`**, for any finite graphs, costs in Nat, sources, targets and
heuristics. Its first part is about the reference. `ShortestIn` takes the cheapest of
the ways of at most |V| steps; `WaysEnough` shows that no cheaper one has more, since
the nodes on a shortest of the cheapest ways each need a step more than the one before.
`Cheapest` is what follows and is used from there on: no step leads to
less than its cost, and what holds of the sources and goes on along every step holds
of each node at the cost it has (an induction along ways, stated for a set).

The second part is the loop of `shortestPathImpl`. `Frontier` says that a step
from a settled node is settled or queued at that cost. By induction along ways,
each cheapest way is then covered by a settled node or an entry (`Covers`), so that
while a target is out some key is at most its cost (`KeysBelow`, admissible
heuristics), and the entry with the least key costs what a cheapest way to it costs
(`TopIsExact`, consistent heuristics). `Ordered` adds that no key in the queue is
below a settled one, so that a node settles once. `SearchIInv` is the conjunction, with
the count of the targets; `SearchStep` has a lemma for each action.

The third part is the path. `SettledTree` says where entries come from: the parent
is settled, and a step leads from there at no more than the cost. A parent may cost
as much as its child, with edges of cost 0, and may be settled again when it gets
cheaper; that nobody is his own ancestor needs the order by (cost, time of
settling), whose times are a witness of the invariant (`Timed`) and no variable of
the model. `PathEnds` concludes that `buildPath` visits nobody twice and ends at
a source, `PathCosts` sums the steps up. For a search from one node each step is
the one the node was settled by; the others settle again, and there what the
path costs is between the cost of the target and that of a cheapest way, which are the
same if the heuristic is usable. That is why `PathFits` asks for `Usable` there: with a
heuristic that overestimates, the target keeps the cost it was reached with while a
node on its path gets cheaper.

The fourth part is `BiDijkstra`. Each side searches a net of its own, the backward one
with the edges turned round, so that lemmas are stated for a side and its `Other`, and
`Frontier` and `Covers` carry over. The sides take turns by the smaller key, so that no
key of either queue is below a settled cost of either side (`BiOrdered`).
`BiBest` says that `best` is at most every step between a node settled forwards and one
settled backwards, and below the sum at every node settled by both: had one not been, the
search would have stopped there. `NoneNearer` concludes that a connection that costs no
more than `best` and no more than any two entries of the queues together is a cheapest
way, by an induction along ways that looks for the step where a way leaves what is settled
forwards. `TurnIsCheapest` finds this connection where the code stops, `BiNothingLeft` says that
with a queue that ran empty there is no way, or a target costs nothing. The path is put
together from two climbs (`PathEnds` for each side) that share the meeting node.

The fifth part is `EdgeDijkstra`. A net of its own has the edges for nodes and the turns
that are allowed for steps, so that the first part holds of its ways; `Frontier` and
`Covers` become `EdgeFrontier` and `EdgeCovers`. Three things are new. The
queue raises a key to that of the entry taken last, as happens with an admissible
heuristic that is not consistent: `KeysFit` says that a key is what it was entered with or at most
that of an entry taken, `LowBelow` that no entry taken had a key above the cost
of a target that is out, so that raised keys do not hide one (`EdgeKeysBelow`). Ways end at
`stall` without the cost to begin with: `Within` is the part of the graph where they go
on, and `EdgeCovers` follows a way as long as it is there. An edge whose heuristic is
infinite is not entered; a cheapest way over it leads to no target (`EdgeCovered`).
`EdgeOrdered` is for searches for each of many: their heuristic is consistent, no key
is raised, and an edge is settled once at what it costs, so that the count of the
targets is right. Costs are never less than those of cheapest ways in any search
(`CostsAreBounds`). `EdgeIInv` is the conjunction.

A search backward counts the cost of an edge when it leaves it, so that its costs are those
of ways forward to the start without their first edge. `RevBound` says that no settled cost
is below the reference for a search from that edge (`EdgeNear`), `RevFrontier` that every
step into a settled edge comes from a settled or queued one; once the queue is empty,
`RevReached` goes along a cheapest way, from its end to its front (`RevIsForward`).

The lists (`WaysFit`) need the tree of the settled edges. `WayOf` says where an entry comes
from: it is a start edge, or its parent is settled, is left at the node noted, by no
forbidden turn, and costs at most what is left of the entry's cost. An admissible heuristic
may have a parent settled again, at a lower cost; `Timed` still holds then, so that
`buildPath` ends at a start edge. In searches for each of many the heuristic is consistent,
nothing is settled twice (`InOrder`, `TakenAgain`) and the costs of a list add up exactly. A
search for the nearest target ends with the first it settles (`OneHit`), whose cost is
that of a cheapest way by `EdgeShortest`; the list is then between a cheapest cost and what
was settled along it, both of which are equal, and so it adds up too (`WayCheapest`).
Each edge joins the nodes before and behind it in the list unless a way turns round
within an undirected edge; where nothing is forbidden and edges cost something the
edge before would have been entered directly (`NoTurn`, `NoReturn`). `EdgeTree` is
inductive on top of `EdgeIInv`.

That a call from a node costs what a search that settles nodes would (`NodesAgree`) is no
matter of steps: `NodeWayIsEdgeWay` and `EdgeWayIsNodeWay` turn the ways of the one
reference into ways of the other, by induction along them.

What is assumed of the constants, each `ASSUME` being evaluated by a run:

| assumption | content | why |
|---|---|---|
| `ConnsAssumption`, `FdsAssumption`, `NoneAssumption`, `MissingAssumption` | the values that stand for "none" are not among the others | notation |
| `WorkersAssumption`, `BacklogAssumption`, `RespLenAssumption`, `WordAssumption`, `BoundAssumption`, `BsizeAssumption`, `NumberAssumption`, `BitsAssumption`, `HeapBoundAssumption`, `InfAssumption` | numbers are numbers; finitely many threads; a key has a bit; the infinite cost is not 0 | notation |
| `QueriesAssumption` | a search is on a finite graph with costs in Nat, from and to nodes of it; the forms for one source have one, the form for one target has one | the signatures of `Dijkstra::shortestPathImpl`; shortest path algorithms of this kind are for costs that are not negative |
| `BiQueriesAssumption` | the same for `BiDijkstra`, which is called from one node or from a set | the signatures of `BiDijkstra::shortestPathImpl` |
| `EdgeQueriesAssumption` | the same for `EDijkstra`: finite graphs, edges of it to start at and to reach, a heuristic for each edge, costs to begin with for each start edge; the searches for all have no heuristic | the signatures of `EDijkstra::shortestPathImpl` |
| `NodeCallsAssumption` | a call that begins at a node is one from the edges out of it to the edges into nodes of the graph | the calls of `EDijkstra` that take a node (`EDijkstra.tpp:5-26`) |
| `BytesAssumption` | the bytes the parser tells apart are bytes | notation |
| `RequestsAssumption` | requests are well-formed: no white space in command, URL, version and names, no colon in a name, no line feed in a value, which begins and ends with no white space and is empty only before CR LF; as much payload as announced | what a client sends that means to be understood; the code has no reply to another one |
| `WebAssumption` | search results are stations and groups of the page; the zooms the page sets are zooms | `handleSearch` prints no others; Leaflet's range |
| `FileAssumption`, `DataSetAssumption` | objects are numbered from 0; a station is in groups of its file, members and targets of suggestions are in it | `push_back` gives the numbers; the assertions `StatIdx.cpp:291`, `StatIdx.cpp:318` say the rest |
| `ContentsAssumption` | names are strings of characters, under attributes; groups have ids of their own | `IdRanges` gives them; the names come from maps of the file |
| `GridAssumption` | geometries have integer points, at least one; cells have a positive width; there is an offset that a float can hold | a unit of the model is small enough; 10 km and 5 km in the code |
| `ValsAssumption` | the members of a tree are trees; `Nesting` is a number of levels | `json::Val` holds its members by value |
| `TextsAssumption` | texts are sequences of characters to be escaped or not | notation |
| `FarAssumption`, `MeetsAssumption` | the empty box is `-Far` to `Far`; a geometry meets every box a point of it lies in | `numeric_limits` in `Box`; checked for each of `Geo`'s predicates the grids use |

Left to TLC:

- `Served`, `Answered`, `CallsReturn`: liveness is out of the prover's reach.
- `FindInv`: that tokens near enough share the q-grams asked for is a theorem about
  edit distances, whose table is a fold over folds; the reference of `Distance` is
  for query tokens of less than 8 letters, which is enough for the runs.
- `MapInv`: hulls and clusters are folds and recursive functions over points.
- `TreeInv`: recursive operators.
- `GeoExact`: products of coordinates, non-linear arithmetic.

## 5. Not modelled

- `readFromFile` as a parser, and its counts for the log: `Files` are the records
  it makes. What it makes of malformed lines is undefined or arbitrary.
- The form of an arrow (`getGroupArrow`, with `rand`): `arrow` is any of a few lines.
- Rounding of doubles: the geometry is exact here, and so is the division by the width
  of a cell; only the narrowing of offsets to float is modelled. Projections, centroids, rotation, poly
  lines and curves decide nothing and are left out.
- Parsing of URLs, escaping and formatting of JSON answers, `gzipSupport` and
  compression (content only), the constructor of `Socket` (before any client).
- HTML that the page writes.
- Output of geometry as GeoJSON, log, options, vendored code (robin map,
  MurmurHash, dtoa) and tests.

## 6. What reading the code against the model showed

Behaviour that the models keep, and that properties are stated around.

HTTP. There is no timeout on `read` (`Server.cpp:164`). `hardware_concurrency()`
may be 0 (`Server.h:119`), and then no worker exists. A header without a value
whose line ends in a bare LF takes the next line for its value (`Server.cpp:222`).
A reset amid a header is answered 500, a hang-up there is not told from its end.

Handlers. A request without its parameter is answered 500, although `handle` has a 400
for it: `std::invalid_argument` is thrown by value and caught as a pointer
(`StatServer.cpp:58`).

Index. An arrow of group 0 would open a station, its id being 0 with either sign
(`StatIdx.cpp:722`); the properties leave this group out. Members are sorted "by error or sugg
occurance" (`StatIdx.cpp:359`) before there are suggestions. A name is rated by
where it is met first, in the order of attribute names, so that a name met as
`alt_name` is not "the best fitting" (`StatIdx.cpp:352`) even if it is some
station's `uic_name`. The raster of the heat maps leaves out its last row and
column (`StatIdx.cpp:447-448`). The hull of a group or meta group without stations
is a line along the whole equator, and the guard `size() < 2` against it
(`StatIdx.cpp:425`) never holds. Clusters are put into sets ordered by address,
suggestions without an arrow into cells of an empty box (a conversion that is
undefined and has no effect). A search hit with one station shows that station's
marks only (`StatServer.cpp:472-484`). An error of group 0 is written `-0` and read
as one of a station (`StatIdx.cpp:166`). Ranges of suggestion ids overlap
(`FixerMain.cpp:64`); nothing uses them. The tolerance of 0.01 in
`SearchIdx.h:29-39` makes the order of scores no strict weak order.

Page. An answer for a station may replace a popup of a group asked for later: they
are on different channels. A late search answer reopens a list that was closed
(`script.js:619`). An object opened again while it is open is neither open nor lit
afterwards (`script.js:221`). `other_grp` is a truth value, so that group 0 is a
station (`script.js:182`, `script.js:282`). Popups opened before the first map throw
(`script.js:393`, `script.js:415`). The zoom is read again when an answer comes
(`script.js:482`, `script.js:531`).

Grids and trees. A thousand kilometres from the corner of a grid, floats are some
centimetres apart, and a point that much below a border of cells is lost
(`grid_inner_kept`). What lies on the upper border of the last cells is in no cell, nor
is anything in a grid of no width. Without a value index a value once removed never
comes back. `QuadTree::split` keeps a reference into an array it makes grow
(`QuadTree.tpp:53`), takes the width for the height, and a value on a border is in
several leaves with one link.

Geometry. Two segments that share only ends meet or not, by the order of these
ends, where `Geo.h:466` says such are not intersecting. `intersects(Box, Polygon)`
(`Geo.h:536`) and `simplify(Polygon)` (`Geo.h:1133`) call themselves; nothing calls
them.

Graphs and searches. `UndirGraph::mergeNds` of a node with a loop walks a list it
appends to. `Dijkstra` for many targets forgets those it settled if the next cost
with its heuristic is infinite. `EDijkstra` counts costs to begin with twice for an
undirected edge left at its own start (`EDijkstra.tpp:401-409`, `456-464`); its call
from a set of nodes starts at edges into these; the node list of a single
undirected edge may be wrong. A way may get round a forbidden turn, or go on at no cost,
by entering an undirected edge and leaving it at the same end, which is then listed twice
(`NoTurnWithin` leaves this out). `BiDijkstra` ignores heuristics, may give up if a
source is a target or a target costs nothing (one queue runs empty before the sides
meet), and has no search for many targets.

Writers. Several values or roots at the top level are not refused; `openComment`
within a comment is not counted, but its `closeTag` is.

## 7. Plan

Done: the models of section 2, their runs, and the theorems of section 4.

1. `SearchIdx`: `LMerge` keeps the order that `IndexBuilt` gives and adds up what
   is in both lists; then the q-grams shared by near tokens.
2. Models: the reader of `.fix` files with malformed lines; a composition of
   `WebClient` and `StatServer`, which now meet only in the ids of `IdRanges`.
