------------------------------ MODULE HttpReq ------------------------------
(***************************************************************************)
(* HttpServer::getReq of util/http/Server.cpp: how a worker reads one      *)
(* request.  TCP is a stream, so the request arrives in read calls of any  *)
(* size; the parser keeps its state between them and scans a byte once.    *)
(*                                                                         *)
(* A byte is one of those the parser tells apart or an opaque one, and     *)
(* never zero, as the fields are C strings; the command POST, the name     *)
(* Content-Length and a number are one byte each.                          *)
(* Positions in the stream are positions in buf, from 1.  A client sends   *)
(* its whole request and waits, or hangs up early; the payload is as long  *)
(* as announced.                                                           *)
(***************************************************************************)
EXTENDS Naturals, Sequences, SequencesExt, FiniteSetsExt

CONSTANTS BSIZE,      \* size of the read buffer
          Bytes,      \* what a request is made of
          Number,     \* what a byte stands for that is a number
          Requests    \* the requests clients may send (see Render)

ASSUME BsizeAssumption == BSIZE \in Nat \ {0}
ASSUME BytesAssumption == {"SP", "TAB", "COLON", "CR", "LF"} \subseteq Bytes
ASSUME NumberAssumption == \A d \in DOMAIN Number : Number[d] \in Nat

POST == <<"P">>
ContentLength == <<"L">>

\* White space as util::trim takes it; TAB stands for \t, \v and \f.
White == {"SP", "TAB", "CR", "LF"}

VARIABLES
  sent,     \* the request the client means to send, an element of Requests
  stream,   \* the bytes it sends
  pos,      \* how many of them have been read
  phase,    \* "header", "payload", or how getReq ended: "done", "cut" (done,
            \* but amid the payload), "431", "500", "crashed" (and the process
            \* with it)
  rcvd,     \* bytes in buf, then payload bytes read after the header
  parser,   \* the local variables of the header parser and the fields of ret
  payload   \* the bytes of postBuf

vars == <<sent, stream, pos, phase, rcvd, parser, payload>>

-----------------------------------------------------------------------------
(* What clients send. *)

\* HeadOf(r)[j] is the request line and the first j header lines.
HeadOf(r) ==
  LET line(h) == h[1] \o <<"COLON">> \o r.gap \o h[2] \o r.eol
      head[j \in 0..Len(r.params)] ==
        IF j = 0 THEN r.cmd \o <<"SP">> \o r.url \o <<"SP">> \o r.ver \o r.eol
        ELSE head[j - 1] \o line(r.params[j])
  IN head

Render(r) == HeadOf(r)[Len(r.params)] \o r.eol \o r.payload

HeaderLen(r) == Len(Render(r)) - Len(r.payload)

Init ==
  /\ sent \in Requests
  /\ \E n \in 0..Len(Render(sent)) : stream = SubSeq(Render(sent), 1, n)
  /\ pos = 0 /\ rcvd = 0 /\ phase = "header" /\ payload = <<>>
  /\ parser = [state |-> "NONE", tmp |-> 0, tmp2 |-> 0, brk |-> 0, key |-> <<>>,
               cmd |-> <<>>, url |-> <<>>, ver |-> <<>>, params |-> {}]

-----------------------------------------------------------------------------
(* The scanner. *)

\* util::trim
Trim(s) ==
  LET solid == {i \in 1..Len(s) : s[i] \notin White}
  IN IF solid = {} THEN <<>> ELSE SubSeq(s, Min(solid), Max(solid))

\* The bytes from position i up to position j, as a trimmed string.
Text(i, j) == Trim(SubSeq(stream, i, j - 1))

\* The text v with its carriage returns made blanks.
Blanked(v) == [i \in DOMAIN v |-> IF v[i] = "CR" THEN "SP" ELSE v[i]]

\* A header's value from position i up to position j.  The code makes blanks of
\* carriage returns before it trims; both are white space to trim.
Value(i, j) == Blanked(Text(i, j))

\* ret.params[k] = v, params being a set of key-value pairs.
Put(params, k, v) == {kv \in params : kv[1] # k} \cup {<<k, v>>}

\* One byte c of the header, at position i, in the parser's state p.  A byte
\* after which nothing changes is skipped, a CR before a name among them, which
\* the code makes a blank.
Scan(p, i) ==
  LET c == stream[i]
      to(s) == [p EXCEPT !.state = s]
  IN CASE p.state = "NONE" ->
            [to("I_COM") EXCEPT !.tmp = i]
       [] p.state = "I_COM" /\ c = "SP" ->
            [to("I_URL") EXCEPT !.cmd = Text(p.tmp, i), !.tmp = i + 1]
       [] p.state = "I_COM" /\ c = "LF" ->
            [to("A_KEY") EXCEPT !.cmd = Text(p.tmp, i)]
       [] p.state = "I_URL" /\ c = "SP" ->
            [to("I_VER") EXCEPT !.url = Text(p.tmp, i), !.tmp = i + 1]
       [] p.state = "I_URL" /\ c = "LF" ->
            [to("A_KEY") EXCEPT !.url = Text(p.tmp, i)]
       [] p.state = "I_VER" /\ c = "LF" ->
            [to("A_KEY") EXCEPT !.ver = Text(p.tmp, i)]
       [] p.state = "A_KEY" /\ c = "LF" ->
            [p EXCEPT !.brk = i + 1]
       [] p.state = "A_KEY" /\ c \notin {"SP", "CR", "LF"} ->
            [to("I_KEY") EXCEPT !.tmp = i]
       [] p.state = "I_KEY" /\ c = "COLON" ->
            [to("A_VAL") EXCEPT !.key = SubSeq(stream, p.tmp, i - 1)]
       [] p.state = "A_VAL" /\ c # "SP" ->
            [to("I_VAL") EXCEPT !.tmp2 = i]
       [] p.state = "I_VAL" /\ c = "LF" ->
            [to("A_KEY") EXCEPT !.params = Put(@, p.key, Value(p.tmp2, i))]
       [] OTHER -> p

\* The byte at position i is skipped once the header has ended.
ScanOn(p, i) == IF p.brk # 0 THEN p ELSE Scan(p, i)

\* Mutant: the scanner starts over in state NONE with each read.
ScanChunkAfresh(k) ==
  LET scanned[j \in 0..k] ==
        IF j = 0 THEN [parser EXCEPT !.state = "NONE"]
        ELSE ScanOn(scanned[j - 1], rcvd + j)
  IN scanned[k]

\* The for loop over the k bytes just read.
ScanChunk(k) ==
  LET scanned[j \in 0..k] ==
        IF j = 0 THEN parser ELSE ScanOn(scanned[j - 1], rcvd + j)
  IN scanned[k]

\* The payload size the header p announces.
PayloadSize(p) ==
  LET values == {kv[2] : kv \in {x \in p.params : x[1] = ContentLength}}
      atoi(v) == IF Len(v) = 1 /\ v[1] \in DOMAIN Number THEN Number[v[1]] ELSE 0
  IN IF p.cmd # POST \/ values = {} THEN 0 ELSE atoi(CHOOSE v \in values : TRUE)

-----------------------------------------------------------------------------
(* Which requests these are. *)

\* The headers among the first j that no later one of them overrides.
LastOf(params, j) ==
  {params[i] : i \in {x \in 1..j : \A l \in (x + 1)..j : params[l][1] # params[x][1]}}
LastValues(params) == LastOf(params, Len(params))

Solid(s) == s \in Seq(Bytes) /\ \A i \in 1..Len(s) : s[i] \notin White

\* The headers as they are to be understood: a carriage return within a value is
\* a blank.
Meant(r) == [j \in 1..Len(r.params) |-> <<r.params[j][1], Blanked(r.params[j][2])>>]

\* What a client sends that means to be understood: no white space but before
\* and within a value, no colon in a name, a line end where the value is empty
\* that the parser does not skip, and as much payload as announced.
WellFormed(r) ==
  /\ Solid(r.cmd) /\ r.cmd # <<>> /\ Solid(r.url) /\ Solid(r.ver)
  /\ r.eol \in {<<"LF">>, <<"CR", "LF">>}
  /\ r.gap \in Seq({"SP"})
  /\ r.params \in Seq(Seq(Bytes) \X Seq(Bytes))
  /\ \A j \in 1..Len(r.params) :
       LET key == r.params[j][1]
           val == r.params[j][2]
       IN /\ Solid(key) /\ key # <<>>
          /\ \A i \in 1..Len(key) : key[i] # "COLON"
          /\ \A i \in 1..Len(val) : val[i] # "LF"
          /\ val = <<>> => Len(r.eol) = 2
          /\ val # <<>> => val[1] \notin White /\ val[Len(val)] \notin White
  /\ r.payload \in Seq(Bytes)
  /\ Len(r.payload) = PayloadSize([cmd |-> r.cmd, params |-> LastValues(Meant(r))])

ASSUME RequestsAssumption == \A r \in Requests : WellFormed(r)

-----------------------------------------------------------------------------
(* The reads. *)

\* How many bytes a read into buf may return.
Room == BSIZE - rcvd

\* Mutant: the buffer is taken to be full one byte early.
FullEarly(n) == n >= BSIZE - 1

\* n bytes fill buf.
Full(n) == n = BSIZE

\* rem: how many payload bytes are among the n bytes read with header p.
Rest(p, n) == Min({PayloadSize(p), n - (p.brk - 1)})

\* A read into buf returns k bytes.  A full buffer is refused; otherwise, once
\* the header has ended, the payload bytes that came with it are copied and
\* rcvd counts those that are read later.
ReadHeader ==
  /\ phase = "header"
  /\ \E k \in 1..Min({Room, Len(stream) - pos}) :
       LET p == ScanChunk(k)
           rem == Rest(p, rcvd + k)
       IN /\ parser' = p
          /\ pos' = pos + k
          /\ \/ /\ Full(rcvd + k)
                /\ phase' = "431" /\ rcvd' = rcvd + k
                /\ UNCHANGED payload
             \/ /\ ~Full(rcvd + k) /\ p.brk = 0
                /\ rcvd' = rcvd + k
                /\ UNCHANGED <<phase, payload>>
             \/ /\ ~Full(rcvd + k) /\ p.brk # 0
                /\ rcvd' = 0
                /\ payload' = SubSeq(stream, p.brk, p.brk + rem - 1)
                /\ phase' = IF rem < PayloadSize(p) THEN "payload" ELSE "done"
  /\ UNCHANGED <<sent, stream>>

\* Mutant: the end of the stream ends the field the parser is in.
HeaderEndsFlush ==
  /\ phase = "header" /\ pos = Len(stream)
  /\ phase' = IF PayloadSize(parser) > 0 THEN "crashed" ELSE "done"
  /\ parser' = IF parser.state = "I_URL"
                 THEN [parser EXCEPT !.url = Text(parser.tmp, pos + 1)] ELSE parser
  /\ UNCHANGED <<sent, stream, pos, rcvd, payload>>

\* read returns 0: the client hung up before its header was complete, and
\* the request is what has been parsed of it so far.  If that announces a
\* payload, the code copies it from brk, which is null: the process crashes.
HeaderEnds ==
  /\ phase = "header" /\ pos = Len(stream)
  /\ phase' = IF PayloadSize(parser) > 0 THEN "crashed" ELSE "done"
  /\ UNCHANGED <<sent, stream, pos, rcvd, parser, payload>>

\* read fails: the connection was reset.
HeaderFails ==
  /\ phase = "header"
  /\ phase' = "500"
  /\ UNCHANGED <<sent, stream, pos, rcvd, parser, payload>>

\* Mutant: the bytes that came with the header are awaited once more.
PayloadWholeAgain(n, got) == n = PayloadSize(parser)

\* The n bytes read since the header, `got` in all, complete the payload.
PayloadWhole(n, got) == got = PayloadSize(parser)

\* A read of further payload bytes, until there are as many as announced.
ReadPayload ==
  /\ phase = "payload"
  /\ \E k \in 1..(Len(stream) - pos) :
       /\ payload' = payload \o SubSeq(stream, pos + 1, pos + k)
       /\ rcvd' = rcvd + k
       /\ pos' = pos + k
       /\ phase' = IF PayloadWhole(rcvd + k, Len(payload) + k) THEN "done" ELSE phase
  /\ UNCHANGED <<sent, stream, parser>>

\* n bytes of postBuf that were never written.
Junk(n) == [j \in 1..n |-> "?"]

\* read returns 0 amid the payload: the request is handled with the rest of
\* postBuf as it was allocated, up to the first zero byte of it.
PayloadEnds ==
  /\ phase = "payload" /\ pos = Len(stream) /\ stream # Render(sent)
  /\ \E n \in 0..(PayloadSize(parser) - Len(payload)) : payload' = payload \o Junk(n)
  /\ phase' = "cut"
  /\ UNCHANGED <<sent, stream, pos, rcvd, parser>>

\* read fails amid the payload: the request is handled with postBuf ended at
\* rcvd + 1, whatever came with the header.
PayloadFails ==
  /\ phase = "payload"
  /\ \E n \in 0..1 : payload' = SubSeq(payload \o Junk(n), 1, Min({rcvd + 1, Len(payload) + n}))
  /\ phase' = "cut"
  /\ UNCHANGED <<sent, stream, pos, rcvd, parser>>

Next ==
  \/ ReadHeader \/ HeaderEnds \/ HeaderFails
  \/ ReadPayload \/ PayloadEnds \/ PayloadFails

\* The network delivers what is sent, and a read of it returns; nothing has to
\* fail.
Spec ==
  /\ Init /\ [][Next]_vars
  /\ WF_vars(ReadHeader \/ HeaderEnds \/ ReadPayload \/ PayloadEnds)

-----------------------------------------------------------------------------
(* Properties. *)

States == {"NONE", "I_COM", "I_URL", "I_VER", "A_KEY", "I_KEY", "A_VAL", "I_VAL"}

\* The parser is in one of its states, the positions it keeps are inside the
\* buffer, and what it scanned is what was read.  Only the payload may be longer
\* than the buffer.
TypeOK ==
  /\ sent \in Requests
  /\ pos \in 0..Len(stream) /\ rcvd \in Nat
  /\ rcvd <= BSIZE \/ rcvd <= Len(payload)
  /\ phase \in {"header", "payload", "done", "cut", "431", "500", "crashed"}
  /\ parser.state \in States
  /\ {parser.tmp, parser.tmp2, parser.brk} \subseteq 0..(BSIZE + 1)
  /\ phase = "header" => pos = rcvd
  /\ Len(payload) <= PayloadSize(parser)

\* A request that was sent whole is parsed into exactly the fields that were
\* sent, the last value of a repeated header and the payload included, a carriage
\* return in a value being a blank, however TCP cut it: at a CR LF, inside a key,
\* between header and payload.
ParsedAsSent ==
  phase = "done" /\ stream = Render(sent) =>
    /\ parser.cmd = sent.cmd /\ parser.url = sent.url /\ parser.ver = sent.ver
    /\ parser.params = LastValues(Meant(sent))
    /\ payload = sent.payload

\* A request cut short by a hang-up is never taken for another one: a field
\* the handler sees is the whole of it or empty.
OnlyWholeFields ==
  phase \in {"done", "cut"} =>
    /\ parser.cmd \in {<<>>, sent.cmd}
    /\ parser.url \in {<<>>, sent.url}
    /\ parser.ver \in {<<>>, sent.ver}
    /\ \A kv \in parser.params : \E i \in 1..Len(sent.params) : Meant(sent)[i] = kv

\* 431 is never the answer to a request that leaves a byte of buf unused, and
\* a header that does not is never let through.
RefusedBySize ==
  /\ phase = "431" => Len(stream) >= BSIZE
  /\ phase \in {"payload", "done", "cut"} /\ stream = Render(sent) => HeaderLen(sent) < BSIZE

\* The process crashes for no request but a POST whose client hangs up before
\* the end of its header; it never does amid the payload, nor after it.
OnlyCutPostsCrash ==
  phase = "crashed" => sent.cmd = POST /\ Len(stream) < HeaderLen(sent)

\* For every other client getReq returns or throws, however the payload is split
\* between the header's reads and later ones, and wherever the client hangs up.
Answered ==
  sent.cmd # POST \/ Len(stream) >= HeaderLen(sent)
    => <>(phase \in {"done", "cut", "431", "500"})

\* "make sure the server continues running": no request ends the process.
KeepsRunning == phase # "crashed"

\* "431 Request Header Fields Too Large" is thrown only if the header fields
\* are too large, i.e. no header that fits buf is answered that way.
OnlyLargeHeadersRefused == phase = "431" => HeaderLen(sent) >= BSIZE

\* A request cut short is handled in whole fields or ends the process, and the
\* latter only as a POST amid its header.
CutInv == OnlyWholeFields /\ OnlyCutPostsCrash

\* getReq at every point: what it holds is consistent, and a request that was
\* sent whole comes out as it was sent (HttpServer::getReq).
ParserInv == TypeOK /\ ParsedAsSent
=============================================================================
