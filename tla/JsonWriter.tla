----------------------------- MODULE JsonWriter -----------------------------
(***************************************************************************)
(* The JSON writer (util/json/Writer.cpp): a stack of open objects, arrays *)
(* and keys decides which calls are allowed and where a comma is written.  *)
(* The output is a sequence of tokens; "k" is a key with its colon, "v" any*)
(* string, number or literal.  White space, which the pretty writer adds,  *)
(* is left out.  A call that throws does so before it changes anything.    *)
(***************************************************************************)
EXTENDS Integers, Sequences, SequencesExt

CONSTANTS Vals,      \* trees for val(Val): [t, of], of the members
          Nesting,   \* levels of a tree
          MaxTokens  \* bound on the output

ASSUME ValsAssumption ==
  /\ Nesting \in Nat
  /\ \A v \in Vals : v.t \in {"LEAF", "ARRAY", "DICT"} /\ v.of \in Seq(Vals)

VARIABLES jout,      \* *_out
          jstack     \* _stack: [type, empty], top last

jsonVars == <<jout, jstack>>

\* A writer is [out, stack] here; Bad is one that has thrown.
Tokens == {"{", "}", "[", "]", "k", "v", ",", "!"}
Writers == [out : Seq(Tokens), stack : Seq([type : {"OBJ", "ARR", "KEY"}, empty : BOOLEAN])]
Bad == [out |-> <<"!">>, stack |-> <<>>]
TypeOnTop(w) == IF w.stack = <<>> THEN "none" ELSE Last(w.stack).type
Put(w, tok) == [w EXCEPT !.out = Append(@, tok)]
PushNode(w, type) == [w EXCEPT !.stack = Append(@, [type |-> type, empty |-> TRUE])]
PopNode(w) == [w EXCEPT !.stack = Front(@)]
PopKey(w) == IF TypeOnTop(w) = "KEY" THEN PopNode(w) ELSE w

\* Mutant: the first member is not remembered.
MemberForget(w) == IF Last(w.stack).empty THEN w ELSE Put(w, ",")

\* A comma, unless it is the first member.
Member(w) ==
  LET u == IF Last(w.stack).empty THEN w ELSE Put(w, ",")
  IN [u EXCEPT !.stack[Len(u.stack)].empty = FALSE]

\* valCheck
ValCheck(w) ==
  IF TypeOnTop(w) \notin {"KEY", "ARR"} THEN Bad
  ELSE LET u == PopKey(w) IN IF TypeOnTop(u) = "ARR" THEN Member(u) ELSE u

\* obj and arr.  At the top level they may be called any number of times.
Open(w, type, tok) ==
  IF TypeOnTop(w) = "OBJ" THEN Bad
  ELSE LET u == PopKey(w)
       IN PushNode(Put(IF TypeOnTop(u) = "ARR" THEN ValCheck(u) ELSE u, tok), type)

Obj(w) == Open(w, "OBJ", "{")
Arr(w) == Open(w, "ARR", "[")
Key(w) == IF TypeOnTop(w) # "OBJ" THEN Bad ELSE PushNode(Put(Member(w), "k"), "KEY")
Scalar(w) == LET u == ValCheck(w) IN IF u = Bad THEN Bad ELSE Put(u, "v")

Close(w) ==
  CASE TypeOnTop(w) = "none" -> w
    [] TypeOnTop(w) = "OBJ"  -> Put(PopNode(w), "}")
    [] TypeOnTop(w) = "ARR"  -> Put(PopNode(w), "]")
    [] TypeOnTop(w) = "KEY"  -> Bad

\* val(Val): a tree, of a DICT the members with keys.  val does it for a member.
Tree(val, w, v) ==
  LET dict == v.t = "DICT"
      filled[i \in 0..Len(v.of)] ==
        IF i = 0 THEN IF dict THEN Obj(w) ELSE Arr(w)
        ELSE val[<<IF dict THEN Key(filled[i - 1]) ELSE filled[i - 1], v.of[i]>>]
  IN IF w = Bad THEN Bad
     ELSE IF v.t = "LEAF" THEN Scalar(w) ELSE Close(filled[Len(v.of)])

\* A tree has up to Nesting levels.
Val(w, v) ==
  LET val[h \in 0..Nesting] ==
        [c \in Writers \X Vals |-> IF h = 0 THEN Bad ELSE Tree(val[h - 1], c[1], c[2])]
  IN val[Nesting][<<w, v>>]

KeyVal(w, v) == LET u == Key(w) IN IF u = Bad THEN Bad ELSE Val(u, v)

\* closeAll: an open key ends it with an exception, after what was closed.
CloseAll(w) ==
  LET c[n \in 0..Len(w.stack)] == IF n = 0 THEN w ELSE Close(c[n - 1])
  IN IF TypeOnTop(w) = "KEY" THEN Bad ELSE c[Len(w.stack)]

-----------------------------------------------------------------------------
Writer == [out |-> jout, stack |-> jstack]

Write(w) ==
  /\ w # Bad /\ Len(w.out) <= MaxTokens
  /\ jout' = w.out /\ jstack' = w.stack

JsonInit == jout = <<>> /\ jstack = <<>>

JsonNext ==
  \/ Write(Obj(Writer)) \/ Write(Arr(Writer)) \/ Write(Key(Writer)) \/ Write(Close(Writer))
  \/ \E v \in Vals : Write(Val(Writer, v)) \/ Write(KeyVal(Writer, v))
  \/ Write(CloseAll(Writer))

JsonSpec == JsonInit /\ [][JsonNext]_jsonVars

-----------------------------------------------------------------------------
JsonTypeOK ==
  /\ \A i \in DOMAIN jstack : jstack[i].type \in {"OBJ", "ARR", "KEY"} /\ jstack[i].empty \in BOOLEAN
  /\ \A i \in DOMAIN jstack : jstack[i].type = "KEY" =>
       i = Len(jstack) /\ i > 1 /\ jstack[i - 1].type = "OBJ"

\* The reference: a reader of JSON.  It knows for each open object or array what
\* was read last in it: "{" or "[" nothing, "k" a key, "{v" or "[v" a value (or
\* its begin), "{," or "[," a comma.
Places == {"{", "[", "k", "{v", "[v", "{,", "[,", "!"}
Wrong == <<"!">>
LastRead(s, place) == [s EXCEPT ![Len(s)] = place]

\* A value (begins).
ValueRead(s) ==
  IF s = <<>> THEN s
  ELSE CASE Last(s) = "k" -> LastRead(s, "{v")
         [] Last(s) \in {"[", "[,"} -> LastRead(s, "[v")
         [] OTHER -> Wrong

JsonRead(s, tok) ==
  LET at == IF s = <<>> THEN "top" ELSE Last(s)
  IN CASE tok = "v" -> ValueRead(s)
       [] tok \in {"{", "["} -> IF ValueRead(s) = Wrong THEN Wrong ELSE Append(ValueRead(s), tok)
       [] tok = "}" /\ at \in {"{", "{v"} -> Front(s)
       [] tok = "]" /\ at \in {"[", "[v"} -> Front(s)
       [] tok = "k" /\ at \in {"{", "{,"} -> LastRead(s, "k")
       [] tok = "," /\ at = "{v" -> LastRead(s, "{,")
       [] tok = "," /\ at = "[v" -> LastRead(s, "[,")
       [] OTHER -> Wrong

JsonText(text) ==
  LET after[i \in 0..Len(text)] == IF i = 0 THEN <<>> ELSE JsonRead(after[i - 1], text[i])
  IN after[Len(text)]

\* Whatever calls were not refused, closeAll, after a value if a key is open,
\* makes the text a sequence of JSON values (Writer::valCheck, key, close).  It
\* is more than one if the caller goes on at the top level.
JsonWellFormed ==
  LET w == IF TypeOnTop(Writer) = "KEY" THEN Scalar(Writer) ELSE Writer
  IN JsonText(CloseAll(w).out) = <<>>

\* The stack of the writer fits its text at every call (json::Writer).
JsonInv == JsonTypeOK /\ JsonWellFormed
=============================================================================
