----------------------------- MODULE XmlWriter -----------------------------
(***************************************************************************)
(* The XML writer (util/xml/XmlWriter.cpp): a stack of open tags and       *)
(* comments.  A tag stays hanging, without its ">", until something is     *)
(* written into it, so that an empty one can be closed as "/>".            *)
(*                                                                         *)
(* The output is a sequence of tokens: markup, names and single characters *)
(* of texts and of values of attributes.  Line breaks of the pretty writer,*)
(* the compression of the file and quotes, which are escaped in values     *)
(* only, are left out.  TEXT nodes are never pushed.  A call that throws   *)
(* does so before it changes anything.                                     *)
(***************************************************************************)
EXTENDS Integers, Sequences, SequencesExt

CONSTANTS Spelling,     \* the characters of each name of a tag
          Texts,        \* texts and values: sequences over y, < and &
          MaxXmlTokens  \* bound on the output

ASSUME TextsAssumption == Texts \subseteq Seq({"y", "<", "&"})

VARIABLES xout,         \* *_out
          nstack        \* _nstack: [t, pload, hanging], top last

xmlVars == <<xout, nstack>>

InComment == nstack # <<>> /\ Last(nstack).t = "COMMENT"

Letters == {"a", "x", "m", "l", "X", "M", "L"}
ToLower(c) == CASE c = "X" -> "x" [] c = "M" -> "m" [] c = "L" -> "l" [] OTHER -> c

CheckTagName(tag) ==
  LET s == Spelling[tag]
  IN /\ s # <<>> /\ s[1] \in Letters \cup {"_"}
     /\ ~(Len(s) >= 3 /\ [i \in 1..3 |-> ToLower(s[i])] = <<"x", "m", "l">>)
     /\ ToSet(s) \subseteq Letters \cup {"1", "-", "_", ".", ":"}

\* putEsced
PutEsced(text) ==
  LET esc(c) == CASE c = "<" -> "&lt;" [] c = "&" -> "&amp;" [] OTHER -> c
  IN IF InComment THEN text ELSE [i \in DOMAIN text |-> esc(text[i])]

\* closeHanging: the output and the stack after it.
\* Mutant: the tag is still taken for hanging.
UnhungKeep == nstack
Unhung ==
  IF nstack = <<>> THEN nstack ELSE [nstack EXCEPT ![Len(nstack)].hanging = FALSE]
CloseHanging ==
  IF nstack # <<>> /\ Last(nstack).hanging THEN Append(xout, ">") ELSE xout

PushXml(t, tag, hanging) ==
  nstack' = Append(Unhung, [t |-> t, pload |-> tag, hanging |-> hanging])

\* openTag, with the values of the attributes.
OpenTag(tag, attrs) ==
  LET begun[n \in 0..Len(attrs)] ==
        IF n = 0 THEN CloseHanging \o <<"<", tag>>
        ELSE begun[n - 1] \o <<"=">> \o PutEsced(attrs[n]) \o <<"=">>
  IN /\ ~InComment
     /\ CheckTagName(tag)
     /\ xout' = begun[Len(attrs)]
     /\ PushXml("TAG", tag, TRUE)

\* A comment in a comment is not opened, and not counted either.
OpenComment ==
  IF InComment THEN UNCHANGED xmlVars
  ELSE xout' = Append(CloseHanging, "<!--") /\ PushXml("COMMENT", "", FALSE)

WriteText(text) ==
  /\ nstack # <<>>
  /\ xout' = CloseHanging \o PutEsced(text)
  /\ nstack' = Unhung

\* What closeTag writes for a node.
Closing(nd) ==
  CASE nd.t = "COMMENT" -> <<"-->">>
    [] nd.t = "TAG" /\ nd.hanging -> <<"/>">>
    [] nd.t = "TAG" /\ ~nd.hanging -> <<"</", nd.pload, ">">>

CloseTag ==
  /\ nstack # <<>>
  /\ xout' = xout \o Closing(Last(nstack))
  /\ nstack' = Front(nstack)

\* closeTags: from the top of the stack down.
Ended ==
  LET closed[n \in 0..Len(nstack)] ==
        IF n = 0 THEN xout ELSE closed[n - 1] \o Closing(nstack[Len(nstack) + 1 - n])
  IN closed[Len(nstack)]

CloseTags == xout' = Ended /\ nstack' = <<>>

XmlInit == xout = <<>> /\ nstack = <<>>

XmlNext ==
  /\ Len(xout) < MaxXmlTokens
  /\ \/ \E tag \in DOMAIN Spelling : \E attrs \in {<<>>} \cup {<<t>> : t \in Texts} : OpenTag(tag, attrs)
     \/ OpenComment
     \/ \E text \in Texts : WriteText(text)
     \/ CloseTag
     \/ CloseTags

XmlSpec == XmlInit /\ [][XmlNext]_xmlVars

-----------------------------------------------------------------------------
XmlTypeOK ==
  \A i \in DOMAIN nstack :
    /\ nstack[i].t \in {"TAG", "COMMENT"}
    /\ nstack[i].hanging => nstack[i].t = "TAG" /\ i = Len(nstack)
    /\ nstack[i].t = "COMMENT" => i = Len(nstack)

\* The reference: a reader of XML.  It knows the names of the open elements and
\* where it is: in content, after "<", in a start tag, in a value, in a comment,
\* after "</" and after the name there.
Chars == {"y", "&lt;", "&amp;"}
Nothing == [open |-> <<>>, at |-> "content"]
NotXml == [open |-> <<>>, at |-> "wrong"]

XmlRead(s, tok) ==
  CASE s.at = "content" /\ tok \in Chars /\ s.open # <<>> -> s
    [] s.at = "content" /\ tok = "<" -> [s EXCEPT !.at = "name"]
    [] s.at = "content" /\ tok = "<!--" -> [s EXCEPT !.at = "comment"]
    [] s.at = "content" /\ tok = "</" /\ s.open # <<>> -> [s EXCEPT !.at = "end"]
    [] s.at = "name" /\ tok \in DOMAIN Spelling -> [open |-> Append(s.open, tok), at |-> "tag"]
    [] s.at = "tag" /\ tok = "=" -> [s EXCEPT !.at = "value"]
    [] s.at = "tag" /\ tok = ">" -> [s EXCEPT !.at = "content"]
    [] s.at = "tag" /\ tok = "/>" -> [open |-> Front(s.open), at |-> "content"]
    [] s.at = "value" /\ tok \in Chars -> s
    [] s.at = "value" /\ tok = "=" -> [s EXCEPT !.at = "tag"]
    [] s.at = "comment" /\ tok = "-->" -> [s EXCEPT !.at = "content"]
    [] s.at = "comment" /\ tok # "-->" -> s
    [] s.at = "end" /\ tok = Last(s.open) -> [s EXCEPT !.at = "closed"]
    [] s.at = "closed" /\ tok = ">" -> [open |-> Front(s.open), at |-> "content"]
    [] OTHER -> NotXml

XmlText(text) ==
  LET after[i \in 0..Len(text)] == IF i = 0 THEN Nothing ELSE XmlRead(after[i - 1], text[i])
  IN after[Len(text)]

\* Whatever was called, closeTags makes the text one of properly nested
\* elements, comments and escaped characters (XmlWriter::openTag, writeText,
\* closeTag, closeHanging).  There may be several roots.
XmlWellFormed == XmlText(Ended) = Nothing

\* The stack of the writer fits its text at every call (xml::XmlWriter).
XmlInv == XmlTypeOK /\ XmlWellFormed
=============================================================================
