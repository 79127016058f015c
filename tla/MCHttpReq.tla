----------------------------- MODULE MCHttpReq -----------------------------
(***************************************************************************)
(* Requests for HttpReq: with and without headers, repeated and empty      *)
(* headers, white space and a carriage return within a value, CR LF and    *)
(* bare LF line ends, payloads of up to three bytes.  The buffer holds 18  *)
(* bytes, so that some headers fit with their payload, some only without   *)
(* it, one ends at the last byte and one does not fit.                     *)
(***************************************************************************)
EXTENDS HttpReq

MCBSIZE == 18
MCBytes == {"SP", "TAB", "COLON", "CR", "LF", "P", "L", "1", "2", "3"}
             \cup {"G", "a", "b", "c", "d", "h", "k", "l", "u", "v"}
MCNumber == [d \in {"1", "2", "3"} |->
               CASE d = "1" -> 1 [] d = "2" -> 2 [] d = "3" -> 3]
CRLF == <<"CR", "LF">>
Base == [cmd |-> <<"G">>, url |-> <<"u", "v">>, ver |-> <<"h">>, params |-> <<>>,
         payload |-> <<>>, eol |-> CRLF, gap |-> <<"SP">>]

Gets ==
  {[Base EXCEPT !.params = ps, !.eol = e] :
     ps \in {<<>>, <<<<<<"k">>, <<"a">>>>>>,
             <<<<<<"k">>, <<"a", "SP", "COLON">>>>>>,
             <<<<<<"k">>, <<"a", "CR", "TAB", "b">>>>>>,
             <<<<<<"k">>, <<"a">>>>, <<<<"k">>, <<"b">>>>>>,
             <<<<<<"k">>, <<"a">>>>, <<<<"l">>, <<"b", "c", "d">>>>>>},
     e \in {CRLF, <<"LF">>}}

\* A header without a value; its line must end in CR LF.
EmptyValue == [Base EXCEPT !.params = <<<<<<"k">>, <<>>>>>>, !.gap = <<>>]

Posts ==
  {[Base EXCEPT !.cmd = POST, !.url = u, !.eol = e, !.gap = <<>>,
      !.params = <<<<ContentLength, <<n>>>>>>,
      !.payload = [i \in 1..Number[n] |-> IF i = 2 THEN "LF" ELSE "b"]] :
     n \in {"1", "2", "3"}, e \in {CRLF, <<"LF">>}, u \in {<<"u">>, <<"u", "v">>}}

MCRequests == Gets \cup {EmptyValue} \cup Posts
=============================================================================
