---------------------------- MODULE HttpService ----------------------------
(***************************************************************************)
(* What the HTTP server of util/http promises to its clients, without its  *)
(* threads, its queue and its descriptors: connections are taken up in the *)
(* order in which they arrived, at most Capacity of them at a time, each   *)
(* one is sent the RespLen parts of one answer, and it is let go only when *)
(* all of them were written or the client has left.                        *)
(* HttpServer implements this specification.                               *)
(***************************************************************************)
EXTENDS Naturals, Sequences, FiniteSets

CONSTANTS Conns,      \* the TCP connections clients may open
          Capacity,   \* how many connections are served at the same time
          RespLen     \* parts (successful write calls) an answer consists of

VARIABLES waiting,    \* sequence of arrived connections nobody serves yet
          serving,    \* set of connections being served
          received,   \* received[c]: how many parts reached the client c
          left        \* set of connections whose client has hung up

svars == <<waiting, serving, received, left>>

SInit ==
  /\ waiting = <<>>
  /\ serving = {}
  /\ received = [c \in Conns |-> 0]
  /\ left = {}

Waits(c) == \E i \in 1..Len(waiting) : waiting[i] = c

\* A connection arrives at the end of the line.
Arrive(c) ==
  /\ ~Waits(c) /\ c \notin serving /\ c \notin left
  /\ received[c] = 0
  /\ waiting' = Append(waiting, c)
  /\ UNCHANGED <<serving, received, left>>

\* A connection whose client has left is removed without being served.
Drop(c) ==
  /\ c \in left
  /\ \E i \in 1..Len(waiting) :
       /\ waiting[i] = c
       /\ waiting' = SubSeq(waiting, 1, i - 1) \o SubSeq(waiting, i + 1, Len(waiting))
  /\ UNCHANGED <<serving, received, left>>

\* The connection that waits the longest is taken up.
Begin ==
  /\ waiting # <<>>
  /\ Cardinality(serving) < Capacity
  /\ waiting' = Tail(waiting)
  /\ serving' = serving \cup {Head(waiting)}
  /\ UNCHANGED <<received, left>>

\* A served client is sent some more parts of its answer.
Deliver(c) ==
  /\ c \in serving /\ c \notin left
  /\ \E k \in 1..(RespLen - received[c]) :
       received' = [received EXCEPT ![c] = @ + k]
  /\ UNCHANGED <<waiting, serving, left>>

\* A connection is let go: completely answered, or without a client.
Finish(c) ==
  /\ c \in serving
  /\ received[c] = RespLen \/ c \in left
  /\ serving' = serving \ {c}
  /\ UNCHANGED <<waiting, received, left>>

\* A client hangs up.
Leave(c) ==
  /\ left' = left \cup {c}
  /\ UNCHANGED <<waiting, serving, received>>

SNext ==
  \/ Begin
  \/ \E c \in Conns : Arrive(c) \/ Drop(c) \/ Deliver(c) \/ Finish(c) \/ Leave(c)

ServiceSpec == SInit /\ [][SNext]_svars
=============================================================================
