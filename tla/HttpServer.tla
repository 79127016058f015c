----------------------------- MODULE HttpServer -----------------------------
(***************************************************************************)
(* The HTTP server of util/http/Server.{h,cpp}: one acceptor thread        *)
(* (HttpServer::run), a pool of worker threads (HttpServer::handle) and    *)
(* the queue of socket descriptors between them (class Queue: a mutex, a   *)
(* std::queue<int> and a condition variable), with the clients and the     *)
(* descriptor table of the process as environment.                         *)
(*                                                                         *)
(* A critical section of Queue is one step: its body touches only what the *)
(* mutex protects, so no other thread can see it half done.  notify_one    *)
(* comes after the unlock in the code and is a step of its own, as is every *)
(* system call.                                                            *)
(*                                                                         *)
(* A client that hangs up amid the header of a POST can end the process    *)
(* (HttpReq, phase "crashed"): what is said here is said of a server that  *)
(* has not met one.                                                        *)
(***************************************************************************)
EXTENDS Naturals, Sequences, FiniteSets

CONSTANTS Conns,     \* the TCP connections clients may open
          Fds,       \* the descriptors the process may use for sockets
          Workers,   \* the threads of the pool
          Backlog,   \* capacity of the kernel's accept queue (BLOG)
          RespLen,   \* parts an answer is written in (write calls, at most)
          NoConn,    \* a descriptor that is not in use
          NoFd       \* -1, what a failed accept returns

ASSUME ConnsAssumption == NoConn \notin Conns
ASSUME FdsAssumption == NoFd \notin Fds
ASSUME WorkersAssumption == IsFiniteSet(Workers)
ASSUME BacklogAssumption == Backlog \in Nat \ {0}
ASSUME RespLenAssumption == RespLen \in Nat \ {0}

VARIABLES
  cli,      \* cli[c]: what the client of connection c has done so far
  got,      \* got[c]: the parts of answers client c has received
  backlog,  \* connections the kernel holds until they are accepted
  fdtab,    \* fdtab[f]: the connection behind descriptor f, or NoConn
  apc,      \* where the acceptor is in run() and Queue::add
  afd,      \* what the last accept returned, until it is queued
  jobs,     \* Queue::_jobs
  wpc,      \* wpc[w]: where worker w is in handle() and Queue::get
  wfd,      \* wfd[w]: the local variable `connection` of worker w
  answ,     \* answ[w]: the local variable `answ` of worker w
  wrote     \* wrote[w]: the local variable `writes` of send in worker w

cvars == <<cli, got>>
avars == <<apc, afd>>
wvars == <<wpc, wfd, answ, wrote>>
vars  == <<cli, got, backlog, fdtab, apc, afd, jobs, wpc, wfd, answ, wrote>>

Status == {"", "200", "431", "500"}
Answers == [to : Conns \cup {NoConn}, status : Status]
NoAnswer == [to |-> NoConn, status |-> ""]

\* States in which a worker owns the descriptor in its `connection`.
Busy == {"read", "handle", "send", "close"}

Init ==
  /\ cli = [c \in Conns |-> "idle"]
  /\ got = [c \in Conns |-> <<>>]
  /\ backlog = <<>>
  /\ fdtab = [f \in Fds |-> NoConn]
  /\ apc = "accept" /\ afd = NoFd
  /\ jobs = <<>>
  /\ wpc = [w \in Workers |-> "get"]
  /\ wfd = [w \in Workers |-> NoFd]
  /\ answ = [w \in Workers |-> NoAnswer]
  /\ wrote = [w \in Workers |-> 0]

-----------------------------------------------------------------------------
(* The clients. *)

\* The kernel completes a handshake while its accept queue has room.
Connect(c) ==
  /\ cli[c] = "idle"
  /\ Len(backlog) < Backlog
  /\ cli' = [cli EXCEPT ![c] = "connected"]
  /\ backlog' = Append(backlog, c)
  /\ UNCHANGED <<got, fdtab, avars, jobs, wvars>>

\* The client sends its whole request: one that fits the read buffer, or one
\* that fills it (BSIZE bytes).
SendRequest(c) ==
  /\ cli[c] = "connected"
  /\ \E r \in {"sentOk", "sentLarge"} : cli' = [cli EXCEPT ![c] = r]
  /\ UNCHANGED <<got, backlog, fdtab, avars, jobs, wvars>>

\* The client closes its end, at any time.
HangUp(c) ==
  /\ cli[c] \in {"connected", "sentOk", "sentLarge"}
  /\ cli' = [cli EXCEPT ![c] = "gone"]
  /\ UNCHANGED <<got, backlog, fdtab, avars, jobs, wvars>>

-----------------------------------------------------------------------------
(* The acceptor: while (1) _jobs.add(socket.wait()). *)

FreeFds == {f \in Fds : fdtab[f] = NoConn}

\* accept(2) returns a free descriptor for the oldest connection.
AcceptOk ==
  /\ apc = "accept" /\ backlog # <<>>
  /\ \E f \in FreeFds :
       /\ fdtab' = [fdtab EXCEPT ![f] = Head(backlog)]
       /\ afd' = f
  /\ backlog' = Tail(backlog)
  /\ apc' = "add"
  /\ UNCHANGED <<cvars, jobs, wvars>>

\* accept(2) fails because the client has already left (ECONNABORTED).
AcceptAborted ==
  /\ apc = "accept" /\ backlog # <<>>
  /\ cli[Head(backlog)] = "gone"
  /\ backlog' = Tail(backlog)
  /\ afd' = NoFd
  /\ apc' = "add"
  /\ UNCHANGED <<cvars, fdtab, jobs, wvars>>

\* accept(2) fails for want of a descriptor (EMFILE); the connection stays.
AcceptNoFd ==
  /\ apc = "accept" /\ backlog # <<>>
  /\ FreeFds = {}
  /\ afd' = NoFd
  /\ apc' = "add"
  /\ UNCHANGED <<cvars, backlog, fdtab, jobs, wvars>>

\* Mutant: the notification is sent only when the queue was empty.
AddNotifyIfEmpty ==
  /\ apc = "add"
  /\ IF afd = NoFd
       THEN apc' = "accept" /\ UNCHANGED jobs
       ELSE /\ apc' = IF jobs = <<>> THEN "notify" ELSE "accept"
            /\ jobs' = Append(jobs, afd)
  /\ afd' = NoFd
  /\ UNCHANGED <<cvars, backlog, fdtab, wvars>>

\* Mutant: the result of accept is queued without the test c < 0.
AddUnchecked ==
  /\ apc = "add"
  /\ apc' = "notify"
  /\ jobs' = Append(jobs, afd)
  /\ afd' = NoFd
  /\ UNCHANGED <<cvars, backlog, fdtab, wvars>>

\* Queue::add up to the unlock: a negative descriptor is not queued.
Add ==
  /\ apc = "add"
  /\ IF afd = NoFd
       THEN apc' = "accept" /\ UNCHANGED jobs
       ELSE apc' = "notify" /\ jobs' = Append(jobs, afd)
  /\ afd' = NoFd
  /\ UNCHANGED <<cvars, backlog, fdtab, wvars>>

\* Mutant: nobody is notified.
NotifyNobody ==
  /\ apc = "notify"
  /\ apc' = "accept"
  /\ UNCHANGED <<cvars, backlog, fdtab, afd, jobs, wvars>>

\* _hasNew.notify_one(): some waiting worker, if there is one, wakes up.
Notify ==
  /\ apc = "notify"
  /\ apc' = "accept"
  /\ \/ /\ \A w \in Workers : wpc[w] # "wait"
        /\ UNCHANGED wpc
     \/ \E w \in Workers :
          /\ wpc[w] = "wait"
          /\ wpc' = [wpc EXCEPT ![w] = "get"]
  /\ UNCHANGED <<cvars, backlog, fdtab, afd, jobs, wfd, answ, wrote>>

Acceptor == AcceptOk \/ AcceptAborted \/ AcceptNoFd \/ Add \/ Notify

-----------------------------------------------------------------------------
(* A worker: HttpServer::handle. *)

\* Queue::get with the mutex held: sleep on an empty queue ...
GetWait(w) ==
  /\ wpc[w] = "get" /\ jobs = <<>>
  /\ wpc' = [wpc EXCEPT ![w] = "wait"]
  /\ UNCHANGED <<cvars, backlog, fdtab, avars, jobs, wfd, answ, wrote>>

\* Mutant: the queue is a stack.
GetJobLifo(w) ==
  /\ wpc[w] = "get" /\ jobs # <<>>
  /\ wfd' = [wfd EXCEPT ![w] = jobs[Len(jobs)]]
  /\ jobs' = SubSeq(jobs, 1, Len(jobs) - 1)
  /\ wpc' = [wpc EXCEPT ![w] = "read"]
  /\ answ' = [answ EXCEPT ![w] = NoAnswer]
  /\ wrote' = [wrote EXCEPT ![w] = 0]
  /\ UNCHANGED <<cvars, backlog, fdtab, avars>>

\* ... or take its first descriptor; -1 would end the worker's loop.
GetJob(w) ==
  /\ wpc[w] = "get" /\ jobs # <<>>
  /\ wfd' = [wfd EXCEPT ![w] = Head(jobs)]
  /\ jobs' = Tail(jobs)
  /\ wpc' = [wpc EXCEPT ![w] = IF Head(jobs) = NoFd THEN "exit" ELSE "read"]
  /\ answ' = [answ EXCEPT ![w] = NoAnswer]
  /\ wrote' = [wrote EXCEPT ![w] = 0]
  /\ UNCHANGED <<cvars, backlog, fdtab, avars>>

\* A condition variable may return without a notification.
SpuriousWake(w) ==
  /\ wpc[w] = "wait"
  /\ wpc' = [wpc EXCEPT ![w] = "get"]
  /\ UNCHANGED <<cvars, backlog, fdtab, avars, jobs, wfd, answ, wrote>>

\* Mutant: the answer of the previous connection is kept when getReq throws.
GetReqStale(w) ==
  /\ wpc[w] = "read"
  /\ \/ /\ cli[fdtab[wfd[w]]] \in {"sentOk", "gone"}
        /\ answ' = [answ EXCEPT ![w] = [to |-> fdtab[wfd[w]], status |-> ""]]
        /\ wpc' = [wpc EXCEPT ![w] = "handle"]
     \/ /\ cli[fdtab[wfd[w]]] \in {"sentLarge", "gone"}
        /\ wpc' = [wpc EXCEPT ![w] = "send"]
        /\ UNCHANGED answ
  /\ UNCHANGED <<cvars, backlog, fdtab, avars, jobs, wfd, wrote>>

\* getReq blocks until the client has sent its request or left.  A full
\* buffer is answered 431 and a failed read 500; of a client that left, the
\* request may have arrived whole, in part, or not at all.  The outcome in
\* which the process ends here is HttpReq's.
GetReq(w) ==
  LET c == fdtab[wfd[w]]
      Error(s) == /\ answ' = [answ EXCEPT ![w] = [to |-> c, status |-> s]]
                  /\ wpc' = [wpc EXCEPT ![w] = "send"]
  IN /\ wpc[w] = "read"
     /\ \/ /\ cli[c] \in {"sentOk", "gone"}
           /\ answ' = [answ EXCEPT ![w] = [to |-> c, status |-> ""]]
           /\ wpc' = [wpc EXCEPT ![w] = "handle"]
        \/ cli[c] \in {"sentLarge", "gone"} /\ Error("431")
        \/ cli[c] = "gone" /\ Error("500")
     /\ UNCHANGED <<cvars, backlog, fdtab, avars, jobs, wfd, wrote>>

\* The handler computes an answer or throws (catch (...): 500).
HandleReq(w) ==
  /\ wpc[w] = "handle"
  /\ \E s \in {"200", "500"} : answ' = [answ EXCEPT ![w].status = s]
  /\ wpc' = [wpc EXCEPT ![w] = "send"]
  /\ UNCHANGED <<cvars, backlog, fdtab, avars, jobs, wfd, wrote>>

\* Mutant: the rest of the buffer is taken to be the whole of it each time.
SendPartWhole(w) ==
  /\ wpc[w] = "send" /\ wrote[w] < RespLen
  /\ \E k \in 1..RespLen : wrote' = [wrote EXCEPT ![w] = @ + k]
  /\ UNCHANGED <<cvars, backlog, fdtab, avars, jobs, wpc, wfd, answ>>

\* One write(2) of send: k parts are taken; they reach a client that is there.
SendPart(w) ==
  LET c == fdtab[wfd[w]]
  IN /\ wpc[w] = "send" /\ wrote[w] < RespLen
     /\ \E k \in 1..(RespLen - wrote[w]) :
          /\ wrote' = [wrote EXCEPT ![w] = @ + k]
          /\ got' = IF cli[c] = "gone" THEN got
                    ELSE [got EXCEPT ![c] = @ \o [i \in 1..k |-> answ[w]]]
     /\ UNCHANGED <<cli, backlog, fdtab, avars, jobs, wpc, wfd, answ>>

\* Mutant: a single write is taken to be enough.
SendEndEarly(w) ==
  /\ wpc[w] = "send" /\ wrote[w] > 0
  /\ wpc' = [wpc EXCEPT ![w] = "close"]
  /\ UNCHANGED <<cvars, backlog, fdtab, avars, jobs, wfd, answ, wrote>>

\* Mutant: the exception of a failed write skips close.
SendEndNoClose(w) ==
  /\ wpc[w] = "send"
  /\ \/ wrote[w] = RespLen /\ wpc' = [wpc EXCEPT ![w] = "close"]
     \/ cli[fdtab[wfd[w]]] = "gone" /\ wpc' = [wpc EXCEPT ![w] = "get"]
  /\ UNCHANGED <<cvars, backlog, fdtab, avars, jobs, wfd, answ, wrote>>

\* send returns after the last part, or throws when write fails because the
\* client has left; the exception is logged and both lead to close.
SendEnd(w) ==
  /\ wpc[w] = "send"
  /\ wrote[w] = RespLen \/ cli[fdtab[wfd[w]]] = "gone"
  /\ wpc' = [wpc EXCEPT ![w] = "close"]
  /\ UNCHANGED <<cvars, backlog, fdtab, avars, jobs, wfd, answ, wrote>>

\* close(connection) gives the descriptor back to the process.
Close(w) ==
  /\ wpc[w] = "close"
  /\ fdtab' = [fdtab EXCEPT ![wfd[w]] = NoConn]
  /\ wpc' = [wpc EXCEPT ![w] = "get"]
  /\ UNCHANGED <<cvars, backlog, avars, jobs, wfd, answ, wrote>>

Worker(w) ==
  \/ GetWait(w) \/ GetJob(w) \/ GetReq(w) \/ HandleReq(w)
  \/ SendPart(w) \/ SendEnd(w) \/ Close(w)

-----------------------------------------------------------------------------
Next ==
  \/ \E c \in Conns : Connect(c) \/ SendRequest(c) \/ HangUp(c)
  \/ Acceptor
  \/ \E w \in Workers : Worker(w) \/ SpuriousWake(w)

Spec == Init /\ [][Next]_vars

\* Every thread that can take a step takes one, and a client that connected
\* sends its request or leaves: the server has no timeout of its own.
Fairness ==
  /\ WF_vars(Acceptor)
  /\ \A w \in Workers : WF_vars(Worker(w))
  /\ \A c \in Conns : WF_vars(SendRequest(c) \/ (cli[c] = "connected" /\ HangUp(c)))

FairSpec == Spec /\ Fairness

-----------------------------------------------------------------------------
(* Properties. *)

\* Every variable has its type: the program counters of run() and handle()
\* stay in their states, `connection` and the queue hold descriptors or -1.
TypeOK ==
  /\ cli \in [Conns -> {"idle", "connected", "sentOk", "sentLarge", "gone"}]
  /\ got \in [Conns -> Seq(Answers)]
  /\ backlog \in Seq(Conns)
  /\ fdtab \in [Fds -> Conns \cup {NoConn}]
  /\ apc \in {"accept", "add", "notify"}
  /\ afd \in Fds \cup {NoFd}
  /\ jobs \in Seq(Fds \cup {NoFd})
  /\ wpc \in [Workers -> {"get", "wait", "exit"} \cup Busy]
  /\ wfd \in [Workers -> Fds \cup {NoFd}]
  /\ answ \in [Workers -> Answers]
  /\ wrote \in [Workers -> 0..RespLen]

\* The three places an open descriptor may be in.
InHand(f) == apc = "add" /\ afd = f
InQueue(f) == \E i \in 1..Len(jobs) : jobs[i] = f
HeldBy(w, f) == wpc[w] \in Busy /\ wfd[w] = f

\* A descriptor is open exactly while somebody has it: none leaks on the
\* error paths of handle(), and none is used after close gave it back.
OpenIsHeld ==
  \A f \in Fds :
    fdtab[f] # NoConn <=>
      InHand(f) \/ InQueue(f) \/ \E w \in Workers : HeldBy(w, f)

\* Nobody else has it: not two workers, not a worker and the queue, not the
\* queue twice, although numbers are reused as soon as they are closed.
OneHolder ==
  /\ \A f \in Fds :
       /\ ~(InHand(f) /\ InQueue(f))
       /\ \A w \in Workers : HeldBy(w, f) => ~InHand(f) /\ ~InQueue(f)
  /\ \A i, j \in 1..Len(jobs) : i # j => jobs[i] # jobs[j]
  /\ \A v, w \in Workers, f \in Fds : HeldBy(v, f) /\ HeldBy(w, f) => v = w

\* Each open descriptor has exactly one owner among the acceptor, the queue
\* and the workers, all through accept, add, get, handle and close.
DescriptorOwnership == OpenIsHeld /\ OneHolder

\* While a worker sleeps on the condition variable, every queued descriptor
\* has a worker that is awake to take it, or its notification still to come:
\* notify_one after the unlock in Queue::add and the re-check of the queue in
\* Queue::get lose no wake-up.
Awake == {w \in Workers : wpc[w] = "get"}
Coming == IF apc = "notify" THEN 1 ELSE 0
NoLostWakeup ==
  (\E w \in Workers : wpc[w] = "wait") => Len(jobs) <= Cardinality(Awake) + Coming

\* The pool keeps its size: the -1 of a failed accept never reaches the loop
\* condition of handle(), which would end that thread for good.
NoWorkerExits == \A w \in Workers : wpc[w] # "exit"

\* A client receives parts of a single answer, to the request it sent itself,
\* with the status its request deserves, whatever other connections had the
\* same descriptor or the same worker before.
OwnAnswer ==
  \A c \in Conns : \A i \in 1..Len(got[c]) :
    /\ got[c][i].to = c
    /\ got[c][i] = got[c][1]
    /\ cli[c] = "sentLarge" => got[c][i].status = "431"
    /\ cli[c] = "sentOk" => got[c][i].status \in {"200", "500"}

\* The server is through with a connection: it left the accept queue and its
\* descriptor is closed.
Released(c) ==
  /\ cli[c] # "idle"
  /\ \A i \in 1..Len(backlog) : backlog[i] # c
  /\ \A f \in Fds : fdtab[f] # c

\* The server never lets go of a client that is still there before it has
\* sent it a whole answer: failing accepts, failing reads and handlers that
\* throw included.
CompleteOrGone ==
  \A c \in Conns : Released(c) => Len(got[c]) = RespLen \/ cli[c] = "gone"

\* Every connection the kernel completed is eventually answered and closed,
\* even when descriptors ran out for a while and notifications were early.
Served ==
  \A c \in Conns : cli[c] = "connected" ~> Released(c)

-----------------------------------------------------------------------------
(* The refinement of HttpService: the line of waiting connections is the    *)
(* queue, then what the acceptor has in hand, then the kernel's queue.      *)

Line ==
  [i \in 1..Len(jobs) |-> fdtab[jobs[i]]]
    \o (IF apc = "add" /\ afd # NoFd THEN <<fdtab[afd]>> ELSE <<>>)
    \o backlog

Service == INSTANCE HttpService WITH
  Capacity <- Cardinality(Workers),
  waiting  <- Line,
  serving  <- {fdtab[wfd[w]] : w \in {v \in Workers : wpc[v] \in Busy}},
  received <- [c \in Conns |-> Len(got[c])],
  left     <- {c \in Conns : cli[c] = "gone"}

\* The threads, the queue and the descriptors keep the promise of
\* HttpService: first come first served, one connection per worker, and no
\* connection finished before it is answered or abandoned.
ImplementsService == Service!ServiceSpec
=============================================================================
