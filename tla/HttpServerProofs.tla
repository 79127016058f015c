-------------------------- MODULE HttpServerProofs --------------------------
(***************************************************************************)
(* TLAPS proofs about HttpServer, for any numbers of connections,          *)
(* descriptors and workers: what is queued and what is open, then who is   *)
(* answered what, and the refinement of HttpService.                       *)
(***************************************************************************)
EXTENDS HttpServer, SequenceTheorems, FiniteSetTheorems, TLAPS

\* What the type invariant and the ownership of descriptors need to be
\* inductive: the queue holds descriptors only, never the -1 of a failed
\* accept, and so does `connection` in a worker that is busy with it.
QueueHoldsFds == \A i \in 1..Len(jobs) : jobs[i] \in Fds
BusyHoldsFd == \A w \in Workers : wpc[w] \in Busy => wfd[w] \in Fds

IInv ==
  /\ TypeOK
  /\ QueueHoldsFds
  /\ BusyHoldsFd
  /\ NoWorkerExits
  /\ DescriptorOwnership

-----------------------------------------------------------------------------
\* What Queue::add and Queue::get do to the queue, index by index.
LEMMA AppendIndex ==
  ASSUME NEW S, NEW q \in Seq(S), NEW x \in S
  PROVE  /\ Append(q, x) \in Seq(S)
         /\ Len(Append(q, x)) = Len(q) + 1
         /\ \A i \in 1..Len(q) : Append(q, x)[i] = q[i]
         /\ Append(q, x)[Len(q) + 1] = x
  BY AppendProperties

LEMMA TailIndex ==
  ASSUME NEW S, NEW q \in Seq(S), q # <<>>
  PROVE  /\ Head(q) = q[1] /\ Head(q) \in S
         /\ Tail(q) \in Seq(S)
         /\ Len(q) \in Nat \ {0}
         /\ Len(Tail(q)) = Len(q) - 1
         /\ \A i \in 1..Len(Tail(q)) : Tail(q)[i] = q[i + 1]
  BY HeadTailProperties, EmptySeq, SMT

\* The initial state satisfies the invariant: nothing is open, nobody busy.
LEMMA InitIInv == Init => IInv
  <1> SUFFICES ASSUME Init PROVE IInv OBVIOUS
  <1> USE DEF Init
  <1>1. TypeOK
    <2>1. NoAnswer \in Answers
      BY DEF NoAnswer, Answers, Status
    <2>2. wrote \in [Workers -> 0..RespLen]
      BY RespLenAssumption
    <2>3. \A S : <<>> \in Seq(S)
      BY EmptySeq
    <2> QED BY <2>1, <2>2, <2>3 DEF TypeOK
  <1>2. QueueHoldsFds /\ BusyHoldsFd /\ NoWorkerExits
    BY EmptySeq DEF QueueHoldsFds, BusyHoldsFd, NoWorkerExits, Busy
  <1>3. DescriptorOwnership
    BY EmptySeq DEF DescriptorOwnership, OpenIsHeld, OneHolder, InHand, InQueue,
                    HeldBy, Busy
  <1> QED BY <1>1, <1>2, <1>3 DEF IInv

-----------------------------------------------------------------------------
(* Type correctness of every step. *)

LEMMA ConstantSeq ==
  ASSUME NEW S, NEW e \in S, NEW k \in Nat
  PROVE  [i \in 1..k |-> e] \in Seq(S)
  BY SeqDef

LEMMA TypeStep == IInv /\ [Next]_vars => TypeOK'
  <1> SUFFICES ASSUME IInv, [Next]_vars PROVE TypeOK' OBVIOUS
  <1> USE DEF IInv, TypeOK, cvars, avars, wvars, vars
  <1>1. ASSUME NEW c \in Conns, Connect(c) PROVE TypeOK'
    <2>1. backlog' \in Seq(Conns) BY <1>1, AppendIndex DEF Connect
    <2> QED BY <1>1, <2>1 DEF Connect
  <1>2. ASSUME NEW c \in Conns, SendRequest(c) PROVE TypeOK'
    BY <1>2 DEF SendRequest
  <1>3. ASSUME NEW c \in Conns, HangUp(c) PROVE TypeOK'
    BY <1>3 DEF HangUp
  <1>4. CASE AcceptOk
    <2>1. backlog' \in Seq(Conns) /\ Head(backlog) \in Conns
      BY <1>4, TailIndex DEF AcceptOk
    <2>2. PICK f \in FreeFds : /\ fdtab' = [fdtab EXCEPT ![f] = Head(backlog)]
                              /\ afd' = f
      BY <1>4 DEF AcceptOk
    <2>3. fdtab' \in [Fds -> Conns \cup {NoConn}] /\ afd' \in Fds
      BY <2>1, <2>2 DEF FreeFds
    <2> QED BY <1>4, <2>1, <2>3 DEF AcceptOk
  <1>5. CASE AcceptAborted
    BY <1>5, TailIndex DEF AcceptAborted
  <1>6. CASE AcceptNoFd
    BY <1>6 DEF AcceptNoFd
  <1>7. CASE Add
    <2>1. Append(jobs, afd) \in Seq(Fds \cup {NoFd}) BY AppendIndex
    <2> QED BY <1>7, <2>1 DEF Add
  <1>8. CASE Notify
    BY <1>8 DEF Notify
  <1>9. ASSUME NEW w \in Workers, Worker(w) \/ SpuriousWake(w) PROVE TypeOK'
    <2>1. CASE GetWait(w)
      BY <2>1 DEF GetWait
    <2>2. CASE GetJob(w)
      <3>1. jobs' \in Seq(Fds \cup {NoFd}) /\ Head(jobs) \in Fds \cup {NoFd}
        BY <2>2, TailIndex DEF GetJob
      <3>2. NoAnswer \in Answers
        BY DEF NoAnswer, Answers, Status
      <3>3. wpc' \in [Workers -> {"get", "wait", "exit"} \cup Busy]
        BY <2>2 DEF GetJob, Busy
      <3>4. wrote' \in [Workers -> 0..RespLen]
        BY <2>2, RespLenAssumption DEF GetJob
      <3> QED BY <2>2, <3>1, <3>2, <3>3, <3>4 DEF GetJob
    <2>3. CASE GetReq(w)
      <3>1. fdtab[wfd[w]] \in Conns \cup {NoConn}
        BY <2>3 DEF GetReq, BusyHoldsFd, Busy
      <3>2. \A s \in Status : [to |-> fdtab[wfd[w]], status |-> s] \in Answers
        BY <3>1 DEF Answers
      <3>3. answ' \in [Workers -> Answers]
        BY <2>3, <3>2 DEF GetReq, Status
      <3>4. wpc' \in [Workers -> {"get", "wait", "exit"} \cup Busy]
        BY <2>3 DEF GetReq, Busy
      <3> QED BY <2>3, <3>3, <3>4 DEF GetReq
    <2>4. CASE HandleReq(w)
      <3>1. answ' \in [Workers -> Answers]
        BY <2>4, ZenonT(60) DEF HandleReq, Answers, Status
      <3>2. wpc' \in [Workers -> {"get", "wait", "exit"} \cup Busy]
        BY <2>4 DEF HandleReq, Busy
      <3> QED BY <2>4, <3>1, <3>2 DEF HandleReq
    <2>5. CASE SendPart(w)
      <3> DEFINE c == fdtab[wfd[w]]
      <3>1. PICK k \in 1..(RespLen - wrote[w]) :
              /\ wrote' = [wrote EXCEPT ![w] = @ + k]
              /\ got' = IF cli[c] = "gone" THEN got
                        ELSE [got EXCEPT ![c] = @ \o [i \in 1..k |-> answ[w]]]
        BY <2>5 DEF SendPart
      <3>2. wrote[w] \in 0..RespLen /\ RespLen \in Nat /\ k \in Nat
        BY RespLenAssumption
      <3>3. wrote' \in [Workers -> 0..RespLen]
        BY <3>1, <3>2, SMTT(60)
      <3>4. ASSUME c \in Conns
            PROVE  got[c] \o [i \in 1..k |-> answ[w]] \in Seq(Answers)
        <4>1. [i \in 1..k |-> answ[w]] \in Seq(Answers)
          BY <3>2, ConstantSeq
        <4> QED BY <3>4, <4>1, ConcatProperties
      <3>5. got' \in [Conns -> Seq(Answers)]
        BY <3>1, <3>4
      <3> QED BY <2>5, <3>3, <3>5 DEF SendPart
    <2>6. CASE SendEnd(w)
      BY <2>6 DEF SendEnd, Busy
    <2>7. CASE Close(w)
      BY <2>7 DEF Close
    <2>8. CASE SpuriousWake(w)
      BY <2>8 DEF SpuriousWake
    <2> QED BY <1>9, <2>1, <2>2, <2>3, <2>4, <2>5, <2>6, <2>7, <2>8 DEF Worker
  <1>10. CASE UNCHANGED vars
    BY <1>10
  <1> QED BY <1>1, <1>2, <1>3, <1>4, <1>5, <1>6, <1>7, <1>8, <1>9, <1>10
          DEF Next, Acceptor

-----------------------------------------------------------------------------
(* Ownership.  Most steps only move a worker between the states of Busy, or *)
(* do not concern descriptors at all.                                       *)

Owners == DescriptorOwnership /\ QueueHoldsFds /\ BusyHoldsFd

LEMMA OwnersFrame ==
  ASSUME Owners, UNCHANGED <<fdtab, apc, afd, jobs, wfd>>,
         \A w \in Workers : wpc'[w] \in Busy <=> wpc[w] \in Busy
  PROVE  Owners'
  BY DEF Owners, DescriptorOwnership, QueueHoldsFds, BusyHoldsFd, OpenIsHeld,
         OneHolder, InHand, InQueue, HeldBy

\* accept hands out a descriptor that was free, so nobody else has it.
LEMMA OwnersAcceptOk == IInv /\ AcceptOk => Owners'
  <1> SUFFICES ASSUME IInv, AcceptOk PROVE Owners' OBVIOUS
  <1> USE DEF IInv, TypeOK, DescriptorOwnership
  <1>1. Head(backlog) \in Conns
    BY TailIndex DEF AcceptOk
  <1>2. PICK f \in Fds : /\ fdtab[f] = NoConn
                        /\ fdtab' = [fdtab EXCEPT ![f] = Head(backlog)]
                        /\ afd' = f
    BY DEF AcceptOk, FreeFds
  <1>3. UNCHANGED <<jobs, wpc, wfd>> /\ apc = "accept" /\ apc' = "add"
    BY DEF AcceptOk, wvars
  <1>4. ~InQueue(f) /\ \A w \in Workers : ~HeldBy(w, f)
    BY <1>2 DEF OpenIsHeld
  <1>5. OpenIsHeld'
    BY <1>1, <1>2, <1>3, <1>4, ConnsAssumption
       DEF OpenIsHeld, InHand, InQueue, HeldBy
  <1>6. OneHolder'
    BY <1>2, <1>3, <1>4 DEF OneHolder, InHand, InQueue, HeldBy
  <1>7. QueueHoldsFds' /\ BusyHoldsFd'
    BY <1>3 DEF QueueHoldsFds, BusyHoldsFd
  <1> QED BY <1>5, <1>6, <1>7 DEF Owners

\* A failed accept has no descriptor to own.
LEMMA OwnersAcceptFailed == IInv /\ (AcceptAborted \/ AcceptNoFd) => Owners'
  <1> SUFFICES ASSUME IInv, AcceptAborted \/ AcceptNoFd PROVE Owners' OBVIOUS
  <1>1. /\ UNCHANGED <<fdtab, jobs, wpc, wfd>>
        /\ apc = "accept" /\ apc' = "add" /\ afd' = NoFd
    BY DEF AcceptAborted, AcceptNoFd, wvars
  <1> QED
    BY <1>1, FdsAssumption
       DEF IInv, Owners, DescriptorOwnership, QueueHoldsFds, BusyHoldsFd,
           OpenIsHeld, OneHolder, InHand, InQueue, HeldBy

\* Queue::add moves a descriptor from the acceptor's hand to the queue.
LEMMA OwnersAdd == IInv /\ Add => Owners'
  <1> SUFFICES ASSUME IInv, Add PROVE Owners' OBVIOUS
  <1> USE DEF IInv, TypeOK, DescriptorOwnership
  <1>1. UNCHANGED <<fdtab, wpc, wfd>> /\ apc = "add" /\ apc' # "add"
    BY DEF Add, wvars
  <1>2. CASE afd = NoFd
    BY <1>1, <1>2, FdsAssumption
       DEF Add, Owners, QueueHoldsFds, BusyHoldsFd, OpenIsHeld, OneHolder,
           InHand, InQueue, HeldBy
  <1>3. CASE afd # NoFd
    <2>1. jobs' = Append(jobs, afd) /\ afd \in Fds /\ Len(jobs) \in Nat
      BY <1>3, LenProperties DEF Add
    <2>2. /\ Len(jobs') = Len(jobs) + 1
          /\ \A i \in 1..Len(jobs) : jobs'[i] = jobs[i]
          /\ jobs'[Len(jobs) + 1] = afd
      BY <2>1, AppendIndex
    <2>3. InHand(afd)
      BY <1>1 DEF InHand
    <2>4. ~InQueue(afd) /\ \A w \in Workers : ~HeldBy(w, afd)
      BY <2>1, <2>3 DEF OneHolder
    <2>5. \A f : InQueue(f)' <=> InQueue(f) \/ f = afd
      BY <2>1, <2>2 DEF InQueue
    <2>6. \A f \in Fds : ~InHand(f)' /\ (InHand(f) <=> f = afd)
      BY <1>1 DEF InHand
    <2>7. \A w \in Workers, f \in Fds : HeldBy(w, f)' <=> HeldBy(w, f)
      BY <1>1 DEF HeldBy
    <2>8. OpenIsHeld'
      BY <1>1, <2>5, <2>6, <2>7 DEF OpenIsHeld
    <2>9. \A i, j \in 1..Len(jobs') : i # j => jobs'[i] # jobs'[j]
      <3> SUFFICES ASSUME NEW i \in 1..Len(jobs'), NEW j \in 1..Len(jobs'), i # j
                   PROVE  jobs'[i] # jobs'[j]
        OBVIOUS
      <3>1. CASE i \in 1..Len(jobs) /\ j \in 1..Len(jobs)
        BY <3>1, <2>2 DEF OneHolder
      <3>2. CASE i = Len(jobs) + 1
        <4>1. j \in 1..Len(jobs) BY <3>2, <2>1, <2>2
        <4> QED BY <3>2, <4>1, <2>2, <2>4 DEF InQueue
      <3>3. CASE j = Len(jobs) + 1
        <4>1. i \in 1..Len(jobs) BY <3>3, <2>1, <2>2
        <4> QED BY <3>3, <4>1, <2>2, <2>4 DEF InQueue
      <3> QED BY <3>1, <3>2, <3>3, <2>1, <2>2
    <2>10. OneHolder'
      BY <2>4, <2>5, <2>6, <2>7, <2>9 DEF OneHolder
    <2>11. QueueHoldsFds'
      <3> SUFFICES ASSUME NEW i \in 1..Len(jobs') PROVE jobs'[i] \in Fds
        BY DEF QueueHoldsFds
      <3>1. i \in 1..Len(jobs) \/ i = Len(jobs) + 1 BY <2>1, <2>2
      <3> QED BY <3>1, <2>1, <2>2 DEF QueueHoldsFds
    <2>12. BusyHoldsFd'
      BY <1>1 DEF BusyHoldsFd
    <2> QED BY <2>8, <2>10, <2>11, <2>12 DEF Owners
  <1> QED BY <1>2, <1>3

\* Queue::get moves a descriptor from the queue to a worker that had none.
LEMMA OwnersGetJob ==
  ASSUME IInv, NEW w \in Workers, GetJob(w)
  PROVE  Owners'
  <1> USE DEF IInv, TypeOK, DescriptorOwnership
  <1> DEFINE x == Head(jobs)
  <1>1. /\ x = jobs[1] /\ Len(jobs) \in Nat \ {0}
        /\ Len(jobs') = Len(jobs) - 1
        /\ \A i \in 1..Len(jobs') : jobs'[i] = jobs[i + 1]
    BY TailIndex DEF GetJob
  <1>2. x \in Fds
    BY <1>1 DEF QueueHoldsFds
  <1>3. /\ UNCHANGED <<fdtab, apc, afd>>
        /\ wpc[w] = "get"
        /\ wpc' = [wpc EXCEPT ![w] = "read"]
        /\ wfd' = [wfd EXCEPT ![w] = x]
    BY <1>2, FdsAssumption DEF GetJob, avars
  <1>4. InQueue(x)
    <2>1. 1 \in 1..Len(jobs) BY <1>1
    <2> QED BY <1>1, <2>1 DEF InQueue
  <1>5. ~InHand(x) /\ \A v \in Workers : ~HeldBy(v, x)
    BY <1>2, <1>4 DEF OneHolder
  <1>6. \A f : InQueue(f)' <=> InQueue(f) /\ f # x
    <2> SUFFICES ASSUME NEW f PROVE InQueue(f)' <=> InQueue(f) /\ f # x
      OBVIOUS
    <2>1. ASSUME InQueue(f)' PROVE InQueue(f) /\ f # x
      <3>1. PICK i \in 1..Len(jobs') : jobs'[i] = f
        BY <2>1 DEF InQueue
      <3>2. i + 1 \in 1..Len(jobs) /\ i + 1 # 1 /\ 1 \in 1..Len(jobs)
        BY <1>1
      <3> QED BY <3>1, <3>2, <1>1 DEF InQueue, OneHolder
    <2>2. ASSUME InQueue(f), f # x PROVE InQueue(f)'
      <3>1. PICK i \in 1..Len(jobs) : jobs[i] = f
        BY <2>2 DEF InQueue
      <3>2. i # 1 BY <2>2, <3>1, <1>1
      <3>3. i - 1 \in 1..Len(jobs') /\ (i - 1) + 1 = i
        BY <3>2, <1>1
      <3> QED BY <3>1, <3>3, <1>1 DEF InQueue
    <2> QED BY <2>1, <2>2
  <1>7. \A v \in Workers, f \in Fds :
          HeldBy(v, f)' <=> IF v = w THEN f = x ELSE HeldBy(v, f)
    BY <1>2, <1>3 DEF HeldBy, Busy
  <1>8. \A f \in Fds : ~HeldBy(w, f)
    BY <1>3 DEF HeldBy, Busy
  <1>9. \A f \in Fds : InHand(f)' <=> InHand(f)
    BY <1>3 DEF InHand
  <1>10. OpenIsHeld'
    <2> SUFFICES ASSUME NEW f \in Fds
                 PROVE  fdtab[f] # NoConn <=>
                          \/ InHand(f)' \/ InQueue(f)'
                          \/ \E v \in Workers : HeldBy(v, f)'
      BY <1>3 DEF OpenIsHeld
    <2>1. CASE f = x
      BY <2>1, <1>4, <1>7 DEF OpenIsHeld
    <2>2. CASE f # x
      BY <2>2, <1>6, <1>7, <1>8, <1>9 DEF OpenIsHeld
    <2> QED BY <2>1, <2>2
  <1>11. \A i, j \in 1..Len(jobs') : i # j => jobs'[i] # jobs'[j]
    <2> SUFFICES ASSUME NEW i \in 1..Len(jobs'), NEW j \in 1..Len(jobs'), i # j
                 PROVE  jobs'[i] # jobs'[j]
      OBVIOUS
    <2>1. i + 1 \in 1..Len(jobs) /\ j + 1 \in 1..Len(jobs) /\ i + 1 # j + 1
      BY <1>1
    <2> QED BY <2>1, <1>1 DEF OneHolder
  <1>12. OneHolder'
    BY <1>2, <1>5, <1>6, <1>7, <1>8, <1>9, <1>11 DEF OneHolder
  <1>13. QueueHoldsFds'
    <2> SUFFICES ASSUME NEW i \in 1..Len(jobs') PROVE jobs'[i] \in Fds
      BY DEF QueueHoldsFds
    <2>1. i + 1 \in 1..Len(jobs) BY <1>1
    <2> QED BY <2>1, <1>1 DEF QueueHoldsFds
  <1>14. BusyHoldsFd'
    BY <1>2, <1>3 DEF BusyHoldsFd, Busy
  <1> QED BY <1>10, <1>12, <1>13, <1>14 DEF Owners

\* close frees the descriptor its only holder gives up.
LEMMA OwnersClose ==
  ASSUME IInv, NEW w \in Workers, Close(w)
  PROVE  Owners'
  <1> USE DEF IInv, TypeOK, DescriptorOwnership
  <1> DEFINE x == wfd[w]
  <1>1. /\ UNCHANGED <<apc, afd, jobs, wfd>>
        /\ wpc[w] = "close"
        /\ wpc' = [wpc EXCEPT ![w] = "get"]
        /\ fdtab' = [fdtab EXCEPT ![x] = NoConn]
    BY DEF Close, avars
  <1>2. x \in Fds /\ HeldBy(w, x)
    BY <1>1 DEF BusyHoldsFd, HeldBy, Busy
  <1>3. ~InHand(x) /\ ~InQueue(x) /\ \A v \in Workers : HeldBy(v, x) => v = w
    BY <1>2 DEF OneHolder
  <1>4. \A v \in Workers, f \in Fds : HeldBy(v, f)' <=> HeldBy(v, f) /\ v # w
    BY <1>1 DEF HeldBy, Busy
  <1>5. \A f \in Fds : HeldBy(w, f) => f = x
    BY DEF HeldBy
  <1>6. \A f \in Fds : (InHand(f)' <=> InHand(f)) /\ (InQueue(f)' <=> InQueue(f))
    BY <1>1 DEF InHand, InQueue
  <1>7. OpenIsHeld'
    BY <1>1, <1>2, <1>3, <1>4, <1>5, <1>6 DEF OpenIsHeld
  <1>8. OneHolder'
    BY <1>1, <1>4, <1>6 DEF OneHolder
  <1>9. QueueHoldsFds' /\ BusyHoldsFd'
    BY <1>1 DEF QueueHoldsFds, BusyHoldsFd, Busy
  <1> QED BY <1>7, <1>8, <1>9 DEF Owners

\* GetReq, HandleReq, SendPart and SendEnd keep a busy worker busy with the
\* same descriptor; sleeping and waking up concern idle workers only.
LEMMA OwnersStep == IInv /\ [Next]_vars => Owners'
  <1> SUFFICES ASSUME IInv, [Next]_vars PROVE Owners' OBVIOUS
  <1> USE DEF cvars, avars, wvars, vars
  <1>0. Owners /\ wpc \in [Workers -> {"get", "wait", "exit"} \cup Busy]
    BY DEF IInv, Owners, TypeOK
  <1>1. ASSUME NEW c \in Conns, Connect(c) \/ SendRequest(c) \/ HangUp(c)
        PROVE  Owners'
    BY <1>0, <1>1, OwnersFrame DEF Connect, SendRequest, HangUp
  <1>2. CASE Acceptor
    <2>1. CASE Notify
      <3>1. \A w \in Workers : wpc'[w] \in Busy <=> wpc[w] \in Busy
        BY <1>0, <2>1 DEF Notify, Busy
      <3>2. UNCHANGED <<fdtab, afd, jobs, wfd>> /\ apc # "add" /\ apc' # "add"
        BY <2>1 DEF Notify
      <3> QED BY <1>0, <3>1, <3>2
              DEF Owners, DescriptorOwnership, QueueHoldsFds, BusyHoldsFd,
                  OpenIsHeld, OneHolder, InHand, InQueue, HeldBy
    <2> QED BY <1>2, <2>1, OwnersAcceptOk, OwnersAcceptFailed, OwnersAdd
            DEF Acceptor
  <1>3. ASSUME NEW w \in Workers, Worker(w) \/ SpuriousWake(w)
        PROVE  Owners'
    <2>1. CASE GetWait(w) \/ SpuriousWake(w)
      <3>1. \A v \in Workers : wpc'[v] \in Busy <=> wpc[v] \in Busy
        BY <1>0, <2>1 DEF GetWait, SpuriousWake, Busy
      <3> QED BY <1>0, <2>1, <3>1, OwnersFrame DEF GetWait, SpuriousWake
    <2>2. CASE GetReq(w) \/ HandleReq(w) \/ SendPart(w) \/ SendEnd(w)
      <3>1. \A v \in Workers : wpc'[v] \in Busy <=> wpc[v] \in Busy
        BY <1>0, <2>2 DEF GetReq, HandleReq, SendPart, SendEnd, Busy
      <3> QED BY <1>0, <2>2, <3>1, OwnersFrame
              DEF GetReq, HandleReq, SendPart, SendEnd
    <2> QED BY <1>3, <2>1, <2>2, OwnersGetJob, OwnersClose DEF Worker
  <1>4. CASE UNCHANGED vars
    BY <1>0, <1>4, OwnersFrame
  <1> QED BY <1>1, <1>2, <1>3, <1>4 DEF Next

\* No descriptor in the queue is -1, so no worker leaves its loop.
LEMMA NoExitStep == IInv /\ [Next]_vars => NoWorkerExits'
  <1> SUFFICES ASSUME IInv, [Next]_vars PROVE NoWorkerExits' OBVIOUS
  <1> USE DEF cvars, avars, wvars, vars, IInv, TypeOK, NoWorkerExits
  <1>1. CASE UNCHANGED wpc
    BY <1>1
  <1>2. CASE Notify
    BY <1>2 DEF Notify
  <1>3. ASSUME NEW w \in Workers, Worker(w) \/ SpuriousWake(w), ~UNCHANGED wpc
        PROVE  NoWorkerExits'
    <2>1. ASSUME GetJob(w) PROVE Head(jobs) # NoFd
      <3>1. Head(jobs) = jobs[1] /\ 1 \in 1..Len(jobs)
        BY <2>1, TailIndex DEF GetJob
      <3> QED BY <3>1, FdsAssumption DEF QueueHoldsFds
    <2> QED BY <1>3, <2>1
            DEF Worker, GetWait, GetJob, SpuriousWake, GetReq, HandleReq,
                SendPart, SendEnd, Close
  <1> QED BY <1>1, <1>2, <1>3
          DEF Next, Acceptor, Connect, SendRequest, HangUp, AcceptOk,
              AcceptAborted, AcceptNoFd, Add

LEMMA NextIInv == IInv /\ [Next]_vars => IInv'
  BY TypeStep, OwnersStep, NoExitStep DEF IInv, Owners

THEOREM SpecIInv == Spec => []IInv
  BY InitIInv, NextIInv, PTL DEF Spec

\* The variables keep their types, whatever the numbers of connections,
\* descriptors and workers.
THEOREM TypeCorrect == Spec => []TypeOK
  BY SpecIInv, PTL DEF IInv

\* Each open descriptor has exactly one owner, from accept to close.
THEOREM Ownership == Spec => []DescriptorOwnership
  BY SpecIInv, PTL DEF IInv

\* No failed accept ever ends a thread of the pool.
THEOREM PoolStaysWhole == Spec => []NoWorkerExits
  BY SpecIInv, PTL DEF IInv

-----------------------------------------------------------------------------
(* No wake-up is lost.  The invariant is inductive on top of IInv: a push   *)
(* is paid for by the notification it announces, a notification by the      *)
(* worker it wakes, and a worker only falls asleep on an empty queue.       *)

LEMMA AwakeFinite == IsFiniteSet(Awake) /\ Cardinality(Awake) \in Nat
  <1>1. Awake \in SUBSET Workers BY DEF Awake
  <1> QED BY <1>1, WorkersAssumption, FS_Subset, FS_CardinalityType

\* A worker that starts to wait for the mutex counts as awake.
LEMMA AwakeMore ==
  ASSUME TypeOK, NEW w \in Workers, wpc[w] # "get", wpc' = [wpc EXCEPT ![w] = "get"]
  PROVE  Cardinality(Awake') = Cardinality(Awake) + 1
  <1>1. Awake' = Awake \cup {w} /\ w \notin Awake
    BY DEF Awake, TypeOK
  <1> QED BY <1>1, AwakeFinite, FS_AddElement

\* A worker that takes a job, or falls asleep, no longer does.
LEMMA AwakeLess ==
  ASSUME TypeOK, NEW w \in Workers, wpc[w] = "get",
         NEW s, s # "get", wpc' = [wpc EXCEPT ![w] = s]
  PROVE  Cardinality(Awake') = Cardinality(Awake) - 1
  <1>1. Awake' = Awake \ {w} /\ w \in Awake
    BY DEF Awake, TypeOK
  <1> QED BY <1>1, AwakeFinite, FS_RemoveElement

LEMMA WakeupStep ==
  ASSUME IInv, IInv', NoLostWakeup, [Next]_vars
  PROVE  NoLostWakeup'
  <1> USE DEF cvars, avars, wvars, vars, TypeOK
  <1>0. TypeOK /\ TypeOK' BY DEF IInv
  <1>1. Cardinality(Awake) \in Nat /\ Cardinality(Awake') \in Nat /\ Len(jobs) \in Nat
    <2>1. IsFiniteSet(Awake')
      <3>1. Awake' \in SUBSET Workers BY DEF Awake
      <3> QED BY <3>1, WorkersAssumption, FS_Subset
    <2> QED BY <2>1, <1>0, AwakeFinite, FS_CardinalityType, LenProperties
  <1>2. CASE UNCHANGED <<wpc, jobs, apc>>
    BY <1>2 DEF NoLostWakeup, Awake, Coming
  <1>3. CASE AcceptOk \/ AcceptAborted \/ AcceptNoFd
    <2>1. UNCHANGED <<wpc, jobs>> /\ apc = "accept" /\ apc' = "add"
      BY <1>3 DEF AcceptOk, AcceptAborted, AcceptNoFd
    <2> QED BY <2>1 DEF NoLostWakeup, Awake, Coming
  <1>4. CASE Add
    <2>1. CASE afd = NoFd
      BY <1>4, <2>1 DEF Add, NoLostWakeup, Awake, Coming
    <2>2. CASE afd # NoFd
      <3>1. Len(jobs') = Len(jobs) + 1
        BY <1>0, <1>4, <2>2, AppendIndex DEF Add
      <3>2. UNCHANGED wpc /\ Awake' = Awake
        BY <1>4 DEF Add, Awake
      <3> QED BY <1>1, <1>4, <2>2, <3>1, <3>2 DEF Add, NoLostWakeup, Coming
    <2> QED BY <2>1, <2>2
  <1>5. CASE Notify
    <2>1. CASE UNCHANGED wpc /\ \A w \in Workers : wpc[w] # "wait"
      BY <2>1 DEF NoLostWakeup
    <2>2. ASSUME NEW w \in Workers, wpc[w] = "wait",
                 wpc' = [wpc EXCEPT ![w] = "get"]
          PROVE  NoLostWakeup'
      <3>1. Cardinality(Awake') = Cardinality(Awake) + 1
        BY <1>0, <2>2, AwakeMore
      <3> QED BY <1>1, <1>5, <2>2, <3>1 DEF Notify, NoLostWakeup, Coming
    <2> QED BY <1>5, <2>1, <2>2 DEF Notify
  <1>6. ASSUME NEW w \in Workers, Worker(w) \/ SpuriousWake(w)
        PROVE  NoLostWakeup'
    <2>1. CASE GetWait(w)
      <3>1. jobs' = <<>> /\ Len(jobs') = 0
        BY <2>1, EmptySeq DEF GetWait
      <3> QED BY <1>1, <3>1 DEF NoLostWakeup, Coming
    <2>2. CASE GetJob(w)
      <3>1. wpc' = [wpc EXCEPT ![w] = "read"] /\ wpc[w] = "get"
        BY <2>2, NextIInv DEF GetJob, IInv, NoWorkerExits
      <3>2. Cardinality(Awake') = Cardinality(Awake) - 1
        BY <1>0, <3>1, AwakeLess
      <3>3. Len(jobs') = Len(jobs) - 1
        BY <1>0, <2>2, TailIndex DEF GetJob
      <3>4. \A v \in Workers : wpc'[v] = "wait" => wpc[v] = "wait"
        BY <1>0, <3>1
      <3>5. Coming' = Coming /\ Coming \in Nat
        BY <2>2 DEF GetJob, Coming
      <3> QED BY <1>1, <3>2, <3>3, <3>4, <3>5 DEF NoLostWakeup
    <2>3. CASE SpuriousWake(w) \/ Close(w)
      <3>1. /\ wpc' = [wpc EXCEPT ![w] = "get"] /\ wpc[w] # "get"
            /\ UNCHANGED <<jobs, apc>>
        BY <2>3 DEF SpuriousWake, Close
      <3>2. Cardinality(Awake') = Cardinality(Awake) + 1
        BY <1>0, <3>1, AwakeMore
      <3>3. \A v \in Workers : wpc'[v] = "wait" => wpc[v] = "wait"
        BY <1>0, <3>1
      <3> QED BY <1>1, <3>1, <3>2, <3>3 DEF NoLostWakeup, Coming
    <2>4. CASE GetReq(w) \/ HandleReq(w) \/ SendEnd(w)
      <3>1. UNCHANGED <<jobs, apc>>
        BY <2>4 DEF GetReq, HandleReq, SendEnd
      <3>2. \A v \in Workers : /\ wpc'[v] = "get" <=> wpc[v] = "get"
                               /\ wpc'[v] = "wait" => wpc[v] = "wait"
        BY <1>0, <2>4 DEF GetReq, HandleReq, SendEnd
      <3> QED BY <3>1, <3>2 DEF NoLostWakeup, Awake, Coming
    <2>5. CASE SendPart(w)
      BY <1>2, <2>5 DEF SendPart
    <2> QED BY <1>6, <2>1, <2>2, <2>3, <2>4, <2>5 DEF Worker
  <1> QED BY <1>2, <1>3, <1>4, <1>5, <1>6
          DEF Next, Acceptor, Connect, SendRequest, HangUp

\* While a worker sleeps, each queued descriptor has an awake worker or a
\* notification under way: no wake-up is lost, for any number of threads.
THEOREM WakeupsKept == Spec => []NoLostWakeup
  <1>1. Init => NoLostWakeup
    BY DEF Init, NoLostWakeup
  <1>2. IInv /\ IInv' /\ NoLostWakeup /\ [Next]_vars => NoLostWakeup'
    BY WakeupStep
  <1> QED BY <1>1, <1>2, SpecIInv, PTL DEF Spec

-----------------------------------------------------------------------------
(* Each client is sent its own answer, all of it, and the server implements *)
(* HttpService.                                                              *)

\* The connection worker w is busy with.
ConnOf(w) == fdtab[wfd[w]]

\* A connection is in one place: once in the kernel's queue, or behind one
\* descriptor, or, until its client connects, nowhere.
OnePlace ==
  /\ \A i, j \in 1..Len(backlog) : i # j => backlog[i] # backlog[j]
  /\ \A f, g \in Fds : fdtab[f] # NoConn /\ fdtab[f] = fdtab[g] => f = g
  /\ \A i \in 1..Len(backlog), f \in Fds : backlog[i] # fdtab[f]
  /\ \A c \in Conns : cli[c] = "idle" =>
       /\ \A i \in 1..Len(backlog) : backlog[i] # c
       /\ \A f \in Fds : fdtab[f] # c

\* Nothing is sent to a connection before a worker has handled its request.
Untouched ==
  /\ \A i \in 1..Len(backlog) : got[backlog[i]] = <<>>
  /\ \A f \in Fds : InHand(f) \/ InQueue(f) => got[fdtab[f]] = <<>>
  /\ \A w \in Workers : wpc[w] \in {"read", "handle"} =>
       got[ConnOf(w)] = <<>> /\ wrote[w] = 0
  /\ \A c \in Conns : cli[c] \in {"idle", "connected"} => got[c] = <<>>

\* The answer a worker has is that of its connection, and fits the request.
AnswerFits ==
  /\ \A w \in Workers : wpc[w] \in {"handle", "send", "close"} =>
       cli[ConnOf(w)] \notin {"idle", "connected"} /\ answ[w].to = ConnOf(w)
  /\ \A w \in Workers : wpc[w] = "handle" => cli[ConnOf(w)] # "sentLarge"
  /\ \A w \in Workers : wpc[w] \in {"send", "close"} =>
       /\ cli[ConnOf(w)] = "sentLarge" => answ[w].status = "431"
       /\ cli[ConnOf(w)] = "sentOk" => answ[w].status \in {"200", "500"}

\* What the client has is as much of that answer as was written; a worker
\* gives up only when all is written or the client has left.
PartsOfIt ==
  /\ \A w \in Workers : wpc[w] \in {"send", "close"} =>
       /\ \A i \in 1..Len(got[ConnOf(w)]) : got[ConnOf(w)][i] = answ[w]
       /\ cli[ConnOf(w)] # "gone" => Len(got[ConnOf(w)]) = wrote[w]
  /\ \A w \in Workers : wpc[w] = "close" =>
       wrote[w] = RespLen \/ cli[ConnOf(w)] = "gone"

AInv ==
  /\ OnePlace /\ Untouched /\ AnswerFits /\ PartsOfIt
  /\ OwnAnswer /\ CompleteOrGone

-----------------------------------------------------------------------------
LEMMA InitAInv == Init => AInv
  <1> SUFFICES ASSUME Init PROVE AInv OBVIOUS
  <1> USE EmptySeq DEF Init
  <1>1. OnePlace /\ Untouched /\ AnswerFits /\ PartsOfIt
    BY ConnsAssumption DEF OnePlace, Untouched, AnswerFits, PartsOfIt, InHand, InQueue
  <1>2. OwnAnswer /\ CompleteOrGone
    BY DEF OwnAnswer, CompleteOrGone, Released
  <1> QED BY <1>1, <1>2 DEF AInv

\* Nobody else has the connection of a worker.
LEMMA BusyConn ==
  ASSUME IInv, OnePlace, NEW w \in Workers, wpc[w] \in Busy
  PROVE  /\ wfd[w] \in Fds /\ ConnOf(w) \in Conns
         /\ \A v \in Workers : wpc[v] \in Busy /\ ConnOf(v) = ConnOf(w) => v = w
         /\ \A i \in 1..Len(backlog) : backlog[i] # ConnOf(w)
         /\ \A f \in Fds : InHand(f) \/ InQueue(f) => fdtab[f] # ConnOf(w)
         /\ cli[ConnOf(w)] # "idle"
  <1> USE DEF IInv, TypeOK, BusyHoldsFd, DescriptorOwnership, ConnOf
  <1>1. wfd[w] \in Fds /\ HeldBy(w, wfd[w])
    BY DEF HeldBy
  <1>2. ConnOf(w) \in Conns /\ fdtab[wfd[w]] # NoConn
    BY <1>1 DEF OpenIsHeld
  <1>3. ASSUME NEW v \in Workers, wpc[v] \in Busy, ConnOf(v) = ConnOf(w)
        PROVE  v = w
    <2>1. wfd[v] \in Fds /\ wfd[v] = wfd[w]
      BY <1>1, <1>2, <1>3 DEF OnePlace
    <2> QED BY <1>1, <1>3, <2>1 DEF HeldBy, OneHolder
  <1>4. ASSUME NEW f \in Fds, InHand(f) \/ InQueue(f)
        PROVE  fdtab[f] # ConnOf(w)
    <2>1. f # wfd[w] BY <1>1, <1>4 DEF OneHolder
    <2> QED BY <1>1, <1>2, <2>1 DEF OnePlace
  <1>5. \A i \in 1..Len(backlog) : backlog[i] # ConnOf(w)
    BY <1>1 DEF OnePlace
  <1>6. cli[ConnOf(w)] # "idle"
    BY <1>1, <1>2 DEF OnePlace
  <1> QED BY <1>1, <1>2, <1>3, <1>4, <1>5, <1>6

\* Steps that concern neither clients nor answers: a descriptor may come into
\* the queue from the acceptor's hand.
LEMMA AInvFrame ==
  ASSUME AInv, UNCHANGED <<cli, got, backlog, fdtab, wfd, answ, wrote>>,
         \A w \in Workers : wpc[w] \in Busy \/ wpc'[w] \in Busy => wpc'[w] = wpc[w],
         \A f \in Fds : InHand(f)' \/ InQueue(f)' => InHand(f) \/ InQueue(f)
  PROVE  AInv'
  <1> USE DEF AInv, ConnOf
  <1>1. OnePlace' BY DEF OnePlace
  <1>2. Untouched'
    <2>1. \A f \in Fds : InHand(f)' \/ InQueue(f)' => got'[fdtab'[f]] = <<>>
      BY DEF Untouched
    <2> QED BY <2>1 DEF Untouched, Busy
  <1>3. AnswerFits' BY DEF AnswerFits, Busy
  <1>4. PartsOfIt' BY DEF PartsOfIt, Busy
  <1>5. OwnAnswer' BY DEF OwnAnswer
  <1>6. CompleteOrGone' BY DEF CompleteOrGone, Released
  <1> QED BY <1>1, <1>2, <1>3, <1>4, <1>5, <1>6

-----------------------------------------------------------------------------
(* The clients. *)

LEMMA AInvConnect ==
  ASSUME IInv, AInv, NEW c \in Conns, Connect(c)
  PROVE  AInv'
  <1> USE DEF IInv, TypeOK, cvars, avars, wvars
  <1>1. /\ cli[c] = "idle" /\ cli' = [cli EXCEPT ![c] = "connected"]
        /\ UNCHANGED <<got, fdtab, apc, afd, jobs, wpc, wfd, answ, wrote>>
        /\ backlog' = Append(backlog, c)
    BY DEF Connect
  <1>2. /\ Len(backlog') = Len(backlog) + 1 /\ Len(backlog) \in Nat
        /\ \A i \in 1..Len(backlog) : backlog'[i] = backlog[i]
        /\ backlog'[Len(backlog) + 1] = c
    BY <1>1, AppendIndex, LenProperties
  <1>3. \A i \in 1..Len(backlog') : i \in 1..Len(backlog) \/ i = Len(backlog) + 1
    BY <1>2
  <1>4. got[c] = <<>>
    BY <1>1 DEF AInv, Untouched
  <1>5. (\A i \in 1..Len(backlog) : backlog[i] # c) /\ \A f \in Fds : fdtab[f] # c
    BY <1>1 DEF AInv, OnePlace
  <1>6. \A w \in Workers : wpc[w] \in Busy => ConnOf(w) \in Conns /\ ConnOf(w) # c
    BY <1>5, BusyConn DEF AInv, ConnOf
  <1>7. OnePlace'
    <2>1. ASSUME NEW i \in 1..Len(backlog'), NEW j \in 1..Len(backlog'), i # j
          PROVE  backlog'[i] # backlog'[j]
      <3>1. CASE i \in 1..Len(backlog) /\ j \in 1..Len(backlog)
        BY <3>1, <1>2, <2>1 DEF AInv, OnePlace
      <3>2. CASE i = Len(backlog) + 1
        <4>1. j \in 1..Len(backlog) BY <1>3, <2>1, <3>2
        <4> QED BY <1>2, <1>5, <3>2, <4>1
      <3>3. CASE j = Len(backlog) + 1
        <4>1. i \in 1..Len(backlog) BY <1>3, <2>1, <3>3
        <4> QED BY <1>2, <1>5, <3>3, <4>1
      <3> QED BY <1>3, <3>1, <3>2, <3>3
    <2>2. \A i \in 1..Len(backlog'), f \in Fds : backlog'[i] # fdtab'[f]
      BY <1>1, <1>2, <1>3, <1>5 DEF AInv, OnePlace
    <2>3. \A d \in Conns : cli'[d] = "idle" =>
            /\ \A i \in 1..Len(backlog') : backlog'[i] # d
            /\ \A f \in Fds : fdtab'[f] # d
      BY <1>1, <1>2, <1>3 DEF AInv, OnePlace
    <2> QED BY <1>1, <2>1, <2>2, <2>3 DEF AInv, OnePlace
  <1>8. Untouched'
    <2>1. \A i \in 1..Len(backlog') : got'[backlog'[i]] = <<>>
      BY <1>1, <1>2, <1>3, <1>4 DEF AInv, Untouched
    <2>2. \A d \in Conns : cli'[d] \in {"idle", "connected"} => got'[d] = <<>>
      BY <1>1, <1>4 DEF AInv, Untouched
    <2> QED BY <1>1, <2>1, <2>2 DEF AInv, Untouched, ConnOf, InHand, InQueue
  <1>9. AnswerFits' /\ PartsOfIt'
    BY <1>1, <1>6 DEF AInv, AnswerFits, PartsOfIt, ConnOf, Busy
  <1>10. OwnAnswer'
    BY <1>1 DEF AInv, OwnAnswer
  <1>11. CompleteOrGone'
    <2>1. ~Released(c)'
      <3>1. Len(backlog) + 1 \in 1..Len(backlog') BY <1>2
      <3> QED BY <1>2, <3>1 DEF Released
    <2>2. \A d \in Conns \ {c} : Released(d)' => Released(d)
      BY <1>1, <1>2 DEF Released
    <2> QED BY <1>1, <2>1, <2>2 DEF AInv, CompleteOrGone
  <1> QED BY <1>7, <1>8, <1>9, <1>10, <1>11 DEF AInv

\* A request is sent, or the client leaves, before, while or after it is
\* answered; a client that waits for an answer has sent its request before.
LEMMA AInvClient ==
  ASSUME IInv, AInv, NEW c \in Conns, SendRequest(c) \/ HangUp(c)
  PROVE  AInv'
  <1> USE DEF IInv, TypeOK, cvars, avars, wvars, AInv
  <1>1. /\ cli[c] # "idle"
        /\ UNCHANGED <<got, backlog, fdtab, apc, afd, jobs, wpc, wfd, answ, wrote>>
    BY DEF SendRequest, HangUp
  <1>2. PICK s \in {"sentOk", "sentLarge", "gone"} :
          cli' = [cli EXCEPT ![c] = s] /\ (s # "gone" => cli[c] = "connected")
    BY DEF SendRequest, HangUp
  <1>3. \A d \in Conns : cli'[d] = IF d = c THEN s ELSE cli[d]
    BY <1>2
  <1>4. s # "gone" => got[c] = <<>> /\ Len(got[c]) # RespLen
    BY <1>2, EmptySeq, RespLenAssumption DEF Untouched
  <1>5. \A w \in Workers :
          /\ wpc[w] \in Busy => ConnOf(w) \in Conns
          /\ wpc[w] \in {"handle", "send", "close"} /\ ConnOf(w) = c => s = "gone"
    BY <1>2, BusyConn DEF AnswerFits, Busy
  <1>6. OnePlace'
    BY <1>1, <1>2, <1>3 DEF OnePlace
  <1>7. Untouched'
    <2>1. \A d \in Conns : cli'[d] \in {"idle", "connected"} => got'[d] = <<>>
      BY <1>1, <1>3 DEF Untouched
    <2> QED BY <1>1, <2>1 DEF Untouched, ConnOf, InHand, InQueue
  <1>8. AnswerFits'
    BY <1>1, <1>3, <1>5 DEF AnswerFits, ConnOf, Busy
  <1>9. PartsOfIt'
    BY <1>1, <1>3, <1>5 DEF PartsOfIt, ConnOf, Busy
  <1>10. OwnAnswer'
    <2>1. \A i \in 1..Len(got[c]) : s = "gone"
      BY <1>4, EmptySeq
    <2> QED BY <1>1, <1>3, <2>1 DEF OwnAnswer
  <1>11. CompleteOrGone'
    <2>1. \A d \in Conns : Released(d)' <=> Released(d)
      BY <1>1, <1>2, <1>3 DEF Released
    <2> QED BY <1>1, <1>2, <1>3, <1>4, <2>1 DEF CompleteOrGone
  <1> QED BY <1>6, <1>7, <1>8, <1>9, <1>10, <1>11

-----------------------------------------------------------------------------
(* The acceptor. *)

\* The kernel's queue without its first connection.
LEMMA TailOnePlace ==
  ASSUME IInv, OnePlace, backlog # <<>>
  PROVE  /\ Head(backlog) \in Conns
         /\ 1 \in 1..Len(backlog) /\ Head(backlog) = backlog[1]
         /\ \A i \in 1..Len(Tail(backlog)) :
              i + 1 \in 1..Len(backlog) /\ Tail(backlog)[i] = backlog[i + 1]
         /\ \A i, j \in 1..Len(Tail(backlog)) :
              i # j => Tail(backlog)[i] # Tail(backlog)[j]
         /\ \A i \in 1..Len(Tail(backlog)) : Tail(backlog)[i] # Head(backlog)
         /\ \A i \in 1..Len(backlog) : backlog[i] # Head(backlog) =>
              i - 1 \in 1..Len(Tail(backlog)) /\ Tail(backlog)[i - 1] = backlog[i]
  <1> USE DEF IInv, TypeOK
  <1>1. /\ Head(backlog) = backlog[1] /\ Head(backlog) \in Conns
        /\ Len(backlog) \in Nat \ {0} /\ Len(Tail(backlog)) = Len(backlog) - 1
        /\ \A i \in 1..Len(Tail(backlog)) : Tail(backlog)[i] = backlog[i + 1]
    BY TailIndex
  <1>2. \A i \in 1..Len(Tail(backlog)) :
          i + 1 \in 1..Len(backlog) /\ i + 1 # 1
    BY <1>1
  <1>3. 1 \in 1..Len(backlog)
    BY <1>1
  <1>4. \A i \in 1..Len(Tail(backlog)) : Tail(backlog)[i] # Head(backlog)
    BY <1>1, <1>2, <1>3 DEF OnePlace
  <1>5. \A i, j \in 1..Len(Tail(backlog)) :
          i # j => Tail(backlog)[i] # Tail(backlog)[j]
    <2> SUFFICES ASSUME NEW i \in 1..Len(Tail(backlog)),
                        NEW j \in 1..Len(Tail(backlog)), i # j
                 PROVE  Tail(backlog)[i] # Tail(backlog)[j]
      OBVIOUS
    <2>1. i + 1 # j + 1 OBVIOUS
    <2> QED BY <1>1, <1>2, <2>1 DEF OnePlace
  <1>6. ASSUME NEW i \in 1..Len(backlog), backlog[i] # Head(backlog)
        PROVE  i - 1 \in 1..Len(Tail(backlog)) /\ Tail(backlog)[i - 1] = backlog[i]
    <2>1. i # 1 BY <1>1, <1>6
    <2>2. i - 1 \in 1..Len(Tail(backlog)) /\ (i - 1) + 1 = i BY <1>1, <2>1
    <2> QED BY <1>1, <2>2
  <1> QED BY <1>1, <1>2, <1>3, <1>4, <1>5, <1>6

\* accept moves the connection from the kernel's queue behind a descriptor.
LEMMA AInvAcceptOk == IInv /\ AInv /\ AcceptOk => AInv'
  <1> SUFFICES ASSUME IInv, AInv, AcceptOk PROVE AInv' OBVIOUS
  <1> USE DEF cvars, avars, wvars, AInv
  <1>0. PICK c \in Conns : c = Head(backlog)
    BY TailOnePlace DEF AcceptOk
  <1>1. /\ apc = "accept" /\ backlog # <<>> /\ backlog' = Tail(backlog)
        /\ UNCHANGED <<cli, got, jobs, wpc, wfd, answ, wrote>>
    BY DEF AcceptOk
  <1>2. PICK f \in Fds : /\ fdtab[f] = NoConn /\ afd' = f
                         /\ fdtab' = [fdtab EXCEPT ![f] = c]
    BY <1>0 DEF AcceptOk, FreeFds
  <1>3. \A g \in Fds : fdtab'[g] = IF g = f THEN c ELSE fdtab[g]
    BY <1>2 DEF IInv, TypeOK
  <1>4. \A g \in Fds : fdtab[g] # c
    BY <1>0, <1>1, TailOnePlace DEF OnePlace
  <1>5. \A w \in Workers : wpc[w] \in Busy => wfd[w] # f /\ wfd[w] \in Fds
    BY <1>2 DEF IInv, DescriptorOwnership, OpenIsHeld, HeldBy, BusyHoldsFd
  <1>6. \A w \in Workers : wpc[w] \in Busy => ConnOf(w)' = ConnOf(w)
    BY <1>1, <1>3, <1>5 DEF ConnOf
  <1>7. OnePlace'
    <2>1. \A i, j \in 1..Len(backlog') : i # j => backlog'[i] # backlog'[j]
      BY <1>0, <1>1, TailOnePlace
    <2>2. \A g, h \in Fds : fdtab'[g] # NoConn /\ fdtab'[g] = fdtab'[h] => g = h
      BY <1>3, <1>4 DEF OnePlace
    <2>3. \A i \in 1..Len(backlog'), g \in Fds : backlog'[i] # fdtab'[g]
      BY <1>0, <1>1, <1>3, TailOnePlace DEF OnePlace
    <2>4. \A d \in Conns : cli'[d] = "idle" =>
            /\ \A i \in 1..Len(backlog') : backlog'[i] # d
            /\ \A g \in Fds : fdtab'[g] # d
      BY <1>0, <1>1, <1>3, TailOnePlace DEF OnePlace
    <2> QED BY <2>1, <2>2, <2>3, <2>4 DEF OnePlace
  <1>8. Untouched'
    <2>1. \A i \in 1..Len(backlog') : got'[backlog'[i]] = <<>>
      BY <1>0, <1>1, TailOnePlace DEF Untouched
    <2>2. got[c] = <<>>
      BY <1>0, <1>1, TailOnePlace DEF Untouched
    <2>3. \A g \in Fds : InHand(g)' \/ InQueue(g)' => got'[fdtab'[g]] = <<>>
      BY <1>1, <1>2, <1>3, <2>2 DEF Untouched, InHand, InQueue
    <2> QED BY <1>1, <1>6, <2>1, <2>3 DEF Untouched, Busy
  <1>9. AnswerFits' /\ PartsOfIt'
    BY <1>1, <1>6 DEF AnswerFits, PartsOfIt, Busy
  <1>10. OwnAnswer'
    BY <1>1 DEF OwnAnswer
  <1>11. CompleteOrGone'
    <2>1. ~Released(c)'
      BY <1>2, <1>3 DEF Released
    <2>2. \A d \in Conns : d # c /\ Released(d)' => Released(d)
      <3> SUFFICES ASSUME NEW d \in Conns, d # c, Released(d)'
                   PROVE  Released(d)
        OBVIOUS
      <3>1. cli[d] # "idle" /\ \A i \in 1..Len(backlog) : backlog[i] # d
        BY <1>0, <1>1, TailOnePlace DEF Released
      <3>2. \A g \in Fds : fdtab[g] # d
        BY <1>2, <1>3, ConnsAssumption DEF Released
      <3> QED BY <3>1, <3>2 DEF Released
    <2> QED BY <1>1, <2>1, <2>2 DEF CompleteOrGone
  <1> QED BY <1>7, <1>8, <1>9, <1>10, <1>11

\* A connection that is dropped has lost its client.
LEMMA AInvAcceptAborted == IInv /\ AInv /\ AcceptAborted => AInv'
  <1> SUFFICES ASSUME IInv, AInv, AcceptAborted PROVE AInv' OBVIOUS
  <1> USE DEF cvars, avars, wvars, AInv
  <1> DEFINE c == Head(backlog)
  <1>1. /\ backlog # <<>> /\ backlog' = Tail(backlog) /\ cli[c] = "gone"
        /\ UNCHANGED <<cli, got, fdtab, jobs, wpc, wfd, answ, wrote>>
        /\ afd' = NoFd
    BY DEF AcceptAborted
  <1>2. OnePlace'
    BY <1>1, TailOnePlace DEF OnePlace
  <1>3. Untouched'
    <2>1. \A i \in 1..Len(backlog') : got'[backlog'[i]] = <<>>
      BY <1>1, TailOnePlace DEF Untouched
    <2>2. \A f \in Fds : InHand(f)' \/ InQueue(f)' => InQueue(f)
      BY <1>1, FdsAssumption DEF InHand, InQueue
    <2> QED BY <1>1, <2>1, <2>2 DEF Untouched, ConnOf
  <1>4. AnswerFits' /\ PartsOfIt'
    BY <1>1 DEF AnswerFits, PartsOfIt, ConnOf
  <1>5. OwnAnswer'
    BY <1>1 DEF OwnAnswer
  <1>6. CompleteOrGone'
    <2>1. \A d \in Conns : d # c /\ Released(d)' => Released(d)
      <3> SUFFICES ASSUME NEW d \in Conns, d # c, Released(d)'
                   PROVE  Released(d)
        OBVIOUS
      <3>1. \A i \in 1..Len(backlog) : backlog[i] # d
        BY <1>1, TailOnePlace DEF Released
      <3> QED BY <1>1, <3>1 DEF Released
    <2> QED BY <1>1, <2>1 DEF CompleteOrGone
  <1> QED BY <1>2, <1>3, <1>4, <1>5, <1>6

\* A failed accept with the connection left in line, the hand-over to the
\* queue and its notification.
LEMMA AInvAcceptor == IInv /\ AInv /\ Acceptor => AInv'
  <1> SUFFICES ASSUME IInv, AInv, Acceptor PROVE AInv' OBVIOUS
  <1> USE DEF cvars, avars, wvars
  <1>1. CASE AcceptNoFd
    <2>1. \A f \in Fds : InHand(f)' \/ InQueue(f)' => InQueue(f)
      BY <1>1, FdsAssumption DEF AcceptNoFd, InHand, InQueue
    <2> QED BY <1>1, <2>1, AInvFrame DEF AcceptNoFd
  <1>2. CASE Add
    <2>1. \A f \in Fds : InHand(f)' \/ InQueue(f)' => InHand(f) \/ InQueue(f)
      <3> SUFFICES ASSUME NEW f \in Fds, InQueue(f)' PROVE InHand(f) \/ InQueue(f)
        BY <1>2 DEF Add, InHand
      <3>1. CASE afd = NoFd
        BY <1>2, <3>1 DEF Add, InQueue
      <3>2. CASE afd # NoFd
        <4>1. jobs' = Append(jobs, afd) /\ apc = "add" /\ jobs \in Seq(Fds \cup {NoFd})
          BY <1>2, <3>2 DEF Add, IInv, TypeOK
        <4>2. PICK i \in 1..Len(jobs') : jobs'[i] = f
          BY DEF InQueue
        <4>3. i \in 1..Len(jobs) \/ i = Len(jobs) + 1
          BY <4>1, AppendIndex, LenProperties DEF IInv, TypeOK
        <4> QED BY <4>1, <4>2, <4>3, AppendIndex DEF InHand, InQueue, IInv, TypeOK
      <3> QED BY <3>1, <3>2
    <2> QED BY <1>2, <2>1, AInvFrame DEF Add
  <1>3. CASE Notify
    <2>1. \A w \in Workers : wpc[w] \in Busy \/ wpc'[w] \in Busy => wpc'[w] = wpc[w]
      BY <1>3 DEF Notify, Busy, IInv, TypeOK
    <2>2. \A f \in Fds : InHand(f)' \/ InQueue(f)' => InQueue(f)
      BY <1>3 DEF Notify, InHand, InQueue
    <2> QED BY <1>3, <2>1, <2>2, AInvFrame DEF Notify
  <1> QED BY <1>1, <1>2, <1>3, AInvAcceptOk, AInvAcceptAborted DEF Acceptor

-----------------------------------------------------------------------------
(* A worker. *)

\* The connection a worker takes has been sent nothing.
LEMMA AInvGetJob ==
  ASSUME IInv, AInv, NEW w \in Workers, GetJob(w)
  PROVE  AInv'
  <1> USE DEF cvars, avars, wvars, AInv
  <1>1. PICK x \in Fds : x = Head(jobs) /\ InQueue(x)
    <2>1. Head(jobs) = jobs[1] /\ 1 \in 1..Len(jobs)
      BY TailIndex DEF GetJob, IInv, TypeOK
    <2> QED BY <2>1 DEF IInv, QueueHoldsFds, InQueue
  <1>2. /\ UNCHANGED <<cli, got, backlog, fdtab, apc, afd>>
        /\ wpc' = [wpc EXCEPT ![w] = "read"] /\ wfd' = [wfd EXCEPT ![w] = x]
        /\ wrote' = [wrote EXCEPT ![w] = 0] /\ answ' = [answ EXCEPT ![w] = NoAnswer]
        /\ jobs' = Tail(jobs)
    BY <1>1, FdsAssumption DEF GetJob
  <1>3. \A v \in Workers \ {w} :
          wpc'[v] = wpc[v] /\ answ'[v] = answ[v] /\ wrote'[v] = wrote[v] /\ ConnOf(v)' = ConnOf(v)
    BY <1>2 DEF ConnOf, IInv, TypeOK
  <1>4. wpc'[w] = "read" /\ wrote'[w] = 0 /\ ConnOf(w)' = fdtab[x]
    BY <1>2 DEF ConnOf, IInv, TypeOK
  <1>5. \A f \in Fds : InHand(f)' \/ InQueue(f)' => InHand(f) \/ InQueue(f)
    <2> SUFFICES ASSUME NEW f \in Fds, InQueue(f)' PROVE InQueue(f)
      BY <1>2 DEF InHand
    <2>1. PICK i \in 1..Len(jobs') : jobs'[i] = f
      BY DEF InQueue
    <2>2. i + 1 \in 1..Len(jobs) /\ jobs[i + 1] = f
      BY <1>2, <2>1, TailIndex DEF GetJob, IInv, TypeOK
    <2> QED BY <2>2 DEF InQueue
  <1>6. OnePlace'
    BY <1>2 DEF OnePlace
  <1>7. Untouched'
    <2>1. got[fdtab[x]] = <<>>
      BY <1>1 DEF Untouched
    <2>2. \A v \in Workers : wpc'[v] \in {"read", "handle"} =>
            got'[ConnOf(v)'] = <<>> /\ wrote'[v] = 0
      BY <1>2, <1>3, <1>4, <2>1 DEF Untouched
    <2>3. \A f \in Fds : InHand(f)' \/ InQueue(f)' => got'[fdtab'[f]] = <<>>
      BY <1>2, <1>5 DEF Untouched
    <2> QED BY <1>2, <2>2, <2>3 DEF Untouched
  <1>8. AnswerFits'
    BY <1>2, <1>3, <1>4 DEF AnswerFits
  <1>9. PartsOfIt'
    BY <1>2, <1>3, <1>4 DEF PartsOfIt
  <1>10. OwnAnswer'
    BY <1>2 DEF OwnAnswer
  <1>11. CompleteOrGone'
    BY <1>2 DEF CompleteOrGone, Released
  <1> QED BY <1>6, <1>7, <1>8, <1>9, <1>10, <1>11

\* Only a client that has sent something or left is given an answer, of the
\* status its request deserves.
LEMMA AInvAnswer ==
  ASSUME IInv, AInv, NEW w \in Workers, GetReq(w) \/ HandleReq(w)
  PROVE  AInv'
  <1> USE DEF cvars, avars, wvars, AInv
  <1>1. /\ UNCHANGED <<cli, got, backlog, fdtab, apc, afd, jobs, wfd, wrote>>
        /\ wpc[w] \in {"read", "handle"}
    BY DEF GetReq, HandleReq
  <1>2. ConnOf(w) \in Conns /\ cli[ConnOf(w)] # "idle"
    BY <1>1, BusyConn DEF Busy
  <1>3. got[ConnOf(w)] = <<>> /\ wrote[w] = 0
    BY <1>1 DEF Untouched
  <1>4. /\ \A v \in Workers : ConnOf(v)' = ConnOf(v)
        /\ \A v \in Workers \ {w} : wpc'[v] = wpc[v] /\ answ'[v] = answ[v]
    BY <1>1 DEF ConnOf, GetReq, HandleReq, IInv, TypeOK
  <1>5. /\ wpc'[w] \in {"handle", "send"}
        /\ answ'[w].to = ConnOf(w)
        /\ cli[ConnOf(w)] \notin {"idle", "connected"}
        /\ wpc'[w] = "handle" => cli[ConnOf(w)] # "sentLarge"
        /\ wpc'[w] = "send" =>
             /\ cli[ConnOf(w)] = "sentLarge" => answ'[w].status = "431"
             /\ cli[ConnOf(w)] = "sentOk" => answ'[w].status \in {"200", "500"}
    <2>1. CASE GetReq(w)
      <3>1. ASSUME NEW s \in Status, NEW pc \in {"handle", "send"},
                   answ' = [answ EXCEPT ![w] = [to |-> ConnOf(w), status |-> s]],
                   wpc' = [wpc EXCEPT ![w] = pc]
            PROVE  wpc'[w] = pc /\ answ'[w].to = ConnOf(w) /\ answ'[w].status = s
        BY <3>1 DEF IInv, TypeOK
      <3>2. CASE cli[ConnOf(w)] \in {"sentOk", "gone"} /\ wpc'[w] = "handle"
                   /\ answ'[w].to = ConnOf(w)
        BY <3>2
      <3>3. CASE cli[ConnOf(w)] \in {"sentLarge", "gone"} /\ wpc'[w] = "send"
                   /\ answ'[w].to = ConnOf(w) /\ answ'[w].status = "431"
        BY <3>3
      <3>4. CASE cli[ConnOf(w)] = "gone" /\ wpc'[w] = "send"
                   /\ answ'[w].to = ConnOf(w)
        BY <3>4
      <3> QED BY <2>1, <3>1, <3>2, <3>3, <3>4 DEF GetReq, ConnOf, Status
    <2>2. CASE HandleReq(w)
      <3>1. /\ answ[w].to = ConnOf(w) /\ cli[ConnOf(w)] # "sentLarge"
            /\ cli[ConnOf(w)] \notin {"idle", "connected"}
        BY <2>2 DEF HandleReq, AnswerFits
      <3>2. PICK s \in {"200", "500"} : answ' = [answ EXCEPT ![w].status = s]
        BY <2>2 DEF HandleReq
      <3>3. answ'[w].to = answ[w].to /\ answ'[w].status = s
        BY <3>2 DEF IInv, TypeOK, Answers
      <3> QED BY <2>2, <3>1, <3>2, <3>3 DEF HandleReq, IInv, TypeOK
    <2> QED BY <2>1, <2>2
  <1>6. OnePlace'
    BY <1>1 DEF OnePlace
  <1>7. Untouched'
    <2>1. \A v \in Workers : wpc'[v] \in {"read", "handle"} =>
            got'[ConnOf(v)'] = <<>> /\ wrote'[v] = 0
      BY <1>1, <1>3, <1>4 DEF Untouched
    <2> QED BY <1>1, <2>1 DEF Untouched, InHand, InQueue
  <1>8. AnswerFits'
    BY <1>1, <1>4, <1>5 DEF AnswerFits
  <1>9. PartsOfIt'
    <2>1. wpc'[w] # "close" /\ Len(got[ConnOf(w)]) = 0
      BY <1>3, <1>5, EmptySeq
    <2> QED BY <1>1, <1>3, <1>4, <2>1 DEF PartsOfIt
  <1>10. OwnAnswer'
    BY <1>1 DEF OwnAnswer
  <1>11. CompleteOrGone'
    BY <1>1 DEF CompleteOrGone, Released
  <1> QED BY <1>6, <1>7, <1>8, <1>9, <1>10, <1>11

\* A write adds parts of the same answer to what the client has.
LEMMA AInvSendPart ==
  ASSUME IInv, AInv, NEW w \in Workers, SendPart(w)
  PROVE  AInv'
  <1> USE DEF cvars, avars, wvars, AInv
  <1>1. /\ UNCHANGED <<cli, backlog, fdtab, apc, afd, jobs, wpc, wfd, answ>>
        /\ wpc[w] = "send"
    BY DEF SendPart
  <1>2. PICK c \in Conns : c = ConnOf(w) /\ cli[c] \notin {"idle", "connected"}
    BY <1>1, BusyConn DEF Busy, AnswerFits
  <1>3. PICK k \in 1..(RespLen - wrote[w]) :
          /\ wrote' = [wrote EXCEPT ![w] = @ + k]
          /\ got' = IF cli[c] = "gone" THEN got
                    ELSE [got EXCEPT ![c] = @ \o [i \in 1..k |-> answ[w]]]
    BY <1>2 DEF SendPart, ConnOf
  <1>4. /\ \A v \in Workers : ConnOf(v)' = ConnOf(v)
        /\ \A v \in Workers \ {w} : wrote'[v] = wrote[v]
        /\ wrote'[w] = wrote[w] + k
        /\ \A d \in Conns \ {c} : got'[d] = got[d]
        /\ cli[c] = "gone" => got'[c] = got[c]
    BY <1>1, <1>3 DEF ConnOf, IInv, TypeOK
  <1>5. ASSUME cli[c] # "gone"
        PROVE  /\ Len(got'[c]) = wrote[w] + k
               /\ \A i \in 1..Len(got'[c]) : got'[c][i] = answ[w]
    <2> DEFINE part == [i \in 1..k |-> answ[w]]
    <2>1. got'[c] = got[c] \o part
      BY <1>3, <1>5 DEF IInv, TypeOK
    <2>2. /\ got[c] \in Seq(Answers) /\ Len(got[c]) = wrote[w]
          /\ \A i \in 1..Len(got[c]) : got[c][i] = answ[w]
      BY <1>1, <1>2, <1>5 DEF IInv, TypeOK, PartsOfIt
    <2>3. k \in Nat /\ part \in Seq(Answers) /\ Len(part) = k
      <3>1. k \in Nat BY RespLenAssumption DEF IInv, TypeOK
      <3>2. answ[w] \in Answers BY DEF IInv, TypeOK
      <3> QED BY <3>1, <3>2, ConstantSeq
    <2>4. /\ Len(got'[c]) = Len(got[c]) + k
          /\ \A i \in 1..(Len(got[c]) + k) :
               got'[c][i] = IF i <= Len(got[c]) THEN got[c][i] ELSE part[i - Len(got[c])]
      BY <2>1, <2>2, <2>3, ConcatProperties
    <2>5. Len(got[c]) \in Nat
      BY <2>2, LenProperties
    <2> HIDE DEF part
    <2>6. \A i \in 1..k : part[i] = answ[w]
      BY DEF part
    <2>7. ASSUME NEW i \in 1..Len(got'[c]) PROVE got'[c][i] = answ[w]
      <3>1. CASE i <= Len(got[c])
        <4>1. i \in 1..Len(got[c]) BY <2>4, <2>5, <3>1
        <4> QED BY <2>2, <2>4, <3>1, <4>1
      <3>2. CASE ~(i <= Len(got[c]))
        <4>1. i - Len(got[c]) \in 1..k BY <2>3, <2>4, <2>5, <3>2
        <4> QED BY <2>4, <2>6, <3>2, <4>1
      <3> QED BY <3>1, <3>2
    <2> QED BY <2>2, <2>4, <2>7
  <1>6. \A v \in Workers \ {w} : wpc[v] \in Busy => ConnOf(v) \in Conns \ {c}
    BY <1>1, <1>2, BusyConn DEF Busy
  <1>7. OnePlace'
    BY <1>1 DEF OnePlace
  <1>8. Untouched'
    <2>1. \A i \in 1..Len(backlog) : backlog[i] \in Conns \ {c}
      BY <1>1, <1>2, BusyConn, ElementOfSeq DEF Busy, IInv, TypeOK
    <2>2. \A f \in Fds : InHand(f) \/ InQueue(f) => fdtab[f] \in Conns \ {c}
      BY <1>1, <1>2, BusyConn
         DEF Busy, IInv, TypeOK, DescriptorOwnership, OpenIsHeld
    <2>3. \A v \in Workers : wpc'[v] \in {"read", "handle"} =>
            got'[ConnOf(v)'] = <<>> /\ wrote'[v] = 0
      BY <1>1, <1>4, <1>6 DEF Untouched, Busy
    <2>4. \A d \in Conns : cli'[d] \in {"idle", "connected"} => got'[d] = <<>>
      BY <1>1, <1>2, <1>4 DEF Untouched
    <2> QED BY <1>1, <1>4, <2>1, <2>2, <2>3, <2>4 DEF Untouched, InHand, InQueue
  <1>9. AnswerFits'
    BY <1>1, <1>4 DEF AnswerFits
  <1>10. PartsOfIt'
    <2>1. ASSUME NEW v \in Workers, wpc[v] \in {"send", "close"}
          PROVE  /\ \A i \in 1..Len(got'[ConnOf(v)]) : got'[ConnOf(v)][i] = answ[v]
                 /\ cli[ConnOf(v)] # "gone" => Len(got'[ConnOf(v)]) = wrote'[v]
      <3>1. CASE v = w
        BY <1>2, <1>4, <1>5, <2>1, <3>1 DEF PartsOfIt
      <3>2. CASE v # w
        BY <1>4, <1>6, <2>1, <3>2 DEF PartsOfIt, Busy
      <3> QED BY <3>1, <3>2
    <2>2. \A v \in Workers : wpc[v] = "close" =>
            wrote'[v] = RespLen \/ cli[ConnOf(v)] = "gone"
      BY <1>1, <1>4 DEF PartsOfIt
    <2> QED BY <1>1, <1>4, <2>1, <2>2 DEF PartsOfIt
  <1>11. OwnAnswer'
    <2>1. \A d \in Conns \ {c} : \A i \in 1..Len(got'[d]) :
            /\ got'[d][i].to = d /\ got'[d][i] = got'[d][1]
            /\ cli[d] = "sentLarge" => got'[d][i].status = "431"
            /\ cli[d] = "sentOk" => got'[d][i].status \in {"200", "500"}
      BY <1>4 DEF OwnAnswer
    <2>2. ASSUME NEW i \in 1..Len(got'[c])
          PROVE  /\ got'[c][i].to = c /\ got'[c][i] = got'[c][1]
                 /\ cli[c] = "sentLarge" => got'[c][i].status = "431"
                 /\ cli[c] = "sentOk" => got'[c][i].status \in {"200", "500"}
      <3>1. CASE cli[c] = "gone"
        BY <1>4, <3>1 DEF OwnAnswer
      <3>2. CASE cli[c] # "gone"
        <4>1. got'[c][i] = answ[w]
          BY <1>5, <3>2
        <4>2. got'[c][1] = answ[w]
          <5>1. Len(got'[c]) \in Nat
            BY <1>5, <3>2, RespLenAssumption DEF IInv, TypeOK
          <5>2. 1 \in 1..Len(got'[c]) BY <5>1
          <5> QED BY <1>5, <3>2, <5>2
        <4>3. /\ answ[w].to = c
              /\ cli[c] = "sentLarge" => answ[w].status = "431"
              /\ cli[c] = "sentOk" => answ[w].status \in {"200", "500"}
          BY <1>1, <1>2 DEF AnswerFits
        <4> QED BY <4>1, <4>2, <4>3
      <3> QED BY <3>1, <3>2
    <2> QED BY <1>1, <2>1, <2>2 DEF OwnAnswer
  <1>12. CompleteOrGone'
    <2>1. ~Released(c)
      BY <1>1, <1>2, BusyConn DEF Released, ConnOf, Busy
    <2>2. \A d \in Conns : Released(d)' <=> Released(d)
      BY <1>1 DEF Released
    <2> QED BY <1>1, <1>4, <2>1, <2>2 DEF CompleteOrGone
  <1> QED BY <1>7, <1>8, <1>9, <1>10, <1>11, <1>12

\* send returns when all is written, or throws when the client has left.
LEMMA AInvSendEnd ==
  ASSUME IInv, AInv, NEW w \in Workers, SendEnd(w)
  PROVE  AInv'
  <1> USE DEF cvars, avars, wvars, AInv
  <1>1. /\ UNCHANGED <<cli, got, backlog, fdtab, apc, afd, jobs, wfd, answ, wrote>>
        /\ wpc[w] = "send"
        /\ wrote[w] = RespLen \/ cli[ConnOf(w)] = "gone"
    BY DEF SendEnd, ConnOf
  <1>2. wpc'[w] = "close" /\ \A v \in Workers \ {w} : wpc'[v] = wpc[v]
    BY DEF SendEnd, IInv, TypeOK
  <1>3. \A v \in Workers : ConnOf(v)' = ConnOf(v)
    BY <1>1 DEF ConnOf
  <1>4. OnePlace'
    BY <1>1 DEF OnePlace
  <1>5. Untouched'
    <2>1. \A v \in Workers : wpc'[v] \in {"read", "handle"} => wpc[v] = wpc'[v]
      BY <1>2
    <2> QED BY <1>1, <1>3, <2>1 DEF Untouched, InHand, InQueue
  <1>6. AnswerFits'
    BY <1>1, <1>2, <1>3 DEF AnswerFits
  <1>7. PartsOfIt'
    BY <1>1, <1>2, <1>3 DEF PartsOfIt
  <1>8. OwnAnswer'
    BY <1>1 DEF OwnAnswer
  <1>9. CompleteOrGone'
    BY <1>1 DEF CompleteOrGone, Released
  <1> QED BY <1>4, <1>5, <1>6, <1>7, <1>8, <1>9

\* Only the connection of that worker is let go.
LEMMA AInvClose ==
  ASSUME IInv, AInv, NEW w \in Workers, Close(w)
  PROVE  AInv'
  <1> USE DEF cvars, avars, wvars, AInv
  <1>1. /\ UNCHANGED <<cli, got, backlog, apc, afd, jobs, wfd, answ, wrote>>
        /\ wpc[w] = "close"
    BY DEF Close
  <1>2. wpc'[w] = "get" /\ \A v \in Workers \ {w} : wpc'[v] = wpc[v]
    BY DEF Close, IInv, TypeOK
  <1>3. /\ wfd[w] \in Fds /\ ConnOf(w) \in Conns
        /\ \A v \in Workers : wpc[v] \in Busy /\ ConnOf(v) = ConnOf(w) => v = w
        /\ \A f \in Fds : InHand(f) \/ InQueue(f) => fdtab[f] # ConnOf(w)
    BY <1>1, BusyConn DEF Busy
  <1>4. /\ \A f \in Fds : fdtab'[f] = IF f = wfd[w] THEN NoConn ELSE fdtab[f]
        /\ fdtab[wfd[w]] = ConnOf(w)
    BY DEF Close, ConnOf, IInv, TypeOK
  <1>5. \A v \in Workers \ {w} : wpc[v] \in Busy => ConnOf(v)' = ConnOf(v)
    BY <1>1, <1>3, <1>4 DEF ConnOf, IInv, BusyHoldsFd
  <1>6. OnePlace'
    <2>1. \A i \in 1..Len(backlog) : backlog[i] # NoConn
      BY ConnsAssumption DEF IInv, TypeOK
    <2>2. \A d \in Conns : d # NoConn
      BY ConnsAssumption
    <2> QED BY <1>1, <1>4, <2>1, <2>2 DEF OnePlace
  <1>7. Untouched'
    <2>1. \A f \in Fds : InHand(f) \/ InQueue(f) => fdtab'[f] = fdtab[f]
      BY <1>3, <1>4
    <2>2. \A f \in Fds : (InHand(f)' <=> InHand(f)) /\ (InQueue(f)' <=> InQueue(f))
      BY <1>1 DEF InHand, InQueue
    <2>3. \A f \in Fds : InHand(f)' \/ InQueue(f)' => got'[fdtab'[f]] = <<>>
      BY <1>1, <2>1, <2>2 DEF Untouched
    <2> QED BY <1>1, <1>2, <1>5, <2>3 DEF Untouched, Busy
  <1>8. AnswerFits'
    BY <1>1, <1>2, <1>5 DEF AnswerFits, Busy
  <1>9. PartsOfIt'
    BY <1>1, <1>2, <1>5 DEF PartsOfIt, Busy
  <1>10. OwnAnswer'
    BY <1>1 DEF OwnAnswer
  <1>11. CompleteOrGone'
    <2>1. Len(got[ConnOf(w)]) = RespLen \/ cli[ConnOf(w)] = "gone"
      BY <1>1 DEF PartsOfIt
    <2>2. \A d \in Conns : d # ConnOf(w) /\ Released(d)' => Released(d)
      BY <1>1, <1>4 DEF Released
    <2> QED BY <1>1, <2>1, <2>2 DEF CompleteOrGone
  <1> QED BY <1>6, <1>7, <1>8, <1>9, <1>10, <1>11

LEMMA AInvStep == IInv /\ AInv /\ [Next]_vars => AInv'
  <1> SUFFICES ASSUME IInv, AInv, [Next]_vars PROVE AInv' OBVIOUS
  <1> USE DEF cvars, avars, wvars, vars
  <1>1. ASSUME NEW c \in Conns, Connect(c) \/ SendRequest(c) \/ HangUp(c)
        PROVE  AInv'
    BY <1>1, AInvConnect, AInvClient
  <1>2. ASSUME NEW w \in Workers, Worker(w) \/ SpuriousWake(w)
        PROVE  AInv'
    <2>1. CASE GetWait(w) \/ SpuriousWake(w)
      <3>1. \A v \in Workers : wpc[v] \in Busy \/ wpc'[v] \in Busy => wpc'[v] = wpc[v]
        BY <2>1 DEF GetWait, SpuriousWake, Busy, IInv, TypeOK
      <3>2. UNCHANGED <<cli, got, backlog, fdtab, apc, afd, jobs, wfd, answ, wrote>>
        BY <2>1 DEF GetWait, SpuriousWake
      <3>3. \A f \in Fds : InHand(f)' \/ InQueue(f)' => InHand(f) \/ InQueue(f)
        BY <3>2 DEF InHand, InQueue
      <3> QED BY <3>1, <3>2, <3>3, AInvFrame
    <2> QED BY <1>2, <2>1, AInvGetJob, AInvAnswer, AInvSendPart, AInvSendEnd, AInvClose
            DEF Worker
  <1>3. CASE UNCHANGED vars
    <2>1. \A f \in Fds : InHand(f)' \/ InQueue(f)' => InHand(f) \/ InQueue(f)
      BY <1>3 DEF InHand, InQueue
    <2> QED BY <1>3, <2>1, AInvFrame
  <1> QED BY <1>1, <1>2, <1>3, AInvAcceptor DEF Next

THEOREM SpecAInv == Spec => []AInv
  BY InitAInv, AInvStep, SpecIInv, PTL DEF Spec

\* Whoever had the descriptor or the worker before, a client receives parts
\* of one answer, to its own request and of the status that request deserves.
THEOREM OwnAnswers == Spec => []OwnAnswer
  BY SpecAInv, PTL DEF AInv

\* A connection is let go only when its client has all of its answer, or has
\* left.
THEOREM CompleteAnswers == Spec => []CompleteOrGone
  BY SpecAInv, PTL DEF AInv

-----------------------------------------------------------------------------
(* The refinement of HttpService.  Most steps are invisible to it: a        *)
(* connection that accept takes over, or that Queue::add queues, keeps its  *)
(* place in Line, and reading and handling a request shows only when parts  *)
(* of the answer are written.                                               *)

Queued == [i \in 1..Len(jobs) |-> fdtab[jobs[i]]]
Between == IF apc = "add" /\ afd # NoFd THEN <<fdtab[afd]>> ELSE <<>>
BusyWorkers == {v \in Workers : wpc[v] \in Busy}
Serving == {ConnOf(w) : w \in BusyWorkers}
Gone == {c \in Conns : cli[c] = "gone"}
GotLen == [c \in Conns |-> Len(got[c])]

LEMMA LineParts ==
  /\ Line = (Queued \o Between) \o backlog
  /\ Line' = (Queued' \o Between') \o backlog'
  BY DEF Line, Queued, Between

LEMMA FunctionIsSeq ==
  ASSUME NEW S, NEW k \in Nat, NEW f \in [1..k -> S]
  PROVE  f \in Seq(S) /\ Len(f) = k
  <1>1. f \in Seq(S) BY SeqDef
  <1>2. Len(f) \in Nat /\ DOMAIN f = 1..Len(f) BY <1>1, LenProperties
  <1> QED BY <1>1, <1>2

\* Removing the first element of a sequence that another one precedes.
LEMMA RemoveAfter ==
  ASSUME NEW S, NEW q \in Seq(S), NEW b \in Seq(S), b # <<>>
  PROVE  LET n == Len(q) + 1
         IN /\ n \in 1..Len(q \o b) /\ (q \o b)[n] = Head(b)
            /\ q \o Tail(b) = SubSeq(q \o b, 1, n - 1) \o SubSeq(q \o b, n + 1, Len(q \o b))
  <1> DEFINE n == Len(q) + 1
             z == q \o b
  <1>1. /\ z \in Seq(S) /\ Len(z) = Len(q) + Len(b)
        /\ \A i \in 1..Len(z) : z[i] = IF i <= Len(q) THEN q[i] ELSE b[i - Len(q)]
    BY ConcatProperties
  <1>2. /\ Len(q) \in Nat /\ Len(b) \in Nat \ {0} /\ Len(Tail(b)) = Len(b) - 1
        /\ Tail(b) \in Seq(S) /\ Head(b) = b[1]
        /\ \A i \in 1..Len(Tail(b)) : Tail(b)[i] = b[i + 1]
    BY TailIndex, LenProperties
  <1> HIDE DEF z
  <1>3. n \in 1..Len(z) /\ z[n] = Head(b)
    BY <1>1, <1>2
  <1>4. \A i \in 1..Len(z) : z[i] \in S
    BY <1>1, ElementOfSeq
  <1>5. /\ SubSeq(z, 1, n - 1) \in Seq(S) /\ Len(SubSeq(z, 1, n - 1)) = Len(q)
        /\ \A i \in 1..Len(q) : SubSeq(z, 1, n - 1)[i] = z[i]
    <2>1. \A i \in 1..(n - 1) : z[i] \in S BY <1>1, <1>2, <1>4
    <2>2. 1 \in Int /\ n - 1 \in Int BY <1>2
    <2>3. /\ SubSeq(z, 1, n - 1) \in Seq(S)
          /\ Len(SubSeq(z, 1, n - 1)) = IF 1 <= n - 1 THEN (n - 1) - 1 + 1 ELSE 0
          /\ \A i \in 1..((n - 1) - 1 + 1) : SubSeq(z, 1, n - 1)[i] = z[1 + i - 1]
      BY <2>1, <2>2, SubSeqProperties
    <2> QED BY <1>2, <2>3
  <1>6. /\ SubSeq(z, n + 1, Len(z)) \in Seq(S)
        /\ Len(SubSeq(z, n + 1, Len(z))) = Len(b) - 1
        /\ \A i \in 1..(Len(b) - 1) : SubSeq(z, n + 1, Len(z))[i] = z[n + i]
    <2>1. \A i \in (n + 1)..Len(z) : z[i] \in S BY <1>1, <1>2, <1>4
    <2>2. n + 1 \in Int /\ Len(z) \in Int BY <1>1, <1>2
    <2>3. /\ SubSeq(z, n + 1, Len(z)) \in Seq(S)
          /\ Len(SubSeq(z, n + 1, Len(z))) =
               IF n + 1 <= Len(z) THEN Len(z) - (n + 1) + 1 ELSE 0
          /\ \A i \in 1..(Len(z) - (n + 1) + 1) :
               SubSeq(z, n + 1, Len(z))[i] = z[(n + 1) + i - 1]
      BY <2>1, <2>2, SubSeqProperties
    <2> QED BY <1>1, <1>2, <2>3
  <1> DEFINE l == SubSeq(z, 1, n - 1)
             r == SubSeq(z, n + 1, Len(z))
  <1>7. /\ l \o r \in Seq(S) /\ Len(l \o r) = Len(q) + (Len(b) - 1)
        /\ \A i \in 1..(Len(q) + (Len(b) - 1)) :
             (l \o r)[i] = IF i <= Len(q) THEN l[i] ELSE r[i - Len(q)]
    <2> HIDE DEF l, r
    <2>1. l \in Seq(S) /\ Len(l) = Len(q) /\ r \in Seq(S) /\ Len(r) = Len(b) - 1
      BY <1>5, <1>6 DEF l, r
    <2> QED BY <2>1, ConcatProperties
  <1>8. /\ q \o Tail(b) \in Seq(S) /\ Len(q \o Tail(b)) = Len(q) + (Len(b) - 1)
        /\ \A i \in 1..(Len(q) + (Len(b) - 1)) :
             (q \o Tail(b))[i] = IF i <= Len(q) THEN q[i] ELSE Tail(b)[i - Len(q)]
    BY <1>2, ConcatProperties
  <1>9. ASSUME NEW i \in 1..(Len(q) + (Len(b) - 1))
        PROVE  (q \o Tail(b))[i] = (l \o r)[i]
    <2>1. CASE i <= Len(q)
      <3>1. i \in 1..Len(q) /\ i \in 1..Len(z) BY <1>1, <1>2, <2>1
      <3>2. l[i] = z[i] BY <1>5, <3>1
      <3>3. z[i] = q[i] BY <1>1, <2>1, <3>1
      <3> HIDE DEF l, r
      <3> QED BY <1>7, <1>8, <2>1, <3>2, <3>3
    <2>2. CASE ~(i <= Len(q))
      <3> DEFINE j == i - Len(q)
      <3>1. j \in 1..(Len(b) - 1) /\ n + j \in 1..Len(z) /\ ~(n + j <= Len(q))
            /\ n + j - Len(q) = j + 1
        BY <1>1, <1>2, <2>2
      <3>2. r[j] = z[n + j] BY <1>6, <3>1
      <3>3. z[n + j] = b[j + 1] BY <1>1, <3>1
      <3>4. Tail(b)[j] = b[j + 1] BY <1>2, <3>1
      <3> HIDE DEF l, r
      <3> QED BY <1>7, <1>8, <2>2, <3>2, <3>3, <3>4
    <2> QED BY <2>1, <2>2
  <1>10. q \o Tail(b) = l \o r
    <2> HIDE DEF l, r
    <2> QED BY <1>7, <1>8, <1>9, SeqEqual
  <1> QED BY <1>3, <1>10 DEF z

\* Taking the first element of a sequence that others follow.
LEMMA TakeFirst ==
  ASSUME NEW S, NEW q \in Seq(S), NEW b \in Seq(S), q # <<>>
  PROVE  /\ q \o b # <<>>
         /\ Head(q \o b) = Head(q)
         /\ Tail(q \o b) = Tail(q) \o b
  <1>1. /\ q \o b \in Seq(S) /\ Len(q \o b) = Len(q) + Len(b)
        /\ \A i \in 1..(Len(q) + Len(b)) :
             (q \o b)[i] = IF i <= Len(q) THEN q[i] ELSE b[i - Len(q)]
    BY ConcatProperties
  <1>2. /\ Head(q) = q[1] /\ Tail(q) \in Seq(S)
        /\ Len(q) \in Nat \ {0} /\ Len(Tail(q)) = Len(q) - 1 /\ Len(b) \in Nat
        /\ \A i \in 1..Len(Tail(q)) : Tail(q)[i] = q[i + 1]
    BY TailIndex, LenProperties
  <1>3. q \o b # <<>>
    BY <1>1, <1>2, EmptySeq
  <1>4. /\ Head(q \o b) = (q \o b)[1] /\ Tail(q \o b) \in Seq(S)
        /\ Len(Tail(q \o b)) = Len(q) + Len(b) - 1
        /\ \A i \in 1..Len(Tail(q \o b)) : Tail(q \o b)[i] = (q \o b)[i + 1]
    BY <1>1, <1>3, TailIndex
  <1>5. Head(q \o b) = Head(q)
    <2>1. 1 \in 1..(Len(q) + Len(b)) /\ 1 <= Len(q) BY <1>2
    <2> QED BY <1>1, <1>2, <1>4, <2>1
  <1>6. /\ Tail(q) \o b \in Seq(S) /\ Len(Tail(q) \o b) = Len(q) - 1 + Len(b)
        /\ \A i \in 1..(Len(q) - 1 + Len(b)) :
             (Tail(q) \o b)[i] = IF i <= Len(q) - 1 THEN Tail(q)[i] ELSE b[i - (Len(q) - 1)]
    BY <1>2, ConcatProperties
  <1>7. ASSUME NEW i \in 1..Len(Tail(q \o b))
        PROVE  Tail(q \o b)[i] = (Tail(q) \o b)[i]
    <2>1. /\ i \in 1..(Len(q) - 1 + Len(b)) /\ i + 1 \in 1..(Len(q) + Len(b))
          /\ (i + 1) - Len(q) = i - (Len(q) - 1)
      BY <1>2, <1>4
    <2>2. CASE i <= Len(q) - 1
      <3>1. i \in 1..Len(Tail(q)) /\ i + 1 <= Len(q) BY <1>2, <2>1, <2>2
      <3> QED BY <1>1, <1>2, <1>4, <1>6, <2>1, <2>2, <3>1
    <2>3. CASE ~(i <= Len(q) - 1)
      <3>1. ~(i + 1 <= Len(q)) BY <1>2, <2>1, <2>3
      <3> QED BY <1>1, <1>4, <1>6, <2>1, <2>3, <3>1
    <2> QED BY <2>2, <2>3
  <1>8. Tail(q \o b) = Tail(q) \o b
    <2>1. Len(Tail(q \o b)) = Len(Tail(q) \o b) BY <1>2, <1>4, <1>6
    <2> QED BY <1>4, <1>6, <1>7, <2>1, SeqEqual
  <1> QED BY <1>3, <1>5, <1>8

\* The line holds connections: those behind the descriptors that are queued
\* or in hand, and those of the kernel's queue.
LEMMA LineType ==
  ASSUME IInv
  PROVE  /\ Queued \in Seq(Conns) /\ Len(Queued) = Len(jobs)
         /\ Between \in Seq(Conns) /\ backlog \in Seq(Conns)
         /\ Queued \o Between \in Seq(Conns) /\ Line \in Seq(Conns)
         /\ Len(jobs) \in Nat
  <1> USE DEF IInv, TypeOK
  <1>1. Len(jobs) \in Nat
    BY LenProperties
  <1>2. \A i \in 1..Len(jobs) : fdtab[jobs[i]] \in Conns
    BY DEF QueueHoldsFds, DescriptorOwnership, OpenIsHeld, InQueue
  <1>3. Queued \in [1..Len(jobs) -> Conns]
    BY <1>2 DEF Queued
  <1>4. Queued \in Seq(Conns) /\ Len(Queued) = Len(jobs)
    <2>1. Queued \in Seq(Conns) BY <1>1, <1>3, FunctionIsSeq
    <2>2. DOMAIN Queued = 1..Len(jobs) BY <1>3
    <2> QED BY <1>1, <2>1, <2>2
  <1>5. Between \in Seq(Conns)
    <2>1. CASE apc = "add" /\ afd # NoFd
      <3>1. fdtab[afd] \in Conns
        BY <2>1 DEF DescriptorOwnership, OpenIsHeld, InHand
      <3> QED BY <2>1, <3>1 DEF Between
    <2>2. CASE ~(apc = "add" /\ afd # NoFd)
      BY <2>2, EmptySeq DEF Between
    <2> QED BY <2>1, <2>2
  <1>6. Queued \o Between \in Seq(Conns)
    BY <1>4, <1>5, ConcatProperties
  <1>7. Line \in Seq(Conns)
    BY <1>6, ConcatProperties, LineParts
  <1> QED BY <1>1, <1>4, <1>5, <1>6, <1>7

\* The line only changes where the queue, the acceptor's hand, the kernel's
\* queue or a descriptor in one of them does.
LEMMA QueuedKept ==
  ASSUME IInv, UNCHANGED jobs,
         \A f \in Fds : InQueue(f) => fdtab'[f] = fdtab[f]
  PROVE  Queued' = Queued
  <1>1. \A i \in 1..Len(jobs) : fdtab'[jobs[i]] = fdtab[jobs[i]]
    BY DEF IInv, QueueHoldsFds, InQueue
  <1> QED BY <1>1 DEF Queued

LEMMA ServingKept ==
  ASSUME \A w \in Workers : /\ wpc'[w] \in Busy <=> wpc[w] \in Busy
                            /\ wpc[w] \in Busy => ConnOf(w)' = ConnOf(w)
  PROVE  Serving' = Serving
  BY DEF Serving, BusyWorkers

LEMMA Invisible ==
  ASSUME Line' = Line, Serving' = Serving, UNCHANGED <<cli, got>>
  PROVE  UNCHANGED Service!svars
  BY DEF Service!svars, Serving, BusyWorkers, ConnOf

\* A client connects: its connection is new and goes to the end of the line.
LEMMA MapConnect ==
  ASSUME IInv, AInv, NEW c \in Conns, Connect(c)
  PROVE  Service!Arrive(c)
  <1> USE DEF cvars, avars, wvars
  <1>1. /\ cli[c] = "idle" /\ cli' = [cli EXCEPT ![c] = "connected"]
        /\ UNCHANGED <<got, fdtab, apc, afd, jobs, wpc, wfd, answ, wrote>>
        /\ backlog' = Append(backlog, c)
    BY DEF Connect
  <1>2. (\A i \in 1..Len(backlog) : backlog[i] # c) /\ \A f \in Fds : fdtab[f] # c
    BY <1>1 DEF AInv, OnePlace
  <1>3. \A i \in 1..Len(Line) : Line[i] # c
    <2> SUFFICES ASSUME NEW i \in 1..Len(Line), Line[i] = c PROVE FALSE
      OBVIOUS
    <2> DEFINE front == Queued \o Between
    <2>1. /\ front \in Seq(Conns) /\ backlog \in Seq(Conns) /\ Line = front \o backlog
          /\ Queued \in Seq(Conns) /\ Between \in Seq(Conns)
      BY LineType, LineParts
    <2>2. Len(front) \in Nat /\ Len(backlog) \in Nat /\ Len(Queued) \in Nat
          /\ Len(Between) \in Nat
      BY <2>1, LenProperties
    <2>3. /\ Len(front) = Len(Queued) + Len(Between)
          /\ \A j \in 1..(Len(Queued) + Len(Between)) :
               front[j] = IF j <= Len(Queued) THEN Queued[j] ELSE Between[j - Len(Queued)]
      BY <2>1, ConcatProperties
    <2> HIDE DEF front
    <2>4. /\ Len(Line) = Len(front) + Len(backlog)
          /\ Line[i] = IF i <= Len(front) THEN front[i] ELSE backlog[i - Len(front)]
      BY <2>1, ConcatProperties
    <2>5. CASE ~(i <= Len(front))
      <3>1. i - Len(front) \in 1..Len(backlog) BY <2>2, <2>4, <2>5
      <3> QED BY <1>2, <2>4, <2>5, <3>1
    <2>6. CASE i <= Len(Queued)
      <3>1. i \in 1..Len(jobs) /\ jobs[i] \in Fds /\ i <= Len(front)
            /\ i \in 1..(Len(Queued) + Len(Between))
        BY <2>2, <2>3, <2>6, LineType DEF IInv, QueueHoldsFds
      <3>2. Line[i] = Queued[i]
        BY <2>3, <2>4, <2>6, <3>1
      <3>3. Line[i] = fdtab[jobs[i]] BY <3>1, <3>2 DEF Queued
      <3> QED BY <1>2, <3>1, <3>3
    <2>7. CASE i <= Len(front) /\ ~(i <= Len(Queued))
      <3>1. i \in 1..(Len(Queued) + Len(Between)) /\ i - Len(Queued) \in 1..Len(Between)
        BY <2>2, <2>3, <2>7
      <3>2. Line[i] = Between[i - Len(Queued)]
        BY <2>3, <2>4, <2>7, <3>1
      <3>3. CASE apc = "add" /\ afd # NoFd
        <4>1. Between = <<fdtab[afd]>> /\ afd \in Fds
          BY <3>3 DEF Between, IInv, TypeOK
        <4>2. Len(Between) = 1 /\ Between[1] = fdtab[afd] BY <4>1
        <4>3. i - Len(Queued) = 1 BY <3>1, <4>2
        <4> QED BY <1>2, <3>2, <4>1, <4>2, <4>3
      <3>4. CASE ~(apc = "add" /\ afd # NoFd)
        <4>1. Len(Between) = 0 BY <3>4, EmptySeq DEF Between
        <4> QED BY <3>1, <4>1
      <3> QED BY <3>3, <3>4
    <2> QED BY <2>5, <2>6, <2>7
  <1>4. c \notin Serving
    <2>1. \A w \in Workers : wpc[w] \in Busy => ConnOf(w) # c
      BY <1>2 DEF ConnOf, IInv, BusyHoldsFd
    <2> QED BY <2>1 DEF Serving, BusyWorkers
  <1>5. c \notin Gone /\ GotLen[c] = 0
    <2>1. got[c] = <<>> BY <1>1 DEF AInv, Untouched
    <2> QED BY <1>1, <2>1, EmptySeq DEF Gone, GotLen
  <1>6. Line' = Append(Line, c)
    <2> DEFINE front == Queued \o Between
    <2>1. front' = front BY <1>1 DEF Queued, Between
    <2>2. front \in Seq(Conns) /\ backlog \in Seq(Conns) /\ <<c>> \in Seq(Conns)
      BY LineType
    <2>3. Line' = front \o backlog' /\ Line = front \o backlog
      BY <2>1, LineParts
    <2> HIDE DEF front
    <2>4. backlog' = backlog \o <<c>> /\ front \o backlog \in Seq(Conns)
      BY <1>1, <2>2, AppendIsConcat, ConcatProperties
    <2>5. Append(front \o backlog, c) = (front \o backlog) \o <<c>>
      BY <2>4, AppendIsConcat
    <2> QED BY <2>2, <2>3, <2>4, <2>5, ConcatAssociative
  <1>7. Serving' = Serving
    BY <1>1, ServingKept DEF ConnOf
  <1>8. Gone' = Gone
    BY <1>1 DEF Gone, IInv, TypeOK
  <1>9. ~Service!Waits(c)
    BY <1>3 DEF Service!Waits
  <1> QED BY <1>1, <1>4, <1>5, <1>6, <1>7, <1>8, <1>9
          DEF Service!Arrive, Serving, BusyWorkers, ConnOf, Gone, GotLen

\* A request that is sent is invisible; a client that hangs up leaves.
LEMMA MapClient ==
  ASSUME IInv, NEW c \in Conns, SendRequest(c) \/ HangUp(c)
  PROVE  Service!Leave(c) \/ UNCHANGED Service!svars
  <1> USE DEF cvars, avars, wvars
  <1>1. UNCHANGED <<got, backlog, fdtab, apc, afd, jobs, wpc, wfd, answ, wrote>>
    BY DEF SendRequest, HangUp
  <1>2. Line' = Line
    BY <1>1 DEF Line
  <1>3. Serving' = Serving
    BY <1>1, ServingKept DEF ConnOf
  <1>4. CASE SendRequest(c)
    <2>1. Gone' = Gone
      BY <1>4 DEF SendRequest, Gone, IInv, TypeOK
    <2> QED BY <1>1, <1>2, <1>3, <2>1
            DEF Service!svars, Serving, BusyWorkers, ConnOf, Gone
  <1>5. CASE HangUp(c)
    <2>1. Gone' = Gone \cup {c}
      BY <1>5 DEF HangUp, Gone, IInv, TypeOK
    <2> QED BY <1>1, <1>2, <1>3, <2>1
            DEF Service!Leave, Serving, BusyWorkers, ConnOf, Gone
  <1> QED BY <1>4, <1>5

\* The acceptor moves a connection along the line, without changing the line,
\* or removes one whose client has left.
LEMMA MapAcceptor ==
  ASSUME IInv, AInv, Acceptor
  PROVE  (\E c \in Conns : Service!Drop(c)) \/ UNCHANGED Service!svars
  <1> USE DEF cvars, avars, wvars
  <1>0. /\ Queued \in Seq(Conns) /\ Between \in Seq(Conns) /\ backlog \in Seq(Conns)
        /\ Queued \o Between \in Seq(Conns)
    BY LineType
  <1>1. CASE AcceptOk
    <2>1. /\ apc = "accept" /\ apc' = "add" /\ backlog # <<>> /\ backlog' = Tail(backlog)
          /\ UNCHANGED <<cli, got, jobs, wpc, wfd, answ, wrote>>
      BY <1>1 DEF AcceptOk
    <2>2. PICK f \in Fds : /\ fdtab[f] = NoConn /\ afd' = f
                           /\ fdtab' = [fdtab EXCEPT ![f] = Head(backlog)]
      BY <1>1 DEF AcceptOk, FreeFds
    <2>3. \A g \in Fds : fdtab[g] # NoConn => fdtab'[g] = fdtab[g]
      BY <2>2 DEF IInv, TypeOK
    <2>4. fdtab'[f] = Head(backlog) /\ f # NoFd
      BY <2>2, FdsAssumption DEF IInv, TypeOK
    <2>5. Queued' = Queued
      BY <2>1, <2>3, QueuedKept DEF IInv, DescriptorOwnership, OpenIsHeld
    <2>6. Between = <<>> /\ Between' = <<Head(backlog)>>
      BY <2>1, <2>2, <2>4 DEF Between
    <2>7. Line' = (Queued \o <<Head(backlog)>>) \o Tail(backlog)
          /\ Line = (Queued \o <<>>) \o backlog
      BY <2>1, <2>5, <2>6, LineParts
    <2>8. Line' = Line
      <3>1. Head(backlog) \in Conns /\ Tail(backlog) \in Seq(Conns)
        BY <1>0, <2>1, HeadTailProperties
      <3>2. <<Head(backlog)>> \in Seq(Conns)
        BY <3>1
      <3>3. Line' = Queued \o (<<Head(backlog)>> \o Tail(backlog))
        BY <1>0, <2>7, <3>1, <3>2, ConcatAssociative
      <3>4. <<Head(backlog)>> \o Tail(backlog) = backlog
        <4>1. 1 \in 1..Len(backlog) /\ Len(backlog) \in 1..Len(backlog)
          BY <1>0, <2>1, EmptySeq
        <4>2. SubSeq(backlog, 1, Len(backlog)) =
                <<backlog[1]>> \o SubSeq(backlog, 1 + 1, Len(backlog))
          BY <1>0, <4>1, SubSeqRecursiveFirst
        <4>3. backlog[1] = Head(backlog) /\ Tail(backlog) = SubSeq(backlog, 2, Len(backlog))
          BY <1>0, <2>1, TailIndex, TailIsSubSeq
        <4> QED BY <1>0, <4>2, <4>3, SubSeqFull
      <3> QED BY <1>0, <2>7, <3>3, <3>4, ConcatEmptySeq
    <2>9. Serving' = Serving
      <3>1. \A w \in Workers : wpc[w] \in Busy => ConnOf(w)' = ConnOf(w)
        BY <2>1, <2>3
           DEF ConnOf, IInv, BusyHoldsFd, DescriptorOwnership, OpenIsHeld, HeldBy
      <3> QED BY <2>1, <3>1, ServingKept
    <2> QED BY <2>1, <2>8, <2>9, Invisible
  <1>2. CASE AcceptAborted
    <2>1. /\ apc = "accept" /\ backlog # <<>> /\ backlog' = Tail(backlog) /\ afd' = NoFd
          /\ cli[Head(backlog)] = "gone" /\ Head(backlog) \in Conns
          /\ UNCHANGED <<cli, got, fdtab, jobs, wpc, wfd, answ, wrote>>
      BY <1>0, <1>2, HeadTailProperties DEF AcceptAborted
    <2>2. Between = <<>> /\ Between' = <<>> /\ Queued' = Queued
      BY <2>1 DEF Between, Queued
    <2>3. Queued \o <<>> = Queued
      BY <1>0, ConcatEmptySeq
    <2>4. Line = Queued \o backlog /\ Line' = Queued \o Tail(backlog)
      BY <2>1, <2>2, <2>3, LineParts
    <2>5. LET n == Len(Queued) + 1
          IN /\ n \in 1..Len(Line) /\ Line[n] = Head(backlog)
             /\ Line' = SubSeq(Line, 1, n - 1) \o SubSeq(Line, n + 1, Len(Line))
      BY <1>0, <2>1, <2>4, RemoveAfter
    <2>6. \E i \in 1..Len(Line) :
            /\ Line[i] = Head(backlog)
            /\ Line' = SubSeq(Line, 1, i - 1) \o SubSeq(Line, i + 1, Len(Line))
      BY <2>5
    <2>7. Serving' = Serving
      BY <2>1, ServingKept DEF ConnOf
    <2>8. Head(backlog) \in Gone
      BY <2>1 DEF Gone
    <2>9. Service!Drop(Head(backlog))
      BY <2>1, <2>6, <2>7, <2>8 DEF Service!Drop, Serving, BusyWorkers, ConnOf, Gone
    <2> QED BY <2>1, <2>9
  <1>3. CASE AcceptNoFd
    <2>1. /\ apc = "accept" /\ afd' = NoFd
          /\ UNCHANGED <<cli, got, backlog, fdtab, jobs, wpc, wfd, answ, wrote>>
      BY <1>3 DEF AcceptNoFd
    <2>2. Line' = Line
      BY <2>1 DEF Line
    <2>3. Serving' = Serving
      BY <2>1, ServingKept DEF ConnOf
    <2> QED BY <2>1, <2>2, <2>3, Invisible
  <1>4. CASE Add
    <2>1. /\ apc = "add" /\ apc' # "add"
          /\ UNCHANGED <<cli, got, backlog, fdtab, wpc, wfd, answ, wrote>>
      BY <1>4 DEF Add
    <2>2. Serving' = Serving
      BY <2>1, ServingKept DEF ConnOf
    <2>3. Queued' \o Between' = Queued \o Between
      <3>1. CASE afd = NoFd
        <4>1. UNCHANGED jobs BY <1>4, <3>1 DEF Add
        <4> QED BY <2>1, <3>1, <4>1 DEF Queued, Between
      <3>2. CASE afd # NoFd
        <4>1. jobs' = Append(jobs, afd) /\ jobs \in Seq(Fds \cup {NoFd})
              /\ afd \in Fds \cup {NoFd}
          BY <1>4, <3>2 DEF Add, IInv, TypeOK
        <4>2. /\ Len(jobs') = Len(jobs) + 1 /\ Len(jobs) \in Nat
              /\ \A i \in 1..Len(jobs) : jobs'[i] = jobs[i]
              /\ jobs'[Len(jobs) + 1] = afd
          BY <4>1, AppendIndex, LenProperties
        <4>3. fdtab[afd] \in Conns
          BY <2>1, <3>2 DEF IInv, TypeOK, DescriptorOwnership, OpenIsHeld, InHand
        <4>4. Queued' = [i \in 1..(Len(jobs) + 1) |->
                           IF i = Len(jobs) + 1 THEN fdtab[afd] ELSE Queued[i]]
          BY <2>1, <4>2 DEF Queued
        <4>5. Queued' = Append(Queued, fdtab[afd])
          <5>1. /\ Append(Queued, fdtab[afd]) \in Seq(Conns)
                /\ Len(Append(Queued, fdtab[afd])) = Len(jobs) + 1
                /\ \A i \in 1..Len(jobs) : Append(Queued, fdtab[afd])[i] = Queued[i]
                /\ Append(Queued, fdtab[afd])[Len(jobs) + 1] = fdtab[afd]
            BY <1>0, <4>3, LineType, AppendIndex
          <5>2. \A i \in 1..Len(jobs) : Queued[i] \in Conns
            BY <1>0, LineType, ElementOfSeq
          <5>3. Queued' \in [1..(Len(jobs) + 1) -> Conns] /\ Len(jobs) + 1 \in Nat
            BY <4>2, <4>3, <4>4, <5>2
          <5>4. Queued' \in Seq(Conns) /\ Len(Queued') = Len(jobs) + 1
            BY <5>3, FunctionIsSeq
          <5>5. \A i \in 1..Len(Queued') : Queued'[i] = Append(Queued, fdtab[afd])[i]
            BY <4>2, <4>4, <5>1, <5>4
          <5> QED BY <5>1, <5>4, <5>5, SeqEqual
        <4>6. Between = <<fdtab[afd]>> /\ Between' = <<>>
          BY <2>1, <3>2 DEF Between
        <4>7. Queued' = Queued \o <<fdtab[afd]>> /\ Queued' \in Seq(Conns)
          BY <1>0, <4>3, <4>5, AppendIsConcat, AppendProperties
        <4>8. Queued' \o <<>> = Queued'
          BY <4>7, ConcatEmptySeq
        <4> QED BY <4>6, <4>7, <4>8
      <3> QED BY <3>1, <3>2
    <2>4. Line' = (Queued' \o Between') \o backlog'
      BY LineParts
    <2>5. Line' = Line
      BY <2>1, <2>3, <2>4, LineParts
    <2> QED BY <2>1, <2>2, <2>5, Invisible
  <1>5. CASE Notify
    <2>1. /\ apc # "add" /\ apc' # "add"
          /\ UNCHANGED <<cli, got, backlog, fdtab, afd, jobs, wfd, answ, wrote>>
      BY <1>5 DEF Notify
    <2>2. \A w \in Workers : wpc'[w] \in Busy <=> wpc[w] \in Busy
      BY <1>5 DEF Notify, Busy, IInv, TypeOK
    <2>3. Serving' = Serving
      BY <2>1, <2>2, ServingKept DEF ConnOf
    <2>4. Line' = Line
      BY <2>1 DEF Line
    <2> QED BY <2>1, <2>3, <2>4, Invisible
  <1> QED BY <1>1, <1>2, <1>3, <1>4, <1>5 DEF Acceptor

\* While a worker is idle, fewer connections are served than there are workers.
LEMMA RoomForOne ==
  ASSUME NEW w \in Workers, wpc[w] \notin Busy
  PROVE  Cardinality(Serving) < Cardinality(Workers)
  <1> DEFINE f == [v \in BusyWorkers |-> ConnOf(v)]
  <1>1. IsFiniteSet(Workers \ {w}) /\ Cardinality(Workers \ {w}) = Cardinality(Workers) - 1
        /\ Cardinality(Workers) \in Nat
    BY WorkersAssumption, FS_RemoveElement, FS_CardinalityType
  <1>2. BusyWorkers \in SUBSET (Workers \ {w})
    BY DEF BusyWorkers
  <1>3. IsFiniteSet(BusyWorkers) /\ Cardinality(BusyWorkers) <= Cardinality(Workers \ {w})
    BY <1>1, <1>2, FS_Subset
  <1>4. f \in Surjection(BusyWorkers, Serving)
    BY DEF Surjection, Serving
  <1>5. IsFiniteSet(Serving) /\ Cardinality(Serving) <= Cardinality(BusyWorkers)
    <2> HIDE DEF f
    <2> QED BY <1>3, <1>4, FS_Surjection
  <1>6. Cardinality(Serving) \in Nat /\ Cardinality(BusyWorkers) \in Nat
    BY <1>3, <1>5, FS_CardinalityType
  <1> QED BY <1>1, <1>3, <1>5, <1>6

LEMMA ServiceCardinality == \A S : Service!Cardinality(S) = Cardinality(S)
  BY DEF Service!Cardinality, Cardinality

\* The worker takes the connection that has waited the longest.
LEMMA MapGetJob ==
  ASSUME IInv, NEW w \in Workers, GetJob(w)
  PROVE  Service!Begin
  <1> USE DEF cvars, avars, wvars
  <1>1. /\ jobs \in Seq(Fds \cup {NoFd}) /\ jobs # <<>> /\ jobs' = Tail(jobs)
        /\ wpc[w] = "get"
        /\ UNCHANGED <<cli, got, backlog, fdtab, apc, afd>>
    BY DEF GetJob, IInv, TypeOK
  <1>2. /\ Head(jobs) = jobs[1] /\ Len(jobs) \in Nat \ {0}
        /\ jobs' \in Seq(Fds \cup {NoFd}) /\ Len(jobs') = Len(jobs) - 1
        /\ \A i \in 1..Len(jobs') : jobs'[i] = jobs[i + 1]
    BY <1>1, TailIndex
  <1>3. 1 \in 1..Len(jobs)
    BY <1>2
  <1>4. PICK x \in Fds : x = Head(jobs)
    BY <1>2, <1>3 DEF IInv, QueueHoldsFds
  <1>5. wpc' = [wpc EXCEPT ![w] = "read"] /\ wfd' = [wfd EXCEPT ![w] = x]
    BY <1>4, FdsAssumption DEF GetJob
  <1>6. /\ Queued \in Seq(Conns) /\ Len(Queued) = Len(jobs) /\ Between \in Seq(Conns)
        /\ backlog \in Seq(Conns) /\ Queued \o Between \in Seq(Conns)
    BY LineType
  <1>7. Queued # <<>> /\ Head(Queued) = fdtab[x]
    <2>1. Queued # <<>> BY <1>2, <1>6, EmptySeq
    <2>2. Head(Queued) = Queued[1] BY <1>6, <2>1, TailIndex
    <2> QED BY <1>2, <1>3, <1>4, <2>1, <2>2 DEF Queued
  <1>8. Tail(Queued) = Queued'
    <2>1. /\ Tail(Queued) \in Seq(Conns) /\ Len(Tail(Queued)) = Len(jobs')
          /\ \A i \in 1..Len(jobs') : Tail(Queued)[i] = Queued[i + 1]
      BY <1>2, <1>6, <1>7, TailIndex
    <2>2. \A i \in 1..Len(jobs') : i + 1 \in 1..Len(jobs)
      BY <1>2
    <2>3. \A i \in 1..Len(jobs') : Queued[i + 1] = fdtab'[jobs'[i]]
      BY <1>1, <1>2, <2>2 DEF Queued
    <2>4. Queued' = [i \in 1..Len(jobs') |-> Tail(Queued)[i]]
      BY <2>1, <2>3 DEF Queued
    <2>5. Tail(Queued) \in [1..Len(jobs') -> Conns]
      BY <2>1, LenProperties
    <2> QED BY <2>4, <2>5
  <1>9. Line # <<>> /\ Head(Line) = fdtab[x] /\ Line' = Tail(Line)
    <2>1. Between \o backlog \in Seq(Conns)
      BY <1>6, ConcatProperties
    <2>2. Line = Queued \o (Between \o backlog)
      <3>1. (Queued \o Between) \o backlog = Queued \o (Between \o backlog)
        BY ONLY <1>6, ConcatAssociative, SMTT(60)
      <3> QED BY <3>1, LineParts
    <2>3. Line # <<>> /\ Head(Line) = Head(Queued) /\ Tail(Line) = Tail(Queued) \o (Between \o backlog)
      BY <1>6, <1>7, <2>1, <2>2, TakeFirst
    <2>4. Tail(Queued) \in Seq(Conns) /\ Between' = Between
      BY <1>1, <1>6, <1>7, HeadTailProperties DEF Between
    <2>5. Line' = (Tail(Queued) \o Between) \o backlog
      BY <1>1, <1>8, <2>4, LineParts
    <2>6. (Tail(Queued) \o Between) \o backlog = Tail(Queued) \o (Between \o backlog)
      BY ONLY <1>6, <2>4, ConcatAssociative, SMTT(60)
    <2> QED BY <1>7, <2>3, <2>5, <2>6
  <1>10. Serving' = Serving \cup {fdtab[x]}
    <2>1. BusyWorkers' = BusyWorkers \cup {w} /\ w \notin BusyWorkers
      BY <1>1, <1>5 DEF BusyWorkers, Busy, IInv, TypeOK
    <2>2. ConnOf(w)' = fdtab[x] /\ \A v \in BusyWorkers : ConnOf(v)' = ConnOf(v)
      BY <1>1, <1>5, <2>1 DEF ConnOf, IInv, TypeOK
    <2>3. Serving' = {ConnOf(v)' : v \in BusyWorkers'}
      BY DEF Serving
    <2> QED BY <2>1, <2>2, <2>3 DEF Serving
  <1>11. Cardinality(Serving) < Cardinality(Workers)
    BY <1>1, RoomForOne DEF Busy
  <1>12. Gone' = Gone /\ GotLen' = GotLen
    BY <1>1 DEF Gone, GotLen
  <1>13. Serving' = Serving \cup {Head(Line)}
    BY <1>9, <1>10
  <1> QED BY <1>9, <1>11, <1>12, <1>13, ServiceCardinality
          DEF Service!Begin, Serving, BusyWorkers, ConnOf, Gone, GotLen

\* Parts written to a client that is there are delivered.
LEMMA MapSendPart ==
  ASSUME IInv, AInv, NEW w \in Workers, SendPart(w)
  PROVE  (\E c \in Conns : Service!Deliver(c)) \/ UNCHANGED Service!svars
  <1> USE DEF cvars, avars, wvars
  <1>1. /\ UNCHANGED <<cli, backlog, fdtab, apc, afd, jobs, wpc, wfd, answ>>
        /\ wpc[w] = "send"
    BY DEF SendPart
  <1>2. Line' = Line
    BY <1>1 DEF Line
  <1>3. Serving' = Serving
    BY <1>1, ServingKept DEF ConnOf
  <1>4. PICK c \in Conns : c = ConnOf(w)
    BY <1>1, BusyConn DEF Busy, AInv
  <1>5. PICK k \in 1..(RespLen - wrote[w]) :
          got' = IF cli[c] = "gone" THEN got
                 ELSE [got EXCEPT ![c] = @ \o [i \in 1..k |-> answ[w]]]
    BY <1>4 DEF SendPart, ConnOf
  <1>6. CASE cli[c] = "gone"
    <2>1. UNCHANGED <<cli, got>> BY <1>1, <1>5, <1>6
    <2> QED BY <1>2, <1>3, <2>1, Invisible
  <1>7. CASE cli[c] # "gone"
    <2> DEFINE part == [i \in 1..k |-> answ[w]]
    <2>1. Len(got[c]) = wrote[w]
      BY <1>1, <1>4, <1>7 DEF AInv, PartsOfIt
    <2>2. k \in 1..(RespLen - Len(got[c])) /\ k \in Nat
      BY <1>5, <2>1, RespLenAssumption DEF IInv, TypeOK
    <2>3. part \in Seq(Answers) /\ Len(part) = k /\ got[c] \in Seq(Answers)
      <3>1. part \in [1..k -> Answers] BY DEF IInv, TypeOK
      <3> HIDE DEF part
      <3> QED BY <2>2, <3>1, FunctionIsSeq DEF IInv, TypeOK
    <2> HIDE DEF part
    <2>4. got' = [got EXCEPT ![c] = @ \o part]
      BY <1>5, <1>7 DEF part
    <2>5. Len(got[c] \o part) = Len(got[c]) + k
      BY <2>3, ConcatProperties
    <2>6. GotLen' = [GotLen EXCEPT ![c] = @ + k]
      BY <2>4, <2>5 DEF GotLen, IInv, TypeOK
    <2>7. GotLen[c] = Len(got[c])
      BY DEF GotLen
    <2>8. c \in Serving /\ c \notin Gone
      BY <1>1, <1>4, <1>7 DEF Serving, BusyWorkers, Busy, Gone
    <2>9. Gone' = Gone
      BY <1>1 DEF Gone
    <2>10. Service!Deliver(c)
      BY <1>2, <1>3, <2>2, <2>6, <2>7, <2>8, <2>9
         DEF Service!Deliver, Serving, BusyWorkers, ConnOf, Gone, GotLen
    <2> QED BY <2>10
  <1> QED BY <1>6, <1>7

\* The connection a worker closes is the one it served, and it is finished.
LEMMA MapClose ==
  ASSUME IInv, AInv, NEW w \in Workers, Close(w)
  PROVE  \E c \in Conns : Service!Finish(c)
  <1> USE DEF cvars, avars, wvars
  <1>1. /\ UNCHANGED <<cli, got, backlog, apc, afd, jobs, wfd>> /\ wpc[w] = "close"
        /\ fdtab' = [fdtab EXCEPT ![wfd[w]] = NoConn]
        /\ wpc' = [wpc EXCEPT ![w] = "get"]
    BY DEF Close
  <1>2. /\ wfd[w] \in Fds
        /\ \A v \in Workers : wpc[v] \in Busy /\ ConnOf(v) = ConnOf(w) => v = w
        /\ \A f \in Fds : InHand(f) \/ InQueue(f) => fdtab[f] # ConnOf(w)
    BY <1>1, BusyConn DEF Busy, AInv
  <1>3. PICK c \in Conns : c = ConnOf(w)
    BY <1>1, BusyConn DEF Busy, AInv
  <1>4. \A f \in Fds : fdtab'[f] = IF f = wfd[w] THEN NoConn ELSE fdtab[f]
    BY <1>1 DEF IInv, TypeOK
  <1>5. fdtab[wfd[w]] = c
    BY <1>3 DEF ConnOf
  <1>6. \A f \in Fds : InHand(f) \/ InQueue(f) => fdtab'[f] = fdtab[f]
    BY <1>2, <1>3, <1>4, <1>5
  <1>7. Line' = Line
    <2>1. Queued' = Queued
      BY <1>1, <1>6, QueuedKept
    <2>2. Between' = Between
      <3>1. CASE apc = "add" /\ afd # NoFd
        BY <1>1, <1>6, <3>1 DEF Between, InHand, IInv, TypeOK
      <3>2. CASE ~(apc = "add" /\ afd # NoFd)
        BY <1>1, <3>2 DEF Between
      <3> QED BY <3>1, <3>2
    <2> QED BY <1>1, <2>1, <2>2, LineParts
  <1>8. Serving' = Serving \ {c}
    <2>1. BusyWorkers' = BusyWorkers \ {w} /\ w \in BusyWorkers
      BY <1>1 DEF BusyWorkers, Busy, IInv, TypeOK
    <2>2. \A v \in BusyWorkers \ {w} : ConnOf(v) # c /\ ConnOf(v)' = ConnOf(v)
      <3> SUFFICES ASSUME NEW v \in BusyWorkers \ {w}
                   PROVE  ConnOf(v) # c /\ ConnOf(v)' = ConnOf(v)
        OBVIOUS
      <3>1. ConnOf(v) # c /\ wfd[v] \in Fds
        BY <1>2, <1>3 DEF BusyWorkers, IInv, BusyHoldsFd
      <3> QED BY <1>1, <1>4, <1>5, <3>1 DEF ConnOf
    <2>3. Serving' = {ConnOf(v)' : v \in BusyWorkers'}
      BY DEF Serving
    <2> QED BY <1>3, <2>1, <2>2, <2>3 DEF Serving
  <1>9. GotLen[c] = RespLen \/ c \in Gone
    <2>1. wrote[w] = RespLen \/ cli[c] = "gone"
      BY <1>1, <1>3 DEF AInv, PartsOfIt
    <2>2. cli[c] # "gone" => Len(got[c]) = wrote[w]
      BY <1>1, <1>3 DEF AInv, PartsOfIt
    <2> QED BY <2>1, <2>2 DEF GotLen, Gone
  <1>10. c \in Serving
    BY <1>1, <1>3 DEF Serving, BusyWorkers, Busy
  <1>11. Gone' = Gone /\ GotLen' = GotLen
    BY <1>1 DEF Gone, GotLen
  <1> QED BY <1>7, <1>8, <1>9, <1>10, <1>11
          DEF Service!Finish, Serving, BusyWorkers, ConnOf, Gone, GotLen

LEMMA MapStep ==
  ASSUME IInv, AInv, [Next]_vars
  PROVE  Service!SNext \/ UNCHANGED Service!svars
  <1> USE DEF cvars, avars, wvars, vars
  <1>1. ASSUME NEW c \in Conns, Connect(c) \/ SendRequest(c) \/ HangUp(c)
        PROVE  Service!SNext \/ UNCHANGED Service!svars
    <2>1. CASE Connect(c)
      BY <2>1, MapConnect DEF Service!SNext
    <2>2. CASE SendRequest(c) \/ HangUp(c)
      BY <2>2, MapClient DEF Service!SNext
    <2> QED BY <1>1, <2>1, <2>2
  <1>2. CASE Acceptor
    BY <1>2, MapAcceptor DEF Service!SNext
  <1>3. ASSUME NEW w \in Workers, Worker(w) \/ SpuriousWake(w)
        PROVE  Service!SNext \/ UNCHANGED Service!svars
    <2>1. CASE GetWait(w) \/ SpuriousWake(w) \/ GetReq(w) \/ HandleReq(w) \/ SendEnd(w)
      <3>1. UNCHANGED <<cli, got, backlog, fdtab, apc, afd, jobs, wfd>>
        BY <2>1 DEF GetWait, SpuriousWake, GetReq, HandleReq, SendEnd
      <3>2. \A v \in Workers : wpc'[v] \in Busy <=> wpc[v] \in Busy
        BY <2>1 DEF GetWait, SpuriousWake, GetReq, HandleReq, SendEnd, Busy, IInv, TypeOK
      <3>3. Serving' = Serving
        BY <3>1, <3>2, ServingKept DEF ConnOf
      <3>4. Line' = Line
        BY <3>1 DEF Line
      <3> QED BY <3>1, <3>3, <3>4, Invisible
    <2>2. CASE GetJob(w)
      BY <2>2, MapGetJob DEF Service!SNext
    <2>3. CASE SendPart(w)
      BY <2>3, MapSendPart DEF Service!SNext
    <2>4. CASE Close(w)
      BY <2>4, MapClose DEF Service!SNext
    <2> QED BY <1>3, <2>1, <2>2, <2>3, <2>4 DEF Worker
  <1>4. CASE UNCHANGED vars
    BY <1>4 DEF Service!svars, Line
  <1> QED BY <1>1, <1>2, <1>3, <1>4 DEF Next

LEMMA MapInit == Init => Service!SInit
  <1> SUFFICES ASSUME Init PROVE Service!SInit OBVIOUS
  <1>1. Line = <<>>
    <2>1. Queued = <<>> /\ Between = <<>> /\ backlog = <<>>
      BY EmptySeq DEF Init, Queued, Between
    <2> QED BY <2>1, LineParts, EmptySeq, ConcatEmptySeq
  <1>2. {fdtab[wfd[w]] : w \in {v \in Workers : wpc[v] \in Busy}} = {}
    BY DEF Init, Busy
  <1>3. [c \in Conns |-> Len(got[c])] = [c \in Conns |-> 0]
    BY EmptySeq DEF Init
  <1>4. {c \in Conns : cli[c] = "gone"} = {}
    BY DEF Init
  <1> QED BY <1>1, <1>2, <1>3, <1>4 DEF Service!SInit

\* The threads, the queue and the descriptors keep the promise of HttpService,
\* whatever their numbers: connections are taken up in the order in which they
\* arrived, at most one per worker, and let go only when answered or abandoned.
THEOREM Implements == Spec => ImplementsService
  <1>1. Init => Service!SInit
    BY MapInit
  <1>2. IInv /\ AInv /\ [Next]_vars => [Service!SNext]_(Service!svars)
    BY MapStep
  <1> QED BY <1>1, <1>2, SpecIInv, SpecAInv, PTL
          DEF Spec, ImplementsService, Service!ServiceSpec
=============================================================================
