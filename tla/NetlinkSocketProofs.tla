------------------------ MODULE NetlinkSocketProofs ------------------------
(***************************************************************************)
(* Proofs about NetlinkSocket, for any number of requests, any kernel      *)
(* answers, any bounds and any use of onRecv and close by JavaScript.      *)
(***************************************************************************)
EXTENDS NetlinkSocket, FiniteSetTheorems, SequenceTheorems, TLAPS

\* The listener request is active exactly while the socket listens.
ListenInv ==
    /\ pc[Listener] \in {"free", "done", "listen", "recv", "blocked", "ready", "cb"}
    /\ listening <=> pc[Listener] \notin {"free", "done"}
    /\ polling => listening
    /\ \A r \in Reqs : pc[r] # "listen"

\* Headers are stamped one by one, and only stamped messages reach the kernel.
SendInv ==
    \A r \in Reqs :
        /\ pc[r] \in {"free", "made", "queued"} => hdrs[r] = <<>> /\ sent[r] = 0
        /\ pc[r] = "hdr" => Len(hdrs[r]) < nmsgs[r] /\ sent[r] = 0
        /\ pc[r] \in {"last", "inc"} => Len(hdrs[r]) <= nmsgs[r] /\ sent[r] = 0
        /\ pc[r] = "send" => Len(hdrs[r]) = nmsgs[r] /\ sent[r] <= nmsgs[r]

\* RefsHeld, and a request inside its callback still holds its own reference.
RefInv ==
    /\ RefsHeld
    /\ \A r \in Reqs : pc[r] = "cb" => reqRef[r] >= 1

IInv == TypeOK /\ ListenInv /\ SendInv /\ RefInv

-----------------------------------------------------------------------------
(* The operators *)

\* A function on an initial segment of the naturals is a sequence.
LEMMA FunctionIsSeq ==
    ASSUME NEW S, NEW n \in Nat, NEW f \in [1..n -> S]
    PROVE  f \in Seq(S) /\ Len(f) = n
<1>1. f \in Seq(S)
  BY SeqDef
<1> QED BY <1>1

\* What the kernel queues in answer to a message are datagrams.
LEMMA AnswerType ==
    ASSUME TypeOK, SendInv, NEW r \in Reqs, pc[r] = "send", sent[r] < nmsgs[r],
           NEW shape \in Shapes
    PROVE  Answer(r, sent[r] + 1, shape) \in Seq(Datagram)
<1>1. shape \in Seq(Shape)
  BY ShapesType
<1>2. hdrs[r][sent[r] + 1] \in SeqNumbers /\ sent[r] + 1 \in Nat
  <2>1. hdrs[r] \in Seq(SeqNumbers) /\ sent[r] \in Nat /\ nmsgs[r] \in Nat
    BY DEF TypeOK, SendTypes, AllReqs
  <2>2. Len(hdrs[r]) = nmsgs[r]
    BY DEF SendInv
  <2>3. sent[r] + 1 \in 1..Len(hdrs[r])
    BY <2>1, <2>2
  <2> QED BY <2>1, <2>3, ElementOfSeq
<1>3. ASSUME NEW d \in 1..Len(shape)
      PROVE  /\ shape[d].trunc \in BOOLEAN
             /\ [k \in 1..Len(shape[d].kinds) |->
                      [src |-> r, n |-> sent[r] + 1, d |-> d, k |-> k,
                       typ |-> shape[d].kinds[k], seq |-> hdrs[r][sent[r] + 1]]]
                   \in Seq(Message)
  <2>1. shape[d] \in Shape
    BY <1>1
  <2>2. shape[d].kinds \in Seq(Kinds) /\ shape[d].trunc \in BOOLEAN
    BY <2>1 DEF Shape
  <2>3. ASSUME NEW k \in 1..Len(shape[d].kinds)
        PROVE  [src |-> r, n |-> sent[r] + 1, d |-> d, k |-> k,
                typ |-> shape[d].kinds[k], seq |-> hdrs[r][sent[r] + 1]] \in Message
    <3>1. shape[d].kinds[k] \in Kinds
      BY <2>2
    <3>2. d \in Nat /\ k \in Nat
      BY <1>1, <2>2
    <3> QED BY <1>2, <3>1, <3>2 DEF Message, AllReqs
  <2>4. Len(shape[d].kinds) \in Nat
    BY <2>2
  <2> QED BY <2>2, <2>3, <2>4, FunctionIsSeq
<1> DEFINE Dgs == Answer(r, sent[r] + 1, shape)
<1>4. Dgs \in [1..Len(shape) -> Datagram]
  BY <1>3 DEF Answer, Datagram
<1>5. Len(shape) \in Nat
  BY <1>1
<1> QED
  BY <1>4, <1>5, FunctionIsSeq

\* The kernel's receive queue stays a queue of datagrams.
LEMMA DeliverType ==
    ASSUME KernTypes, NEW dgs \in Seq(Datagram), Deliver(dgs)
    PROVE  rcvq' \in Seq(Datagram) /\ overrun' \in BOOLEAN
<1> DEFINE q == rcvq \o dgs
<1>1. q \in Seq(Datagram) /\ Len(q) \in Nat
  BY ConcatProperties, LenProperties DEF KernTypes
<1>2. ASSUME Len(q) > RcvCap PROVE SubSeq(q, 1, RcvCap) \in Seq(Datagram)
  <2>1. \A i \in 1..RcvCap : q[i] \in Datagram
    BY <1>1, <1>2, BoundsNat, ElementOfSeq
  <2> HIDE DEF q
  <2> QED BY <2>1, BoundsNat, SubSeqProperties
<1>3. rcvq' = IF Len(q) <= RcvCap THEN q ELSE SubSeq(q, 1, RcvCap)
  BY DEF Deliver
<1>4. overrun' \in BOOLEAN
  BY DEF Deliver, KernTypes
<1> HIDE DEF q
<1> QED BY <1>1, <1>2, <1>3, <1>4, BoundsNat

\* What one datagram adds to a reply queue are replies.
LEMMA RepliesType ==
    ASSUME NEW r \in AllReqs, NEW dg \in Datagram
    PROVE  /\ Accepted(r, dg) \in Seq(Message)
           /\ Replies(r, dg) \in Seq(Reply)
           /\ Len(Replies(r, dg)) = Len(Accepted(r, dg))
           /\ \A i \in 1..Len(Replies(r, dg)) :
                 Replies(r, dg)[i].iserr = (Accepted(r, dg)[i].typ = "error")
<1> DEFINE ms == Accepted(r, dg)
<1>1. ms \in Seq(Message)
  BY DEF Accepted, Datagram
<1>2. Len(ms) \in Nat /\ \A i \in 1..Len(ms) : ms[i] \in Message
  BY <1>1
<1>3. Replies(r, dg) = [i \in 1..Len(ms) |-> [msg |-> ms[i], iserr |-> ms[i].typ = "error"]]
  BY DEF Replies
<1> HIDE DEF ms
<1>4. Replies(r, dg) \in [1..Len(ms) -> Reply]
  BY <1>2, <1>3 DEF Reply
<1>5. Replies(r, dg) \in Seq(Reply) /\ Len(Replies(r, dg)) = Len(ms)
  BY <1>2, <1>4, FunctionIsSeq
<1>6. \A i \in 1..Len(ms) : Replies(r, dg)[i].iserr = (ms[i].typ = "error")
  BY <1>3
<1> QED BY <1>1, <1>5, <1>6 DEF ms

\* Reading a datagram keeps the types of the queues.
LEMMA TakeType ==
    ASSUME KernTypes, RecvTypes, NEW r \in AllReqs, rcvq # <<>>, TakeDatagram(r)
    PROVE  rcvq' \in Seq(Datagram) /\ RecvTypes'
<1> DEFINE dg == Head(rcvq)
<1>1. dg \in Datagram /\ Tail(rcvq) \in Seq(Datagram)
  BY HeadTailProperties DEF KernTypes
<1>2. Replies(r, dg) \in Seq(Reply) /\ Len(Replies(r, dg)) \in Nat
  BY <1>1, RepliesType, LenProperties
<1>3. /\ rcvq' \in {Tail(rcvq), <<>>}
      /\ replyQ' = [replyQ EXCEPT ![r] = @ \o Replies(r, dg)]
      /\ replies' = [replies EXCEPT ![r] = @ + Len(Replies(r, dg))]
      /\ err' = [err EXCEPT ![r] = @ \/ HasError(r, dg)]
  BY DEF TakeDatagram, LeftBy
<1> HIDE DEF dg
<1>4. replyQ[r] \o Replies(r, dg) \in Seq(Reply)
  BY <1>2, ConcatProperties DEF RecvTypes
<1>5. replyQ' \in [AllReqs -> Seq(Reply)]
  BY <1>3, <1>4 DEF RecvTypes
<1>6. replies' \in [AllReqs -> Nat]
  BY <1>2, <1>3 DEF RecvTypes
<1>7. err' \in [AllReqs -> BOOLEAN]
  BY <1>3 DEF RecvTypes
<1>8. rcvq' \in Seq(Datagram)
  <2>1. <<>> \in Seq(Datagram)
    BY EmptySeq
  <2> QED BY <1>1, <1>3, <2>1
<1> QED BY <1>5, <1>6, <1>7, <1>8 DEF RecvTypes

\* The callback that post_recvmsg chooses is well formed and at most one.
LEMMA CallType ==
    ASSUME RecvTypes, SendTypes, NEW r \in AllReqs
    PROVE  /\ ReplyCall(r) \in Seq(Call) /\ Len(ReplyCall(r)) \in {0, 1}
           /\ ErrorCall(r) \in Seq(Call) /\ Len(ErrorCall(r)) \in {0, 1}
<1> DEFINE bufs == [i \in 1..Len(replyQ[r]) |-> replyQ[r][i].msg]
           nlError == \E i \in 1..Len(replyQ[r]) : replyQ[r][i].iserr
<1>1. replyQ[r] \in Seq(Reply) /\ Len(replyQ[r]) \in Nat
  BY LenProperties DEF RecvTypes
<1>2. bufs \in [1..Len(replyQ[r]) -> Message]
  <2>1. ASSUME NEW i \in 1..Len(replyQ[r]) PROVE replyQ[r][i].msg \in Message
    <3>1. replyQ[r][i] \in Reply
      BY <1>1, ElementOfSeq
    <3> QED BY <3>1 DEF Reply
  <2> QED BY <2>1
<1>3. bufs \in Seq(Message)
  BY <1>1, <1>2, FunctionIsSeq
<1>4. ReplyCall(r) = IF "reply" \in cbs[r]
        THEN <<[cb |-> "reply", err |-> nlError, bufs |-> bufs]>>
        ELSE IF "send" \in cbs[r]
        THEN <<[cb |-> "send", err |-> nlError, bufs |-> IF nlError THEN <<>> ELSE bufs]>>
        ELSE <<>>
  BY DEF ReplyCall
<1>5. nlError \in BOOLEAN
  OBVIOUS
<1> HIDE DEF bufs, nlError
<1>6. ReplyCall(r) \in Seq(Call) /\ Len(ReplyCall(r)) \in {0, 1}
  <2>1. [cb |-> "reply", err |-> nlError, bufs |-> bufs] \in Call
    BY <1>3, <1>5 DEF Call
  <2>2. [cb |-> "send", err |-> nlError, bufs |-> IF nlError THEN <<>> ELSE bufs] \in Call
    BY <1>3, <1>5 DEF Call
  <2> QED BY <1>4, <2>1, <2>2
<1>7. [cb |-> "send", err |-> TRUE, bufs |-> <<>>] \in Call
  BY DEF Call
<1>8. ErrorCall(r) \in Seq(Call) /\ Len(ErrorCall(r)) \in {0, 1}
  BY <1>7 DEF ErrorCall
<1> QED BY <1>6, <1>8

-----------------------------------------------------------------------------
(* Types *)

\* JavaScript's calls keep the types.
LEMMA JavaScriptTypes ==
    ASSUME TypeOK
    PROVE  /\ Create \/ OnRecv \/ Close => TypeOK'
           /\ \A r \in Reqs : JavaScript(r) => TypeOK'
<1> USE DEF AllReqs, Points, WorkerPoints
<1>1. ASSUME Create PROVE TypeOK'
  BY <1>1 DEF TypeOK, Create, SockTypes, KernTypes, SendTypes, RecvTypes, LoopTypes,
              kernVars, sendVars, recvVars, loopVars
<1>2. ASSUME Close PROVE TypeOK'
  BY <1>2 DEF TypeOK, Close, SockTypes, KernTypes, SendTypes, RecvTypes, LoopTypes,
              kernVars, sendVars, recvVars, loopVars
<1>3. ASSUME OnRecv PROVE TypeOK'
  <2>1. SockTypes' /\ KernTypes' /\ RecvTypes'
    BY <1>3 DEF TypeOK, OnRecv, SockTypes, KernTypes, RecvTypes, kernVars, recvVars
  <2>2. SendTypes'
    BY <1>3 DEF TypeOK, OnRecv, SendTypes, SockTypes
  <2>3. LoopTypes'
    BY <1>3 DEF TypeOK, OnRecv, LoopTypes
  <2> QED BY <2>1, <2>2, <2>3 DEF TypeOK
<1>4. ASSUME NEW r \in Reqs, CreateMsgReq(r) PROVE TypeOK'
  <2>1. SockTypes' /\ KernTypes' /\ RecvTypes'
    BY <1>4 DEF TypeOK, CreateMsgReq, SockTypes, KernTypes, RecvTypes, sockVars, kernVars,
                recvVars
  <2>2. SendTypes'
    BY <1>4 DEF TypeOK, CreateMsgReq, SendTypes, SockTypes
  <2>3. LoopTypes'
    BY <1>4 DEF TypeOK, CreateMsgReq, LoopTypes, loopVars
  <2> QED BY <2>1, <2>2, <2>3 DEF TypeOK
<1>5. ASSUME NEW r \in Reqs, AddMsgToReq(r) PROVE TypeOK'
  <2>1. SockTypes' /\ KernTypes' /\ RecvTypes'
    BY <1>5 DEF TypeOK, AddMsgToReq, SockTypes, KernTypes, RecvTypes, sockVars, kernVars,
                recvVars
  <2>2. SendTypes' /\ LoopTypes'
    BY <1>5 DEF TypeOK, AddMsgToReq, SendTypes, LoopTypes, loopVars
  <2> QED BY <2>1, <2>2 DEF TypeOK
<1>6. ASSUME NEW r \in Reqs, Sendmsg(r) PROVE TypeOK'
  <2>1. SockTypes' /\ KernTypes' /\ RecvTypes'
    BY <1>6 DEF TypeOK, Sendmsg, SockTypes, KernTypes, RecvTypes, kernVars, recvVars
  <2>2. SendTypes'
    <3>1. PICK mode \in CbModes : cbs' = [cbs EXCEPT ![r] = mode]
      BY <1>6 DEF Sendmsg
    <3>2. mode \in SUBSET {"send", "reply"}
      BY CbModesType
    <3>3. cbs' \in [AllReqs -> SUBSET {"send", "reply"}]
      BY <3>1, <3>2 DEF TypeOK, SendTypes
    <3>4. post' \in [AllReqs -> BOOLEAN]
      BY <1>6 DEF TypeOK, Sendmsg, SendTypes, SockTypes
    <3> QED BY <1>6, <3>3, <3>4 DEF TypeOK, Sendmsg, SendTypes
  <2>3. LoopTypes'
    BY <1>6 DEF TypeOK, Sendmsg, LoopTypes
  <2> QED BY <2>1, <2>2, <2>3 DEF TypeOK
<1> QED BY <1>1, <1>2, <1>3, <1>4, <1>5, <1>6 DEF JavaScript

\* The worker's steps keep the types.
LEMMA WorkerTypes ==
    ASSUME TypeOK, SendInv, NEW r \in Reqs, Worker(r)
    PROVE  TypeOK'
<1> USE DEF AllReqs, Points, WorkerPoints
<1>a. Finished(r) \in Points
  BY DEF Finished
<1>1. CASE DoSendmsg(r)
  <2>1. SockTypes' /\ KernTypes'
    BY <1>1 DEF TypeOK, DoSendmsg, SockTypes, KernTypes, sockVars, kernVars
  <2>2. SendTypes'
    <3>1. firstSeq' = firstSeq \/ firstSeq' = [firstSeq EXCEPT ![r] = seq]
      BY <1>1 DEF DoSendmsg
    <3>2. firstSeq' \in [AllReqs -> SeqNumbers]
      BY <3>1 DEF TypeOK, SendTypes, SockTypes
    <3>3. UNCHANGED <<nmsgs, hdrs, sent, lastSeq, incr, cbs, post>>
      BY <1>1 DEF DoSendmsg
    <3> QED BY <3>2, <3>3 DEF TypeOK, SendTypes
  <2>a. /\ err' = err \/ err' = [err EXCEPT ![r] = TRUE]
        /\ \/ pc' = [pc EXCEPT ![r] = Finished(r)]
           \/ pc' = [pc EXCEPT ![r] = "hdr"]
        /\ UNCHANGED <<replyQ, replies, loopVars>>
    BY <1>1 DEF DoSendmsg, Fail
  <2>3. RecvTypes'
    BY <2>a DEF TypeOK, RecvTypes
  <2>4. LoopTypes'
    BY <2>a, <1>a DEF TypeOK, LoopTypes, loopVars
  <2> QED BY <2>1, <2>2, <2>3, <2>4 DEF TypeOK
<1>2. CASE StampHeader(r)
  <2>1. hdrs' \in [AllReqs -> Seq(SeqNumbers)]
    BY <1>2, AppendProperties DEF TypeOK, StampHeader, SendTypes, SockTypes
  <2>2. SockTypes' /\ KernTypes' /\ RecvTypes'
    BY <1>2 DEF TypeOK, StampHeader, SockTypes, KernTypes, RecvTypes, sockVars, kernVars,
                recvVars
  <2>3. SendTypes'
    BY <1>2, <2>1 DEF TypeOK, StampHeader, SendTypes
  <2>4. LoopTypes'
    BY <1>2 DEF TypeOK, StampHeader, LoopTypes, loopVars
  <2> QED BY <2>2, <2>3, <2>4 DEF TypeOK
<1>3. CASE StampLast(r)
  <2>1. SockTypes' /\ KernTypes'
    BY <1>3 DEF TypeOK, StampLast, SockTypes, KernTypes, sockVars, kernVars
  <2>2. SendTypes'
    <3>1. seq \in SeqNumbers
      BY DEF TypeOK, SockTypes
    <3>2. lastSeq' \in [AllReqs -> SeqNumbers] /\ incr' \in [AllReqs -> SeqNumbers]
      BY <1>3, <3>1 DEF TypeOK, StampLast, SendTypes
    <3>3. UNCHANGED <<nmsgs, hdrs, sent, firstSeq, cbs, post>>
      BY <1>3 DEF StampLast
    <3> QED BY <3>2, <3>3 DEF TypeOK, SendTypes
  <2>3. RecvTypes'
    BY <1>3 DEF TypeOK, StampLast, RecvTypes, recvVars
  <2>4. LoopTypes'
    BY <1>3, <1>a DEF TypeOK, StampLast, LoopTypes, loopVars
  <2> QED BY <2>1, <2>2, <2>3, <2>4 DEF TypeOK
<1>4. CASE IncrementSeq(r)
  <2>1. seq' \in SeqNumbers
    <3>1. incr[r] \in SeqNumbers
      BY DEF TypeOK, SendTypes
    <3> QED BY <1>4, <3>1, SeqSpaceNat DEF IncrementSeq, SeqNumbers
  <2>2. SockTypes' /\ KernTypes'
    BY <1>4, <2>1 DEF TypeOK, IncrementSeq, SockTypes, KernTypes, kernVars
  <2>3. SendTypes' /\ RecvTypes'
    BY <1>4 DEF TypeOK, IncrementSeq, SendTypes, RecvTypes, sendVars, recvVars
  <2>4. LoopTypes'
    BY <1>4 DEF TypeOK, IncrementSeq, LoopTypes, loopVars
  <2> QED BY <2>2, <2>3, <2>4 DEF TypeOK
<1>5. CASE SendFails(r)
  <2>1. SockTypes' /\ KernTypes'
    BY <1>5 DEF TypeOK, SendFails, Fail, SockTypes, KernTypes, sockVars, kernVars
  <2>2. SendTypes'
    BY <1>5 DEF TypeOK, SendFails, Fail, SendTypes, sendVars
  <2>3. RecvTypes'
    BY <1>5 DEF TypeOK, SendFails, Fail, RecvTypes, recvVars
  <2>4. LoopTypes'
    BY <1>5, <1>a DEF TypeOK, SendFails, Fail, LoopTypes, loopVars
  <2> QED BY <2>1, <2>2, <2>3, <2>4 DEF TypeOK
<1>6. CASE KernelProcesses(r)
  <2>1. PICK shape \in Shapes :
            /\ Deliver(Answer(r, sent[r] + 1, shape))
            /\ answered' = [answered EXCEPT ![r] = @ \o Answer(r, sent[r] + 1, shape)]
    BY <1>6 DEF KernelProcesses
  <2> DEFINE dgs == Answer(r, sent[r] + 1, shape)
  <2>2. dgs \in Seq(Datagram)
    BY <1>6, AnswerType DEF KernelProcesses
  <2> HIDE DEF dgs
  <2>3. rcvq' \in Seq(Datagram) /\ overrun' \in BOOLEAN
    BY <2>1, <2>2, DeliverType DEF TypeOK, dgs
  <2>4. answered' \in [AllReqs -> Seq(Datagram)]
    <3>1. answered[r] \o dgs \in Seq(Datagram)
      <4>1. answered[r] \in Seq(Datagram)
        BY DEF TypeOK, KernTypes
      <4> QED BY <2>2, <4>1, ConcatProperties
    <3> QED BY <2>1, <3>1 DEF TypeOK, KernTypes, dgs
  <2>5. KernTypes'
    BY <1>6, <2>3, <2>4 DEF KernelProcesses, TypeOK, KernTypes
  <2>6. sent' = [sent EXCEPT ![r] = @ + 1]
        /\ UNCHANGED <<sockVars, pc, nmsgs, hdrs, firstSeq, lastSeq, incr, cbs, post,
                       recvVars, loopVars>>
    BY <1>6 DEF KernelProcesses
  <2>7. SockTypes' /\ RecvTypes' /\ LoopTypes'
    BY <2>6 DEF TypeOK, SockTypes, RecvTypes, LoopTypes, sockVars, recvVars, loopVars
  <2>8. SendTypes'
    BY <2>6 DEF TypeOK, SendTypes
  <2> QED BY <2>5, <2>7, <2>8 DEF TypeOK
<1>7. CASE SendReturns(r)
  <2>1. /\ UNCHANGED <<sockVars, nonblock, overrun, envCount, answered, sendVars, recvVars,
                       loopVars>>
        /\ rcvq' = rcvq \/ rcvq' = <<>>
        /\ pc' = [pc EXCEPT ![r] = IF listening THEN Finished(r) ELSE "fcntl"]
    BY <1>7 DEF SendReturns, LeftBy
  <2>a. rcvq' \in Seq(Datagram)
    BY <2>1, EmptySeq DEF TypeOK, KernTypes
  <2>b. KernTypes'
    BY <2>1, <2>a DEF TypeOK, KernTypes
  <2>2. SockTypes' /\ KernTypes' /\ SendTypes' /\ RecvTypes'
    BY <2>1, <2>b DEF TypeOK, SockTypes, SendTypes, RecvTypes, sockVars, sendVars, recvVars
  <2>3. LoopTypes'
    BY <2>1, <1>a DEF TypeOK, LoopTypes, loopVars
  <2> QED BY <2>2, <2>3 DEF TypeOK
<1>8. CASE WorkerFcntl(r)
  <2>1. SockTypes' /\ KernTypes'
    BY <1>8 DEF TypeOK, WorkerFcntl, Fail, SockTypes, KernTypes, sockVars, kernVars
  <2>2. SendTypes'
    BY <1>8 DEF TypeOK, WorkerFcntl, Fail, SendTypes, sendVars
  <2>3. RecvTypes'
    BY <1>8 DEF TypeOK, WorkerFcntl, Fail, RecvTypes, recvVars
  <2>4. LoopTypes'
    BY <1>8, <1>a DEF TypeOK, WorkerFcntl, Fail, LoopTypes, loopVars
  <2> QED BY <2>1, <2>2, <2>3, <2>4 DEF TypeOK
<1>9. CASE WorkerRecvError(r)
  <2>1. SockTypes' /\ KernTypes'
    BY <1>9 DEF TypeOK, WorkerRecvError, LeftBy, Fail, SockTypes, KernTypes, sockVars
  <2>2. SendTypes'
    BY <1>9 DEF TypeOK, WorkerRecvError, Fail, SendTypes, sendVars
  <2>3. RecvTypes'
    BY <1>9 DEF TypeOK, WorkerRecvError, Fail, RecvTypes, recvVars
  <2>4. LoopTypes'
    BY <1>9, <1>a DEF TypeOK, WorkerRecvError, Fail, LoopTypes, loopVars
  <2> QED BY <2>1, <2>2, <2>3, <2>4 DEF TypeOK
<1>10. CASE WorkerRecv(r) \/ WorkerWakes(r)
  <2>1. rcvq # <<>> /\ WorkerTakes(r)
    BY <1>10 DEF WorkerRecv, WorkerWakes
  <2>2. rcvq' \in Seq(Datagram) /\ RecvTypes'
    BY <2>1, TakeType DEF WorkerTakes, TypeOK
  <2>3. SockTypes' /\ KernTypes' /\ SendTypes'
    BY <2>1, <2>2 DEF TypeOK, WorkerTakes, SockTypes, KernTypes, SendTypes, sockVars, sendVars
  <2>4. LoopTypes'
    BY <1>a, <2>1 DEF TypeOK, WorkerTakes, LoopTypes, loopVars
  <2> QED BY <2>2, <2>3, <2>4 DEF TypeOK
<1>11. CASE WorkerRecvEmpty(r)
  BY <1>11 DEF TypeOK, WorkerRecvEmpty, Finished, SockTypes, KernTypes, SendTypes, RecvTypes,
              LoopTypes, sockVars, kernVars, sendVars, recvVars, loopVars
<1> QED
  BY <1>1, <1>2, <1>3, <1>4, <1>5, <1>6, <1>7, <1>8, <1>9, <1>10, <1>11 DEF Worker

\* The poll callback's steps keep the types.
LEMMA PollTypes ==
    ASSUME TypeOK, Poll
    PROVE  TypeOK'
<1> USE DEF AllReqs, Points, WorkerPoints
<1>1. CASE PollError
  BY <1>1 DEF TypeOK, PollError, SockTypes, KernTypes, SendTypes, RecvTypes,
              LoopTypes, kernVars, sendVars, recvVars, loopVars
<1>2. CASE PollReadable
  BY <1>2 DEF TypeOK, PollReadable, SockTypes, KernTypes, SendTypes, RecvTypes,
              LoopTypes, sockVars, sendVars, recvVars
<1>3. CASE PollRecv
  <2>1. rcvq # <<>> /\ TakeDatagram(Listener)
    BY <1>3 DEF PollRecv
  <2>2. rcvq' \in Seq(Datagram) /\ RecvTypes'
    BY <2>1, TakeType DEF TypeOK
  <2> QED
    BY <1>3, <2>2 DEF TypeOK, PollRecv, AfterPollRead, SockTypes, KernTypes, SendTypes,
              LoopTypes, sockVars, sendVars, loopVars
<1>4. CASE PollRecvError
  BY <1>4 DEF TypeOK, PollRecvError, SockTypes, KernTypes, SendTypes, RecvTypes,
              LoopTypes, sockVars, sendVars, loopVars
<1>5. CASE PollRecvEmpty
  BY <1>5 DEF TypeOK, PollRecvEmpty, SockTypes, KernTypes, SendTypes, RecvTypes,
              LoopTypes, sockVars, kernVars, sendVars, recvVars, loopVars
<1> QED BY <1>1, <1>2, <1>3, <1>4, <1>5 DEF Poll

\* Events and foreign datagrams keep the types.
LEMMA EnvironmentTypes ==
    ASSUME TypeOK, EventArrives \/ PeerSends
    PROVE  TypeOK'
<1>1. PICK pid \in {0, 1}, typ \in Kinds, s \in SeqNumbers : Arrives(pid, typ, s)
  <2>1. 0 \in SeqNumbers /\ FirstSeq \in SeqNumbers
    BY SeqSpaceNat DEF SeqNumbers
  <2>2. "data" \in Kinds /\ "bare" \in Kinds
    BY DEF Kinds
  <2> QED BY <2>1, <2>2 DEF EventArrives, PeerSends
<1> DEFINE m == [src |-> Env, n |-> envCount + 1, d |-> 1, k |-> 1, typ |-> typ, seq |-> s]
           dg == [pid |-> pid, trunc |-> FALSE, msgs |-> <<m>>]
<1>2. envCount \in Nat /\ envCount + 1 \in Nat
  BY DEF TypeOK, KernTypes
<1>3. m \in Message
  BY <1>2 DEF Message
<1>4. dg \in Datagram
  <2> HIDE DEF m
  <2> QED BY <1>3 DEF Datagram
<1>5. Deliver(<<dg>>) /\ envCount' = envCount + 1
      /\ UNCHANGED <<sockVars, nonblock, answered, pc, sendVars, recvVars, loopVars>>
  BY <1>1 DEF Arrives
<1> HIDE DEF dg
<1>6. rcvq' \in Seq(Datagram) /\ overrun' \in BOOLEAN
  <2>1. <<dg>> \in Seq(Datagram)
    BY <1>4
  <2> QED BY <1>5, <2>1, DeliverType DEF TypeOK
<1>7. KernTypes'
  BY <1>2, <1>5, <1>6 DEF TypeOK, KernTypes
<1>8. SockTypes' /\ RecvTypes'
  BY <1>5 DEF TypeOK, SockTypes, RecvTypes, sockVars, recvVars
<1>9. SendTypes' /\ LoopTypes'
  BY <1>5 DEF TypeOK, SendTypes, LoopTypes, sendVars, loopVars
<1> QED BY <1>7, <1>8, <1>9 DEF TypeOK

\* A completion keeps the types: the references it releases are held.
LEMMA CompletionTypes ==
    ASSUME IInv, NEW r \in AllReqs, Completion(r)
    PROVE  TypeOK'
<1> USE DEF AllReqs, Points, WorkerPoints
<1>1. /\ Released(reqRef[r]) \in Nat
      /\ pc[r] = "ready" => Released(sockRef) \in Nat
  <2>1. sockRef \in Nat /\ reqRef[r] \in Nat
    BY DEF IInv, TypeOK, SockTypes, LoopTypes
  <2>2. CASE listening
    BY <2>1, <2>2 DEF Released
  <2>3. CASE ~listening
    <3>1. pc[r] \in {"ready", "cb"}
      BY DEF Completion, PostRecvmsg, PostReturns
    <3>2. r \in Reqs
      BY <2>3, <3>1 DEF IInv, ListenInv
    <3>3. reqRef[r] >= 1
      BY <3>1, <3>2 DEF IInv, RefInv, RefsHeld, InFlight
    <3>4. pc[r] = "ready" => sockRef >= 1
      <4>1. IsFiniteSet(InFlight)
        BY ReqsFinite, FS_Subset DEF InFlight
      <4>2. pc[r] = "ready" => InFlight # {}
        BY <3>2 DEF InFlight
      <4>3. pc[r] = "ready" => Cardinality(InFlight) \in Nat \ {0}
        BY <4>1, <4>2, FS_EmptySet, FS_CardinalityType
      <4>4. sockRef >= Cardinality(InFlight)
        BY DEF IInv, RefInv, RefsHeld
      <4> QED BY <2>1, <4>3, <4>4
    <3> QED BY <2>1, <2>3, <3>3, <3>4 DEF Released
  <2>4. listening \in BOOLEAN
    BY DEF IInv, TypeOK, SockTypes
  <2> QED BY <2>2, <2>3, <2>4
<1>2. CASE PostRecvmsg(r)
  <2> DEFINE call == IF err[r] THEN ErrorCall(r) ELSE ReplyCall(r)
  <2>1. call \in Seq(Call)
    BY CallType DEF IInv, TypeOK
  <2>2. calls' = [calls EXCEPT ![r] = @ \o call]
    BY <1>2 DEF PostRecvmsg
  <2>3. /\ sockRef' = Released(sockRef)
        /\ loop' \in {r, NoReq}
        /\ pc' \in {[pc EXCEPT ![r] = v] : v \in {"cb", "listen", "done"}}
        /\ reqRef' \in {reqRef, [reqRef EXCEPT ![r] = Released(@)]}
        /\ \/ UNCHANGED <<replyQ, replies>>
           \/ /\ replyQ' = [replyQ EXCEPT ![r] = <<>>]
              /\ replies' = [replies EXCEPT ![r] = 0]
        /\ UNCHANGED <<fd, sockErr, createCb, seq, listening, polling, kernVars, sendVars,
                       err>>
    BY <1>2 DEF PostRecvmsg
  <2> HIDE DEF call
  <2>4. calls' \in [AllReqs -> Seq(Call)]
    <3>1. calls \in [AllReqs -> Seq(Call)]
      BY DEF IInv, TypeOK, LoopTypes
    <3>2. calls[r] \o call \in Seq(Call)
      BY <2>1, <3>1, ConcatProperties
    <3> QED BY <2>2, <3>1, <3>2
  <2>5. SockTypes'
    BY <1>1, <1>2, <2>3 DEF PostRecvmsg, IInv, TypeOK, SockTypes
  <2>6. KernTypes' /\ SendTypes'
    BY <2>3 DEF IInv, TypeOK, KernTypes, SendTypes, kernVars, sendVars
  <2>7. RecvTypes'
    <3>1. RecvTypes
      BY DEF IInv, TypeOK
    <3>2. <<>> \in Seq(Reply) /\ 0 \in Nat
      OBVIOUS
    <3>3. CASE UNCHANGED <<replyQ, replies>>
      BY <2>3, <3>1, <3>3 DEF RecvTypes
    <3>4. CASE /\ replyQ' = [replyQ EXCEPT ![r] = <<>>]
               /\ replies' = [replies EXCEPT ![r] = 0]
      BY <2>3, <3>1, <3>2, <3>4 DEF RecvTypes
    <3> QED BY <2>3, <3>3, <3>4
  <2>8. LoopTypes'
    <3>1. LoopTypes
      BY DEF IInv, TypeOK
    <3>2. pc' \in [AllReqs -> Points]
      BY <2>3, <3>1 DEF LoopTypes
    <3>3. reqRef' \in [AllReqs -> Nat]
      BY <1>1, <2>3, <3>1 DEF LoopTypes
    <3> QED BY <2>3, <2>4, <3>2, <3>3 DEF LoopTypes
  <2> QED BY <2>5, <2>6, <2>7, <2>8 DEF TypeOK
<1>3. CASE PostReturns(r)
  <2>1. LoopTypes'
    BY <1>1, <1>3 DEF PostReturns, IInv, TypeOK, LoopTypes
  <2> QED
    BY <1>3, <2>1 DEF PostReturns, IInv, TypeOK, SockTypes, KernTypes, SendTypes, RecvTypes,
              sockVars, kernVars, sendVars, recvVars
<1> QED BY <1>2, <1>3 DEF Completion

-----------------------------------------------------------------------------
(* Control *)

\* A worker moves only its own request, between worker points or to its end, and
\* touches neither the references nor the loop thread.
LEMMA WorkerFrame ==
    ASSUME TypeOK, NEW r \in Reqs, Worker(r)
    PROVE  /\ pc[r] \in WorkerPoints
           /\ pc' \in {[pc EXCEPT ![r] = v] : v \in WorkerPoints \cup {"ready", "done"}}
           /\ pc'[r] \in {"ready", "done"} => pc'[r] = Finished(r)
           /\ UNCHANGED <<fd, sockErr, createCb, listening, polling, sockRef, cbs, post,
                          nmsgs, loopVars>>
<1> USE DEF WorkerPoints
<1>0. pc \in [AllReqs -> Points] /\ Finished(r) \in {"ready", "done"} /\ r \in AllReqs
  BY DEF TypeOK, LoopTypes, Finished, AllReqs
<1>1. CASE DoSendmsg(r)
  BY <1>0, <1>1 DEF DoSendmsg, Fail, sockVars, kernVars, loopVars
<1>2. CASE StampHeader(r)
  BY <1>0, <1>2 DEF StampHeader, sockVars
<1>3. CASE StampLast(r)
  BY <1>0, <1>3 DEF StampLast, sockVars
<1>4. CASE IncrementSeq(r)
  BY <1>0, <1>4 DEF IncrementSeq, sendVars
<1>5. CASE SendFails(r)
  BY <1>0, <1>5 DEF SendFails, Fail, sockVars, sendVars
<1>6. CASE KernelProcesses(r)
  <2>1. pc' = [pc EXCEPT ![r] = "send"]
    BY <1>0, <1>6 DEF KernelProcesses
  <2> QED BY <1>0, <1>6, <2>1 DEF KernelProcesses, sockVars
<1>7. CASE SendReturns(r)
  BY <1>0, <1>7 DEF SendReturns, sockVars, sendVars
<1>8. CASE WorkerFcntl(r)
  BY <1>0, <1>8 DEF WorkerFcntl, Fail, sockVars, sendVars
<1>9. CASE WorkerRecvError(r)
  BY <1>0, <1>9 DEF WorkerRecvError, Fail, sockVars, sendVars
<1>10. CASE WorkerRecv(r) \/ WorkerWakes(r)
  BY <1>0, <1>10 DEF WorkerRecv, WorkerWakes, WorkerTakes, sockVars, sendVars
<1>11. CASE WorkerRecvEmpty(r)
  BY <1>0, <1>11 DEF WorkerRecvEmpty, sockVars, sendVars
<1> QED
  BY <1>1, <1>2, <1>3, <1>4, <1>5, <1>6, <1>7, <1>8, <1>9, <1>10, <1>11 DEF Worker

\* The poll callback moves only the listener, which is active.
LEMMA PollFrame ==
    ASSUME TypeOK, ListenInv, Poll
    PROVE  /\ listening
           /\ pc' \in {pc} \cup {[pc EXCEPT ![Listener] = v] : v \in {"recv", "blocked", "ready"}}
           /\ polling' \in {polling, FALSE}
           /\ UNCHANGED <<fd, sockErr, createCb, seq, listening, sockRef, sendVars, reqRef,
                          calls>>
<1>1. CASE PollError
  BY <1>1 DEF PollError, ListenInv, loopVars
<1>2. CASE PollReadable
  BY <1>2 DEF PollReadable, ListenInv, sockVars
<1>3. CASE PollRecv
  BY <1>3 DEF PollRecv, AfterPollRead, ListenInv, sockVars, loopVars
<1>4. CASE PollRecvError
  BY <1>4 DEF PollRecvError, ListenInv, sockVars, loopVars
<1>5. CASE PollRecvEmpty
  BY <1>5 DEF PollRecvEmpty, ListenInv, sockVars, loopVars
<1> QED BY <1>1, <1>2, <1>3, <1>4, <1>5 DEF Poll

\* A completion moves only its own request.
LEMMA CompletionFrame ==
    ASSUME TypeOK, ListenInv, NEW r \in AllReqs, Completion(r)
    PROVE  /\ pc[r] \in {"ready", "cb"}
           /\ pc' \in {[pc EXCEPT ![r] = v] :
                          v \in {"cb", IF r = Listener THEN "listen" ELSE "done"}}
           /\ UNCHANGED <<fd, sockErr, createCb, seq, listening, polling, sendVars>>
<1>1. CASE PostRecvmsg(r)
  BY <1>1 DEF PostRecvmsg
<1>2. CASE PostReturns(r)
  BY <1>2 DEF PostReturns, sockVars
<1> QED BY <1>1, <1>2 DEF Completion

\* Events change nothing but the kernel's queue.
LEMMA EnvironmentFrame ==
    ASSUME EventArrives \/ PeerSends
    PROVE  UNCHANGED <<sockVars, answered, pc, sendVars, recvVars, loopVars>>
  BY DEF EventArrives, PeerSends, Arrives

\* The listener request is active exactly while the socket listens.
LEMMA ListenStep ==
    ASSUME TypeOK, ListenInv, [Next]_vars
    PROVE  ListenInv'
<1>0. pc \in [AllReqs -> Points] /\ Listener \in AllReqs /\ Listener \notin Reqs
      /\ Reqs \subseteq AllReqs
  BY NamesDistinct DEF TypeOK, LoopTypes, AllReqs
<1>1. CASE Create \/ Close
  BY <1>1 DEF Create, Close, ListenInv
<1>2. CASE OnRecv
  BY <1>0, <1>2 DEF OnRecv, ListenInv
<1>3. ASSUME NEW r \in Reqs, JavaScript(r) PROVE ListenInv'
  <2>1. pc' \in {pc} \cup {[pc EXCEPT ![r] = v] : v \in {"made", "queued"}}
        /\ UNCHANGED <<listening, polling>>
    BY <1>3 DEF JavaScript, CreateMsgReq, AddMsgToReq, Sendmsg, sockVars
  <2> QED BY <1>0, <2>1 DEF ListenInv
<1>4. ASSUME NEW r \in Reqs, Worker(r) PROVE ListenInv'
  BY <1>0, <1>4, WorkerFrame DEF ListenInv, WorkerPoints
<1>5. ASSUME NEW r \in AllReqs, Completion(r) PROVE ListenInv'
  BY <1>0, <1>5, CompletionFrame DEF ListenInv
<1>6. CASE Poll
  BY <1>0, <1>6, PollFrame DEF ListenInv
<1>7. CASE EventArrives \/ PeerSends
  BY <1>7, EnvironmentFrame DEF ListenInv, sockVars
<1>8. CASE UNCHANGED vars
  BY <1>8 DEF ListenInv, vars, sockVars
<1> QED
  BY <1>1, <1>2, <1>3, <1>4, <1>5, <1>6, <1>7, <1>8 DEF Next, Quiescent

\* Headers are stamped before they are sent, request by request.
LEMMA SendStep ==
    ASSUME TypeOK, ListenInv, SendInv, [Next]_vars
    PROVE  SendInv'
<1> DEFINE Part(r) ==
        /\ pc[r] \in {"free", "made", "queued"} => hdrs[r] = <<>> /\ sent[r] = 0
        /\ pc[r] = "hdr" => Len(hdrs[r]) < nmsgs[r] /\ sent[r] = 0
        /\ pc[r] \in {"last", "inc"} => Len(hdrs[r]) <= nmsgs[r] /\ sent[r] = 0
        /\ pc[r] = "send" => Len(hdrs[r]) = nmsgs[r] /\ sent[r] <= nmsgs[r]
<1> SUFFICES ASSUME NEW q \in Reqs PROVE Part(q)'
  BY DEF SendInv
<1>0. /\ pc \in [AllReqs -> Points] /\ q \in AllReqs /\ Listener \notin Reqs
      /\ nmsgs \in [AllReqs -> Nat] /\ sent \in [AllReqs -> Nat]
      /\ hdrs \in [AllReqs -> Seq(SeqNumbers)] /\ seq \in SeqNumbers
      /\ Reqs \subseteq AllReqs
  BY NamesDistinct DEF TypeOK, LoopTypes, SendTypes, SockTypes, AllReqs
<1>p. Part(q)
  BY DEF SendInv
<1>s. ASSUME UNCHANGED <<pc, nmsgs, hdrs, sent>> PROVE Part(q)'
  BY <1>p, <1>s
<1>1. CASE Create \/ Close
  BY <1>1, <1>s DEF Create, Close, sendVars
<1>2. CASE OnRecv
  BY <1>0, <1>2, <1>p, NamesDistinct DEF OnRecv
<1>3. ASSUME NEW r \in Reqs, JavaScript(r) PROVE Part(q)'
  <2>1. CASE CreateMsgReq(r)
    BY <1>0, <1>p, <2>1 DEF CreateMsgReq
  <2>2. CASE AddMsgToReq(r)
    BY <1>0, <1>p, <2>2 DEF AddMsgToReq
  <2>3. CASE Sendmsg(r)
    BY <1>0, <1>p, <2>3 DEF Sendmsg
  <2> QED BY <1>3, <2>1, <2>2, <2>3 DEF JavaScript
<1>4. ASSUME NEW r \in Reqs, Worker(r) PROVE Part(q)'
  <2>0. Finished(r) \in {"ready", "done"} /\ r \in AllReqs
    BY DEF Finished, AllReqs
  <2>1. CASE DoSendmsg(r)
    BY <1>0, <1>p, <2>0, <2>1 DEF DoSendmsg, Fail
  <2>2. CASE StampHeader(r)
    <3>1. Len(Append(hdrs[r], seq)) = Len(hdrs[r]) + 1 /\ Len(hdrs[r]) \in Nat
      BY <1>0, AppendProperties, LenProperties
    <3>2. CASE q = r
      BY <1>0, <1>p, <2>2, <3>1, <3>2 DEF StampHeader
    <3>3. CASE q # r
      BY <1>0, <1>p, <2>2, <3>3 DEF StampHeader
    <3> QED BY <3>2, <3>3
  <2>3. CASE StampLast(r)
    BY <1>0, <1>p, <2>3 DEF StampLast
  <2>4. CASE IncrementSeq(r)
    <3>1. Len(hdrs[q]) \in Nat
      BY <1>0, LenProperties
    <3> QED BY <1>0, <1>p, <2>4, <3>1 DEF IncrementSeq, sendVars
  <2>5. CASE SendFails(r)
    BY <1>0, <1>p, <2>0, <2>5 DEF SendFails, Fail, sendVars
  <2>6. CASE KernelProcesses(r)
    BY <1>0, <1>p, <2>6 DEF KernelProcesses
  <2>7. CASE SendReturns(r)
    BY <1>0, <1>p, <2>0, <2>7 DEF SendReturns, sendVars
  <2>8. CASE WorkerFcntl(r)
    BY <1>0, <1>p, <2>0, <2>8 DEF WorkerFcntl, Fail, sendVars
  <2>9. CASE WorkerRecvError(r)
    BY <1>0, <1>p, <2>0, <2>9 DEF WorkerRecvError, Fail, sendVars
  <2>10. CASE WorkerRecv(r) \/ WorkerWakes(r)
    BY <1>0, <1>p, <2>0, <2>10 DEF WorkerRecv, WorkerWakes, WorkerTakes, sendVars
  <2>11. CASE WorkerRecvEmpty(r)
    BY <1>0, <1>p, <2>0, <2>11 DEF WorkerRecvEmpty, sendVars
  <2> QED
    BY <1>4, <2>1, <2>2, <2>3, <2>4, <2>5, <2>6, <2>7, <2>8, <2>9, <2>10, <2>11 DEF Worker
<1>5. ASSUME NEW r \in AllReqs, Completion(r) PROVE Part(q)'
  BY <1>0, <1>5, <1>p, CompletionFrame DEF sendVars
<1>6. CASE Poll
  BY <1>0, <1>6, <1>p, PollFrame DEF sendVars
<1>7. CASE EventArrives \/ PeerSends
  BY <1>7, <1>s, EnvironmentFrame DEF sendVars
<1>8. CASE UNCHANGED vars
  BY <1>8, <1>s DEF vars, sendVars
<1> QED
  BY <1>1, <1>2, <1>3, <1>4, <1>5, <1>6, <1>7, <1>8 DEF Next, Quiescent

-----------------------------------------------------------------------------
(* References *)

\* The requests in flight are finitely many, and leaving or joining them changes
\* their number by one.
LEMMA InFlightCount ==
    ASSUME TypeOK
    PROVE  /\ IsFiniteSet(InFlight) /\ Cardinality(InFlight) \in Nat
           /\ \A r \in InFlight :
                 /\ IsFiniteSet(InFlight \ {r})
                 /\ Cardinality(InFlight \ {r}) = Cardinality(InFlight) - 1
           /\ \A r \in Reqs \ InFlight :
                 Cardinality(InFlight \cup {r}) = Cardinality(InFlight) + 1
<1>1. IsFiniteSet(InFlight) /\ Cardinality(InFlight) \in Nat
  BY ReqsFinite, FS_Subset, FS_CardinalityType DEF InFlight
<1> QED
  BY <1>1, FS_AddElement, FS_RemoveElement

\* A step that touches no reference and lets no new request into flight keeps RefInv.
LEMMA RefFrame ==
    ASSUME TypeOK, RefInv, UNCHANGED <<listening, sockRef, reqRef>>,
           InFlight' \subseteq InFlight,
           \A r \in Reqs : pc'[r] = "cb" => pc[r] = "cb"
    PROVE  RefInv'
<1>1. Cardinality(InFlight') <= Cardinality(InFlight) /\ Cardinality(InFlight') \in Nat
  BY InFlightCount, FS_Subset, FS_CardinalityType
<1>2. Cardinality(InFlight) \in Nat /\ sockRef \in Nat
  BY InFlightCount DEF TypeOK, SockTypes
<1>3. Cardinality(InFlight)' = Cardinality(InFlight')
  OBVIOUS
<1> QED BY <1>1, <1>2, <1>3 DEF RefInv, RefsHeld

\* Every step keeps the references that workers and completions rely on.
LEMMA RefStep ==
    ASSUME IInv, [Next]_vars
    PROVE  RefInv'
<1> USE DEF IInv
<1>0. /\ TypeOK /\ ListenInv /\ RefInv
      /\ pc \in [AllReqs -> Points] /\ reqRef \in [AllReqs -> Nat] /\ sockRef \in Nat
      /\ listening \in BOOLEAN
      /\ Reqs \subseteq AllReqs /\ Listener \in AllReqs /\ Listener \notin Reqs
  BY NamesDistinct DEF TypeOK, LoopTypes, SockTypes, AllReqs
<1>c. /\ Cardinality(InFlight) \in Nat
      /\ Cardinality(InFlight)' = Cardinality(InFlight')
  BY <1>0, InFlightCount
<1>1. CASE Create \/ Close
  <2>1. UNCHANGED <<listening, sockRef, reqRef, pc>>
    BY <1>1 DEF Create, Close, loopVars
  <2> QED BY <1>0, <2>1, RefFrame DEF InFlight
<1>2. CASE OnRecv
  <2>1. InFlight' = InFlight /\ \A r \in Reqs : pc'[r] = pc[r]
    BY <1>0, <1>2 DEF OnRecv, InFlight
  <2>2. sockRef' = sockRef + 1 /\ reqRef' = [reqRef EXCEPT ![Listener] = @ + 1]
    BY <1>2 DEF OnRecv
  <2>3. sockRef >= Cardinality(InFlight) /\ \A r \in InFlight : r \in Reqs /\ reqRef[r] >= 1
    BY <1>0 DEF RefInv, RefsHeld, InFlight
  <2>4. \A r \in Reqs : reqRef'[r] = reqRef[r]
    BY <1>0, <2>2
  <2>5. reqRef'[Listener] >= 1
    BY <1>0, <2>2
  <2>6. sockRef' > Cardinality(InFlight')
    BY <1>0, <1>c, <2>1, <2>2, <2>3
  <2>7. sockRef' >= Cardinality(InFlight')
    BY <1>0, <1>c, <2>1, <2>2, <2>3
  <2>8. \A r \in InFlight' : reqRef'[r] >= 1
    BY <2>1, <2>3, <2>4
  <2>9. \A r \in Reqs : pc'[r] = "cb" => reqRef'[r] >= 1
    BY <1>0, <2>1, <2>4 DEF RefInv
  <2> QED BY <1>c, <2>5, <2>6, <2>7, <2>8, <2>9 DEF RefInv, RefsHeld
<1>3. ASSUME NEW r \in Reqs, CreateMsgReq(r) \/ AddMsgToReq(r) PROVE RefInv'
  <2>1. UNCHANGED <<listening, sockRef, reqRef>>
        /\ (pc' = pc \/ (pc[r] = "free" /\ pc' = [pc EXCEPT ![r] = "made"]))
    BY <1>3 DEF CreateMsgReq, AddMsgToReq, sockVars, loopVars
  <2>2. InFlight' \subseteq InFlight /\ \A q \in Reqs : pc'[q] = "cb" => pc[q] = "cb"
    BY <1>0, <2>1 DEF InFlight, WorkerPoints
  <2> QED BY <1>0, <2>1, <2>2, RefFrame
<1>4. ASSUME NEW r \in Reqs, Sendmsg(r) PROVE RefInv'
  <2>1. /\ pc[r] = "made" /\ pc' = [pc EXCEPT ![r] = "queued"]
        /\ sockRef' = sockRef + 1 /\ reqRef' = [reqRef EXCEPT ![r] = @ + 1]
        /\ listening' = listening
    BY <1>4 DEF Sendmsg
  <2>2. r \notin InFlight /\ InFlight' = InFlight \cup {r}
    BY <1>0, <2>1 DEF InFlight, WorkerPoints
  <2>3. Cardinality(InFlight') = Cardinality(InFlight) + 1
    BY <1>0, <2>2, InFlightCount
  <2>4. /\ sockRef >= Cardinality(InFlight)
        /\ listening => sockRef > Cardinality(InFlight) /\ reqRef[Listener] >= 1
        /\ \A q \in InFlight : q \in Reqs /\ reqRef[q] >= 1
    BY <1>0 DEF RefInv, RefsHeld, InFlight
  <2>5. \A q \in AllReqs : reqRef'[q] >= reqRef[q]
    BY <1>0, <2>1
  <2>6. reqRef'[r] >= 1 /\ \A q \in AllReqs : reqRef[q] \in Nat /\ reqRef'[q] \in Nat
    BY <1>0, <2>1
  <2>7. \A q \in InFlight' : reqRef'[q] >= 1
    BY <1>0, <2>2, <2>4, <2>5, <2>6
  <2>8. /\ sockRef' >= Cardinality(InFlight')
        /\ listening' => sockRef' > Cardinality(InFlight')
    BY <1>0, <1>c, <2>1, <2>3, <2>4
  <2>9. listening' => reqRef'[Listener] >= 1
    BY <1>0, <2>1, <2>4, <2>5, <2>6
  <2>10. \A q \in Reqs : pc'[q] = "cb" => reqRef'[q] >= 1
    BY <1>0, <2>1 DEF RefInv
  <2> QED BY <1>c, <2>7, <2>8, <2>9, <2>10 DEF RefInv, RefsHeld
<1>5. ASSUME NEW r \in Reqs, Worker(r) PROVE RefInv'
  <2>1. /\ pc[r] \in WorkerPoints
        /\ pc' \in {[pc EXCEPT ![r] = v] : v \in WorkerPoints \cup {"ready", "done"}}
        /\ UNCHANGED <<listening, sockRef, reqRef>>
    BY <1>0, <1>5, WorkerFrame DEF loopVars
  <2>2. InFlight' \subseteq InFlight /\ \A q \in Reqs : pc'[q] = "cb" => pc[q] = "cb"
    BY <1>0, <2>1 DEF InFlight, WorkerPoints
  <2> QED BY <1>0, <2>1, <2>2, RefFrame
<1>6. ASSUME NEW r \in AllReqs, PostRecvmsg(r) PROVE RefInv'
  <2>1. /\ pc[r] = "ready" /\ listening' = listening
        /\ sockRef' = Released(sockRef)
        /\ \/ pc' = [pc EXCEPT ![r] = "cb"] /\ reqRef' = reqRef
           \/ /\ pc' = [pc EXCEPT ![r] = IF r = Listener THEN "listen" ELSE "done"]
              /\ reqRef' = [reqRef EXCEPT ![r] = Released(@)]
    BY <1>6 DEF PostRecvmsg
  <2>2. CASE listening
    <3>1. sockRef' = sockRef /\ reqRef' = reqRef
      BY <1>0, <2>1, <2>2 DEF Released
    <3>2. InFlight' \subseteq InFlight
      BY <1>0, <2>1 DEF InFlight, WorkerPoints
    <3>3. \A q \in Reqs : pc'[q] = "cb" => reqRef'[q] >= 1
      BY <1>0, <2>1, <3>1 DEF RefInv, RefsHeld, InFlight
    <3>4. Cardinality(InFlight') <= Cardinality(InFlight) /\ Cardinality(InFlight') \in Nat
      BY <1>0, <3>2, InFlightCount, FS_Subset, FS_CardinalityType
    <3>5. /\ sockRef > Cardinality(InFlight) /\ reqRef[Listener] >= 1
          /\ \A q \in InFlight : reqRef[q] >= 1
      BY <1>0, <2>2 DEF RefInv, RefsHeld
    <3>6. sockRef' > Cardinality(InFlight') /\ sockRef' >= Cardinality(InFlight')
      BY <1>0, <1>c, <3>1, <3>4, <3>5
    <3>7. reqRef'[Listener] >= 1 /\ \A q \in InFlight' : reqRef'[q] >= 1
      BY <3>1, <3>2, <3>5
    <3> QED BY <1>c, <3>3, <3>6, <3>7 DEF RefInv, RefsHeld
  <2>3. CASE ~listening
    <3>1. r \in Reqs /\ r \in InFlight /\ r # Listener
      BY <1>0, <2>1, <2>3 DEF ListenInv, AllReqs, InFlight
    <3>2. InFlight' = InFlight \ {r}
      BY <1>0, <2>1, <3>1 DEF InFlight, WorkerPoints
    <3>3. Cardinality(InFlight') = Cardinality(InFlight) - 1
      BY <1>0, <3>1, <3>2, InFlightCount
    <3>4. sockRef >= Cardinality(InFlight) /\ \A q \in InFlight : q \in Reqs /\ reqRef[q] >= 1
      BY <1>0 DEF RefInv, RefsHeld, InFlight
    <3>5. sockRef' = sockRef - 1
      BY <2>1, <2>3 DEF Released
    <3>6. sockRef' >= Cardinality(InFlight')
      BY <1>0, <1>c, <3>3, <3>4, <3>5
    <3>7. \A q \in AllReqs \ {r} : reqRef'[q] = reqRef[q]
      BY <1>0, <2>1
    <3>8. \A q \in InFlight' : reqRef'[q] >= 1
      BY <1>0, <3>2, <3>4, <3>7
    <3>9. \A q \in Reqs : pc'[q] = "cb" => reqRef'[q] >= 1
      <4>1. \A q \in Reqs \ {r} : pc'[q] = "cb" => reqRef'[q] >= 1
        BY <1>0, <2>1, <3>7 DEF RefInv
      <4>2. pc'[r] = "cb" => reqRef'[r] >= 1
        BY <1>0, <2>1, <3>1, <3>4
      <4> QED BY <4>1, <4>2
    <3> QED BY <1>c, <2>1, <2>3, <3>6, <3>8, <3>9 DEF RefInv, RefsHeld
  <2> QED BY <1>0, <2>2, <2>3
<1>7. ASSUME NEW r \in AllReqs, PostReturns(r) PROVE RefInv'
  <2>1. /\ pc[r] = "cb" /\ UNCHANGED <<listening, sockRef>>
        /\ pc' = [pc EXCEPT ![r] = IF r = Listener THEN "listen" ELSE "done"]
        /\ reqRef' = [reqRef EXCEPT ![r] = Released(@)]
    BY <1>7 DEF PostReturns, sockVars
  <2>2. InFlight' = InFlight /\ r \notin InFlight
    BY <1>0, <2>1 DEF InFlight, WorkerPoints
  <2>3. CASE listening
    <3>1. reqRef' = reqRef
      BY <1>0, <2>1, <2>3 DEF Released
    <3>2. \A q \in Reqs : pc'[q] = "cb" => pc[q] = "cb"
      BY <1>0, <2>1
    <3> QED BY <1>0, <2>1, <2>2, <3>1, <3>2, RefFrame
  <2>4. CASE ~listening
    <3>1. \A q \in AllReqs \ {r} : reqRef'[q] = reqRef[q]
      BY <1>0, <2>1
    <3>2. \A q \in InFlight : q \in AllReqs \ {r} /\ reqRef[q] >= 1
      BY <1>0, <2>2 DEF RefInv, RefsHeld, InFlight
    <3>3. \A q \in InFlight' : reqRef'[q] >= 1
      BY <2>2, <3>1, <3>2
    <3>4. sockRef' >= Cardinality(InFlight')
      BY <1>0, <1>c, <2>1, <2>2 DEF RefInv, RefsHeld
    <3>5. pc'[r] # "cb" /\ \A q \in Reqs \ {r} : pc'[q] = pc[q]
      BY <1>0, <2>1
    <3>6. \A q \in Reqs : pc'[q] = "cb" => reqRef'[q] >= 1
      BY <1>0, <3>1, <3>5 DEF RefInv
    <3> QED BY <1>c, <2>1, <2>4, <3>3, <3>4, <3>6 DEF RefInv, RefsHeld
  <2> QED BY <1>0, <2>3, <2>4
<1>8. CASE Poll
  <2>1. /\ UNCHANGED <<listening, sockRef, reqRef>>
        /\ pc' \in {pc} \cup {[pc EXCEPT ![Listener] = v] : v \in {"recv", "blocked", "ready"}}
    BY <1>0, <1>8, PollFrame
  <2>2. \A q \in Reqs : pc'[q] = pc[q]
    BY <1>0, <2>1
  <2> QED BY <1>0, <2>1, <2>2, RefFrame DEF InFlight
<1>9. CASE EventArrives \/ PeerSends \/ UNCHANGED vars
  <2>1. UNCHANGED <<listening, sockRef, reqRef, pc>>
    BY <1>9, EnvironmentFrame DEF sockVars, loopVars, vars
  <2> QED BY <1>0, <2>1, RefFrame DEF InFlight
<1> QED
  BY <1>1, <1>2, <1>3, <1>4, <1>5, <1>6, <1>7, <1>8, <1>9
     DEF Next, Quiescent, JavaScript, Completion

-----------------------------------------------------------------------------
(* Theorems *)

\* The initial state satisfies the inductive invariant.
LEMMA InitIInv == Init => IInv
<1> SUFFICES ASSUME Init PROVE IInv
  OBVIOUS
<1>1. SockTypes /\ KernTypes /\ RecvTypes
  <2>1. /\ sockErr \in BOOLEAN /\ listening \in BOOLEAN /\ polling \in BOOLEAN
        /\ nonblock \in BOOLEAN /\ overrun \in BOOLEAN
    BY Zenon DEF Init
  <2>2. seq \in SeqNumbers /\ sockRef \in Nat
    BY SeqSpaceNat, SMT DEF Init, SeqNumbers
  <2>3. fd = "none" /\ createCb = "none" /\ rcvq = <<>> /\ envCount = 0
        /\ answered = [r \in AllReqs |-> <<>>]
    BY Zenon DEF Init
  <2>4. SockTypes
    BY <2>1, <2>2, <2>3, Zenon DEF SockTypes
  <2>5. rcvq \in Seq(Datagram) /\ envCount \in Nat /\ answered \in [AllReqs -> Seq(Datagram)]
    BY <2>3, SMT
  <2>6. KernTypes
    BY <2>1, <2>5, Zenon DEF KernTypes
  <2>7. RecvTypes
    BY DEF Init, RecvTypes
  <2> QED BY <2>4, <2>6, <2>7
<1>2. SendTypes
  BY SeqSpaceNat DEF Init, SendTypes, SeqNumbers
<1>3. LoopTypes
  BY DEF Init, LoopTypes, Points
<1>4. ListenInv /\ SendInv
  BY DEF Init, ListenInv, SendInv, AllReqs
<1>5. InFlight = {}
  BY DEF Init, InFlight, WorkerPoints, AllReqs
<1>6. RefInv
  BY <1>5, FS_EmptySet DEF Init, RefInv, RefsHeld, AllReqs
<1> QED BY <1>1, <1>2, <1>3, <1>4, <1>6 DEF IInv, TypeOK

\* Every step keeps the inductive invariant.
LEMMA NextIInv == IInv /\ [Next]_vars => IInv'
<1> SUFFICES ASSUME IInv, [Next]_vars PROVE IInv'
  OBVIOUS
<1>1. TypeOK /\ ListenInv /\ SendInv
  BY DEF IInv
<1>2. TypeOK'
  <2>1. CASE UNCHANGED vars
    BY <1>1, <2>1 DEF TypeOK, SockTypes, KernTypes, SendTypes, RecvTypes, LoopTypes, vars,
                      sockVars, kernVars, sendVars, recvVars, loopVars
  <2> QED
    BY <1>1, <2>1, JavaScriptTypes, WorkerTypes, PollTypes, EnvironmentTypes, CompletionTypes
       DEF Next, Quiescent
<1> QED BY <1>1, <1>2, ListenStep, SendStep, RefStep DEF IInv

\* IInv is an invariant.
LEMMA Inductive == Spec => []IInv
  BY InitIInv, NextIInv, PTL DEF Spec

\* Every variable always has its type; in particular the reference counts of the socket
\* and of the requests never go below zero (Unref at netlinksocket.cc:623 and 675).
THEOREM TypeCorrect == Spec => []TypeOK
<1>1. IInv => TypeOK
  BY DEF IInv
<1> QED BY Inductive, <1>1, PTL

\* Workers, completions and the poll handle only use referenced objects.
THEOREM RefsHeldAlways == Spec => []RefsHeld
<1>1. IInv => RefsHeld
  BY DEF IInv, RefInv
<1> QED BY Inductive, <1>1, PTL

-----------------------------------------------------------------------------
(* Replies and callbacks *)

\* The counter that post_recvmsg loops on agrees with the queue it empties.
RepliesCounted == \A r \in AllReqs : replies[r] = Len(replyQ[r])

\* A reply marked iserr always comes with an error on the request itself: the nlError
\* branches of post_recvmsg are never taken.
ErrorRepliesFlagged ==
    \A r \in AllReqs : (\E i \in 1..Len(replyQ[r]) : replyQ[r][i].iserr) => err[r]
RepliesAccounted == RepliesCounted /\ ErrorRepliesFlagged

\* What a step does to a reply queue: nothing, an error on one request, one more
\* datagram, or the emptying of a queue by post_recvmsg.
LEMMA RecvFrame ==
    ASSUME TypeOK, [Next]_vars
    PROVE  \/ UNCHANGED recvVars
           \/ \E r \in AllReqs :
                 \/ UNCHANGED <<replyQ, replies>> /\ err' = [err EXCEPT ![r] = TRUE]
                 \/ rcvq # <<>> /\ TakeDatagram(r)
                 \/ /\ replyQ' = [replyQ EXCEPT ![r] = <<>>]
                    /\ replies' = [replies EXCEPT ![r] = 0]
                    /\ UNCHANGED err
<1>0. Reqs \subseteq AllReqs /\ Listener \in AllReqs
  BY DEF AllReqs
<1>1. CASE Create \/ Close \/ OnRecv \/ UNCHANGED vars
  BY <1>1 DEF Create, Close, OnRecv, vars
<1>2. ASSUME NEW r \in Reqs, JavaScript(r) PROVE UNCHANGED recvVars
  BY <1>2 DEF JavaScript, CreateMsgReq, AddMsgToReq, Sendmsg
<1>3. ASSUME NEW r \in Reqs, Worker(r)
      PROVE  \/ UNCHANGED recvVars
             \/ UNCHANGED <<replyQ, replies>> /\ err' = [err EXCEPT ![r] = TRUE]
             \/ rcvq # <<>> /\ TakeDatagram(r)
  <2>1. CASE DoSendmsg(r) \/ SendFails(r) \/ WorkerFcntl(r) \/ WorkerRecvError(r)
    BY <2>1 DEF DoSendmsg, SendFails, WorkerFcntl, WorkerRecvError, Fail, recvVars
  <2>2. CASE StampHeader(r) \/ StampLast(r) \/ IncrementSeq(r) \/ KernelProcesses(r)
             \/ SendReturns(r) \/ WorkerRecvEmpty(r)
    BY <2>2 DEF StampHeader, StampLast, IncrementSeq, KernelProcesses, SendReturns,
                WorkerRecvEmpty
  <2>3. CASE WorkerRecv(r) \/ WorkerWakes(r)
    BY <2>3 DEF WorkerRecv, WorkerWakes, WorkerTakes
  <2> QED BY <1>3, <2>1, <2>2, <2>3 DEF Worker
<1>4. ASSUME NEW r \in AllReqs, Completion(r)
      PROVE  \/ UNCHANGED recvVars
             \/ /\ replyQ' = [replyQ EXCEPT ![r] = <<>>]
                /\ replies' = [replies EXCEPT ![r] = 0]
                /\ UNCHANGED err
  BY <1>4 DEF Completion, PostRecvmsg, PostReturns, recvVars
<1>5. CASE Poll
  BY <1>0, <1>5 DEF Poll, PollError, PollReadable, PollRecv, PollRecvError, PollRecvEmpty,
                    recvVars
<1>6. CASE EventArrives \/ PeerSends
  BY <1>6, EnvironmentFrame
<1> QED
  BY <1>0, <1>1, <1>2, <1>3, <1>4, <1>5, <1>6 DEF Next, Quiescent

\* Reading a datagram keeps the count and the error flag in step with the queue.
LEMMA TakeReplies ==
    ASSUME TypeOK, RepliesCounted, ErrorRepliesFlagged, NEW r \in AllReqs,
           rcvq # <<>>, TakeDatagram(r)
    PROVE  RepliesCounted' /\ ErrorRepliesFlagged'
<1> DEFINE dg == Head(rcvq)
<1>0. dg \in Datagram
  BY HeadTailProperties DEF TypeOK, KernTypes
<1>1. /\ Accepted(r, dg) \in Seq(Message)
      /\ Replies(r, dg) \in Seq(Reply)
      /\ Len(Replies(r, dg)) = Len(Accepted(r, dg))
      /\ \A i \in 1..Len(Replies(r, dg)) :
            Replies(r, dg)[i].iserr = (Accepted(r, dg)[i].typ = "error")
  BY <1>0, RepliesType
<1>2. /\ replyQ' = [replyQ EXCEPT ![r] = @ \o Replies(r, dg)]
      /\ replies' = [replies EXCEPT ![r] = @ + Len(Replies(r, dg))]
      /\ err' = [err EXCEPT ![r] = @ \/ HasError(r, dg)]
  BY DEF TakeDatagram
<1>e. (\E i \in 1..Len(Accepted(r, dg)) : Accepted(r, dg)[i].typ = "error") => HasError(r, dg)
  BY DEF HasError
<1> HIDE DEF dg
<1>3. /\ replyQ \in [AllReqs -> Seq(Reply)] /\ replies \in [AllReqs -> Nat]
      /\ err \in [AllReqs -> BOOLEAN]
  BY DEF TypeOK, RecvTypes
<1> DEFINE q == replyQ[r]
           new == Replies(r, dg)
<1>4. q \in Seq(Reply) /\ new \in Seq(Reply)
  BY <1>1, <1>3
<1>5. /\ Len(q) \in Nat /\ Len(new) \in Nat
      /\ Len(q \o new) = Len(q) + Len(new)
      /\ \A i \in 1..Len(q) : (q \o new)[i] = q[i]
      /\ \A i \in Len(q)+1..Len(q)+Len(new) : (q \o new)[i] = new[i - Len(q)]
  BY <1>4, ConcatProperties, LenProperties
<1>6. replyQ'[r] = q \o new /\ replies'[r] = replies[r] + Len(new)
      /\ err'[r] = (err[r] \/ HasError(r, dg))
  BY <1>2, <1>3
<1>7. \A s \in AllReqs \ {r} : replyQ'[s] = replyQ[s] /\ replies'[s] = replies[s]
                              /\ err'[s] = err[s]
  BY <1>2, <1>3
<1>8. replies'[r] = Len(replyQ'[r])
  <2>1. replies[r] = Len(q)
    BY DEF RepliesCounted
  <2> QED BY <1>5, <1>6, <2>1
<1>9. (\E i \in 1..Len(replyQ'[r]) : replyQ'[r][i].iserr) => err'[r]
  <2> SUFFICES ASSUME NEW i \in 1..Len(replyQ'[r]), replyQ'[r][i].iserr PROVE err'[r]
    OBVIOUS
  <2>1. i \in 1..(Len(q) + Len(new)) /\ (q \o new)[i].iserr
    BY <1>5, <1>6
  <2>2. CASE i \in 1..Len(q)
    <3>1. q[i].iserr
      BY <1>5, <2>1, <2>2
    <3>2. err[r]
      BY <2>2, <3>1 DEF ErrorRepliesFlagged
    <3> QED BY <1>6, <3>2
  <2>3. CASE i \in Len(q)+1..Len(q)+Len(new)
    <3>1. new[i - Len(q)].iserr /\ i - Len(q) \in 1..Len(new)
      BY <1>5, <2>1, <2>3
    <3>2. Accepted(r, dg)[i - Len(q)].typ = "error" /\ i - Len(q) \in 1..Len(Accepted(r, dg))
      BY <1>1, <3>1
    <3> QED BY <1>6, <1>e, <3>2
  <2> QED BY <1>5, <2>1, <2>2, <2>3
<1> QED
  BY <1>7, <1>8, <1>9 DEF RepliesCounted, ErrorRepliesFlagged

\* Every step keeps the count and the error flag in step with the queues.
LEMMA RepliesStep ==
    ASSUME TypeOK, RepliesCounted, ErrorRepliesFlagged, [Next]_vars
    PROVE  RepliesCounted' /\ ErrorRepliesFlagged'
<1>0. /\ replyQ \in [AllReqs -> Seq(Reply)] /\ replies \in [AllReqs -> Nat]
      /\ err \in [AllReqs -> BOOLEAN]
  BY DEF TypeOK, RecvTypes
<1>1. CASE UNCHANGED recvVars
  BY <1>1 DEF RepliesCounted, ErrorRepliesFlagged, recvVars
<1>2. ASSUME NEW r \in AllReqs, UNCHANGED <<replyQ, replies>>, err' = [err EXCEPT ![r] = TRUE]
      PROVE  RepliesCounted' /\ ErrorRepliesFlagged'
  BY <1>0, <1>2 DEF RepliesCounted, ErrorRepliesFlagged
<1>3. ASSUME NEW r \in AllReqs, rcvq # <<>>, TakeDatagram(r)
      PROVE  RepliesCounted' /\ ErrorRepliesFlagged'
  BY <1>3, TakeReplies
<1>4. ASSUME NEW r \in AllReqs, replyQ' = [replyQ EXCEPT ![r] = <<>>],
             replies' = [replies EXCEPT ![r] = 0], UNCHANGED err
      PROVE  RepliesCounted' /\ ErrorRepliesFlagged'
  <2>1. replyQ'[r] = <<>> /\ replies'[r] = 0
    BY <1>0, <1>4
  <2>2. \A s \in AllReqs \ {r} : replyQ'[s] = replyQ[s] /\ replies'[s] = replies[s]
    BY <1>0, <1>4
  <2> QED BY <1>4, <2>1, <2>2 DEF RepliesCounted, ErrorRepliesFlagged
<1> QED
  BY <1>1, <1>2, <1>3, <1>4, RecvFrame

\* However many threads read the socket, the count that post_recvmsg loops on is the
\* length of the queue it empties, and an error reply sets the error of its request.
LEMMA RepliesAccountedAlways == Spec => []RepliesAccounted
<1>1. Init => RepliesCounted /\ ErrorRepliesFlagged
  BY DEF Init, RepliesCounted, ErrorRepliesFlagged
<1>2. TypeOK /\ RepliesCounted /\ ErrorRepliesFlagged /\ [Next]_vars
        => (RepliesCounted /\ ErrorRepliesFlagged)'
  BY RepliesStep
<1> QED BY TypeCorrect, <1>1, <1>2, PTL DEF Spec, RepliesAccounted

\* What CalledBackOnce says of one request.
CallsOf(r) ==
    Len(calls[r]) = IF /\ post[r] /\ pc[r] \in {"cb", "done"}
                       /\ "send" \in cbs[r] \/ ("reply" \in cbs[r] /\ ~err[r])
                    THEN 1 ELSE 0

\* A completion is due, or its callback runs, only if sendMsg queued it; and until
\* onRecv is called every completion is queued.
PostInv ==
    /\ \A r \in Reqs : pc[r] \in {"ready", "cb"} => post[r]
    /\ pc[Listener] = "free" => \A r \in InFlight : post[r]

\* Every step keeps PostInv.
LEMMA PostStep ==
    ASSUME TypeOK, ListenInv, PostInv, [Next]_vars
    PROVE  PostInv'
<1>0. /\ pc \in [AllReqs -> Points] /\ post \in [AllReqs -> BOOLEAN] /\ listening \in BOOLEAN
      /\ Reqs \subseteq AllReqs /\ Listener \in AllReqs /\ Listener \notin Reqs
  BY NamesDistinct DEF TypeOK, LoopTypes, SendTypes, SockTypes, AllReqs
<1> USE DEF PostInv, InFlight, WorkerPoints
<1>1. CASE Create \/ Close
  BY <1>1 DEF Create, Close, sendVars
<1>2. CASE OnRecv
  <2>1. post' = post /\ pc'[Listener] # "free" /\ \A r \in Reqs : pc'[r] = pc[r]
    BY <1>0, <1>2 DEF OnRecv
  <2> QED BY <2>1
<1>3. ASSUME NEW r \in Reqs, CreateMsgReq(r) \/ AddMsgToReq(r) PROVE PostInv'
  <2>1. post' = post /\ (pc' = pc \/ pc' = [pc EXCEPT ![r] = "made"])
    BY <1>3 DEF CreateMsgReq, AddMsgToReq
  <2> QED BY <1>0, <2>1
<1>4. ASSUME NEW r \in Reqs, Sendmsg(r) PROVE PostInv'
  <2>1. post' = [post EXCEPT ![r] = ~listening] /\ pc' = [pc EXCEPT ![r] = "queued"]
    BY <1>4 DEF Sendmsg
  <2>2. pc[Listener] = "free" => ~listening
    BY DEF ListenInv
  <2>3. \A q \in Reqs \ {r} : post'[q] = post[q] /\ pc'[q] = pc[q]
    BY <1>0, <2>1
  <2>4. pc'[r] = "queued" /\ pc'[Listener] = pc[Listener]
    BY <1>0, <2>1
  <2>5. pc[Listener] = "free" => post'[r]
    BY <1>0, <2>1, <2>2
  <2> QED BY <2>3, <2>4, <2>5
<1>5. ASSUME NEW r \in Reqs, Worker(r) PROVE PostInv'
  <2>1. /\ pc[r] \in WorkerPoints
        /\ pc' \in {[pc EXCEPT ![r] = v] : v \in WorkerPoints \cup {"ready", "done"}}
        /\ pc'[r] \in {"ready", "done"} => pc'[r] = Finished(r)
        /\ post' = post
    BY <1>0, <1>5, WorkerFrame
  <2>2. pc'[r] = "ready" => post[r]
    BY <2>1 DEF Finished
  <2>3. \A q \in AllReqs \ {r} : pc'[q] = pc[q]
    BY <1>0, <2>1
  <2>4. pc'[r] # "cb"
    BY <1>0, <2>1
  <2> QED BY <1>0, <2>1, <2>2, <2>3, <2>4
<1>6. ASSUME NEW r \in AllReqs, Completion(r) PROVE PostInv'
  <2>1. /\ pc[r] \in {"ready", "cb"}
        /\ pc' \in {[pc EXCEPT ![r] = v] : v \in {"cb", IF r = Listener THEN "listen" ELSE "done"}}
        /\ post' = post
    BY <1>6, CompletionFrame DEF sendVars
  <2>2. \A q \in AllReqs \ {r} : pc'[q] = pc[q]
    BY <1>0, <2>1
  <2>3. r \in Reqs => post[r]
    BY <2>1
  <2>4. pc'[r] \in {"cb", "listen", "done"}
    BY <1>0, <2>1
  <2> QED BY <1>0, <2>1, <2>2, <2>3, <2>4
<1>7. CASE Poll
  <2>1. post' = post /\ listening /\ \A r \in Reqs : pc'[r] = pc[r]
    BY <1>0, <1>7, PollFrame DEF sendVars
  <2>2. pc'[Listener] # "free"
    BY <1>0, <1>7, <2>1, PollFrame DEF ListenInv
  <2> QED BY <2>1, <2>2
<1>8. CASE EventArrives \/ PeerSends \/ UNCHANGED vars
  BY <1>8, EnvironmentFrame DEF sendVars, vars
<1> QED
  BY <1>1, <1>2, <1>3, <1>4, <1>5, <1>6, <1>7, <1>8
     DEF Next, Quiescent, JavaScript

\* Every step keeps CalledBackOnce.
LEMMA CallsStep ==
    ASSUME TypeOK, ListenInv, PostInv, CalledBackOnce, [Next]_vars
    PROVE  CalledBackOnce'
<1> SUFFICES ASSUME NEW q \in Reqs PROVE CallsOf(q)'
  BY DEF CalledBackOnce, CallsOf
<1>0. /\ pc \in [AllReqs -> Points] /\ post \in [AllReqs -> BOOLEAN]
      /\ cbs \in [AllReqs -> SUBSET {"send", "reply"}] /\ err \in [AllReqs -> BOOLEAN]
      /\ calls \in [AllReqs -> Seq(Call)]
      /\ Reqs \subseteq AllReqs /\ Listener \in AllReqs /\ Listener \notin Reqs
  BY NamesDistinct DEF TypeOK, LoopTypes, SendTypes, RecvTypes, AllReqs
<1>q. CallsOf(q)
  BY DEF CalledBackOnce, CallsOf
<1>s. ASSUME pc'[q] = pc[q], post'[q] = post[q], cbs'[q] = cbs[q], err'[q] = err[q],
             calls'[q] = calls[q]
      PROVE  CallsOf(q)'
  BY <1>q, <1>s DEF CallsOf
<1>z. ASSUME pc'[q] \notin {"cb", "done"}, calls'[q] = calls[q], pc[q] \notin {"cb", "done"}
      PROVE  CallsOf(q)'
  BY <1>q, <1>z DEF CallsOf
<1>1. CASE Create \/ Close
  BY <1>1, <1>s DEF Create, Close, sendVars, recvVars, loopVars
<1>2. CASE OnRecv
  <2>1. pc'[q] = pc[q] /\ cbs'[q] = cbs[q]
    BY <1>0, <1>2 DEF OnRecv
  <2> QED BY <1>2, <1>s, <2>1 DEF OnRecv, recvVars
<1>3. ASSUME NEW r \in Reqs, JavaScript(r) PROVE CallsOf(q)'
  <2>1. CASE CreateMsgReq(r)
    BY <1>0, <1>q, <2>1 DEF CreateMsgReq, CallsOf, recvVars, loopVars
  <2>2. CASE AddMsgToReq(r)
    BY <1>s, <2>2 DEF AddMsgToReq, recvVars, loopVars
  <2>3. CASE Sendmsg(r)
    <3>0. /\ pc[r] = "made" /\ pc' = [pc EXCEPT ![r] = "queued"]
          /\ post' = [post EXCEPT ![r] = ~listening] /\ calls' = calls /\ err' = err
          /\ \E mode \in CbModes : cbs' = [cbs EXCEPT ![r] = mode]
      BY <2>3 DEF Sendmsg, recvVars
    <3>1. CASE q = r
      BY <1>0, <1>z, <3>0, <3>1
    <3>2. CASE q # r
      BY <1>0, <1>s, <3>0, <3>2
    <3> QED BY <3>1, <3>2
  <2> QED BY <1>3, <2>1, <2>2, <2>3 DEF JavaScript
<1>4. ASSUME NEW r \in Reqs, Worker(r) PROVE CallsOf(q)'
  <2>1. /\ pc[r] \in WorkerPoints
        /\ pc' \in {[pc EXCEPT ![r] = v] : v \in WorkerPoints \cup {"ready", "done"}}
        /\ pc'[r] \in {"ready", "done"} => pc'[r] = Finished(r)
        /\ UNCHANGED <<post, cbs, calls>>
    BY <1>4, WorkerFrame DEF loopVars
  <2>2. CASE q = r
    <3>1. pc[q] \notin {"cb", "done"} /\ pc'[q] # "cb"
      BY <1>0, <2>1, <2>2 DEF WorkerPoints
    <3>2. pc'[q] = "done" => ~post[q]
      BY <1>0, <2>1, <2>2 DEF Finished
    <3> QED BY <1>q, <2>1, <3>1, <3>2 DEF CallsOf
  <2>3. CASE q # r
    <3>1. pc'[q] = pc[q]
      BY <1>0, <2>1, <2>3
    <3>2. err'[q] = err[q]
      <4>0. r \in AllReqs /\ q \in AllReqs
        BY <1>0
      <4>1. CASE DoSendmsg(r) \/ SendFails(r) \/ WorkerFcntl(r) \/ WorkerRecvError(r)
        BY <1>0, <2>3, <4>0, <4>1 DEF DoSendmsg, SendFails, WorkerFcntl, WorkerRecvError, Fail
      <4>2. CASE StampHeader(r) \/ StampLast(r) \/ IncrementSeq(r) \/ KernelProcesses(r)
                 \/ SendReturns(r) \/ WorkerRecvEmpty(r)
        BY <4>2 DEF StampHeader, StampLast, IncrementSeq, KernelProcesses, SendReturns,
                    WorkerRecvEmpty, recvVars
      <4>3. CASE WorkerRecv(r) \/ WorkerWakes(r)
        BY <1>0, <2>3, <4>0, <4>3 DEF WorkerRecv, WorkerWakes, WorkerTakes, TakeDatagram
      <4> QED BY <1>4, <4>1, <4>2, <4>3 DEF Worker
    <3> QED BY <1>s, <2>1, <3>1, <3>2
  <2> QED BY <2>2, <2>3
<1>5. ASSUME NEW r \in AllReqs, PostRecvmsg(r) PROVE CallsOf(q)'
  <2> DEFINE call == IF err[r] THEN ErrorCall(r) ELSE ReplyCall(r)
  <2>1. /\ pc[r] = "ready" /\ calls' = [calls EXCEPT ![r] = @ \o call]
        /\ pc' = [pc EXCEPT ![r] = IF call # <<>> THEN "cb"
                                   ELSE IF r = Listener THEN "listen" ELSE "done"]
        /\ UNCHANGED <<post, cbs, err>>
    BY <1>5 DEF PostRecvmsg, sendVars
  <2>2. call \in Seq(Call) /\ Len(call) \in {0, 1}
    BY CallType DEF TypeOK
  <2>3. CASE q # r
    <3>1. calls'[q] = calls[q] /\ pc'[q] = pc[q]
      <4> HIDE DEF call
      <4> QED BY <1>0, <2>1, <2>3
    <3> QED BY <1>s, <2>1, <3>1
  <2>4. CASE q = r
    <3>1. post[q] /\ Len(calls[q]) = 0
      BY <1>q, <2>1, <2>4 DEF PostInv, CallsOf
    <3>2. Len(call) = IF "send" \in cbs[q] \/ ("reply" \in cbs[q] /\ ~err[q]) THEN 1 ELSE 0
      <4>1. CASE err[q]
        BY <2>4, <4>1 DEF ErrorCall
      <4>2. CASE ~err[q]
        <5>1. "reply" \in cbs[q] \/ "send" \in cbs[q] => Len(ReplyCall(q)) = 1
          BY DEF ReplyCall
        <5>2. ~("reply" \in cbs[q] \/ "send" \in cbs[q]) => Len(ReplyCall(q)) = 0
          BY DEF ReplyCall
        <5> QED BY <2>4, <4>2, <5>1, <5>2
      <4> QED BY <1>0, <4>1, <4>2
    <3> HIDE DEF call
    <3>3. calls'[q] = calls[q] \o call /\ pc'[q] \in {"cb", "done"}
      BY <1>0, <2>1, <2>4
    <3>4. Len(calls[q] \o call) = Len(calls[q]) + Len(call)
      <4>1. calls[q] \in Seq(Call)
        BY <1>0
      <4> QED BY <2>2, <4>1, ConcatProperties
    <3>5. Len(calls'[q]) = Len(call)
      BY <2>2, <3>1, <3>3, <3>4
    <3> QED BY <2>1, <3>1, <3>2, <3>3, <3>5 DEF CallsOf
  <2> QED BY <2>3, <2>4
<1>6. ASSUME NEW r \in AllReqs, PostReturns(r) PROVE CallsOf(q)'
  <2>1. /\ pc[r] = "cb" /\ UNCHANGED <<post, cbs, err, calls>>
        /\ pc' = [pc EXCEPT ![r] = IF r = Listener THEN "listen" ELSE "done"]
    BY <1>6 DEF PostReturns, sendVars, recvVars
  <2>2. CASE q = r
    <3>1. pc'[q] = "done" /\ pc[q] = "cb"
      BY <1>0, <2>1, <2>2
    <3> QED BY <1>q, <2>1, <3>1 DEF CallsOf
  <2>3. CASE q # r
    BY <1>0, <1>s, <2>1, <2>3
  <2> QED BY <2>2, <2>3
<1>7. CASE Poll
  <2>1. pc'[q] = pc[q] /\ UNCHANGED <<post, cbs, calls>>
    BY <1>0, <1>7, PollFrame DEF sendVars
  <2>2. err'[q] = err[q]
    BY <1>0, <1>7 DEF Poll, PollError, PollReadable, PollRecv, PollRecvError, PollRecvEmpty,
                      TakeDatagram, recvVars
  <2> QED BY <1>s, <2>1, <2>2
<1>8. CASE EventArrives \/ PeerSends \/ UNCHANGED vars
  BY <1>8, <1>s, EnvironmentFrame DEF sendVars, recvVars, loopVars, vars
<1> QED
  BY <1>1, <1>2, <1>3, <1>4, <1>5, <1>6, <1>7, <1>8 DEF Next, Quiescent, Completion

\* Initially no completion is queued and nothing has been called back.
LEMMA InitCalls == Init => PostInv /\ CalledBackOnce
<1> SUFFICES ASSUME Init PROVE PostInv /\ CalledBackOnce
  OBVIOUS
<1>1. \A r \in Reqs : pc[r] = "free" /\ calls[r] = <<>>
  BY DEF Init, AllReqs
<1>2. PostInv
  BY <1>1 DEF PostInv, InFlight, WorkerPoints
<1>3. CalledBackOnce
  BY <1>1 DEF CalledBackOnce
<1> QED BY <1>2, <1>3

\* A request with a send callback whose completion sendMsg queued is called back exactly
\* once, whatever fails, and never before its completion runs.
THEOREM CalledBackOnceAlways == Spec => []CalledBackOnce
<1>1. IInv => TypeOK /\ ListenInv
  BY DEF IInv
<1>2. TypeOK /\ ListenInv /\ PostInv /\ CalledBackOnce /\ [Next]_vars
        => (PostInv /\ CalledBackOnce)'
  BY PostStep, CallsStep
<1> QED BY Inductive, InitCalls, <1>1, <1>2, PTL DEF Spec

\* Every step keeps RefsBalanced.
LEMMA BalanceStep ==
    ASSUME TypeOK, ListenInv, PostInv, RefsBalanced, [Next]_vars
    PROVE  RefsBalanced'
<1>0. /\ pc \in [AllReqs -> Points] /\ reqRef \in [AllReqs -> Nat] /\ sockRef \in Nat
      /\ listening \in BOOLEAN
      /\ Reqs \subseteq AllReqs /\ Listener \in AllReqs /\ Listener \notin Reqs
  BY NamesDistinct DEF TypeOK, LoopTypes, SockTypes, AllReqs
<1>c. /\ Cardinality(InFlight) \in Nat
      /\ Cardinality(InFlight)' = Cardinality(InFlight')
  BY InFlightCount
<1> DEFINE Held(q) == IF q \in InFlight \/ pc[q] = "cb" THEN 1 ELSE 0
<1>s. ASSUME InFlight' = InFlight, sockRef' = sockRef,
             pc'[Listener] = "free" => pc[Listener] = "free",
             \A q \in Reqs : reqRef'[q] = reqRef[q] /\ (pc'[q] = "cb" <=> pc[q] = "cb")
      PROVE  RefsBalanced'
  BY <1>c, <1>s DEF RefsBalanced
<1>1. CASE Create \/ Close \/ EventArrives \/ PeerSends \/ UNCHANGED vars
  <2>1. UNCHANGED <<pc, sockRef, reqRef>>
    BY <1>1, EnvironmentFrame DEF Create, Close, sockVars, loopVars, vars
  <2> QED BY <1>s, <2>1 DEF InFlight
<1>2. CASE OnRecv
  <2>1. pc'[Listener] # "free"
    BY <1>0, <1>2 DEF OnRecv
  <2> QED BY <2>1 DEF RefsBalanced
<1>3. CASE Poll
  <2>1. pc'[Listener] # "free"
    BY <1>0, <1>3, PollFrame DEF ListenInv
  <2> QED BY <2>1 DEF RefsBalanced
<1>4. ASSUME pc[Listener] # "free", pc'[Listener] = pc[Listener] PROVE RefsBalanced'
  BY <1>4 DEF RefsBalanced
<1>5. ASSUME NEW r \in Reqs, CreateMsgReq(r) \/ AddMsgToReq(r) PROVE RefsBalanced'
  <2>1. UNCHANGED <<sockRef, reqRef>>
        /\ (pc' = pc \/ (pc[r] = "free" /\ pc' = [pc EXCEPT ![r] = "made"]))
    BY <1>5 DEF CreateMsgReq, AddMsgToReq, sockVars, loopVars
  <2>2. InFlight' = InFlight /\ \A q \in Reqs : pc'[q] = "cb" <=> pc[q] = "cb"
    BY <1>0, <2>1 DEF InFlight, WorkerPoints
  <2>3. pc'[Listener] = pc[Listener]
    BY <1>0, <2>1
  <2> QED BY <1>s, <2>1, <2>2, <2>3
<1>6. ASSUME NEW r \in Reqs, Sendmsg(r) PROVE RefsBalanced'
  <2>1. /\ pc[r] = "made" /\ pc' = [pc EXCEPT ![r] = "queued"]
        /\ sockRef' = sockRef + 1 /\ reqRef' = [reqRef EXCEPT ![r] = @ + 1]
    BY <1>6 DEF Sendmsg
  <2>2. r \notin InFlight /\ InFlight' = InFlight \cup {r} /\ pc'[Listener] = pc[Listener]
    BY <1>0, <2>1 DEF InFlight, WorkerPoints
  <2>3. Cardinality(InFlight') = Cardinality(InFlight) + 1
    BY <2>2, InFlightCount
  <2>4. \A q \in Reqs \ {r} : reqRef'[q] = reqRef[q] /\ pc'[q] = pc[q]
    BY <1>0, <2>1
  <2>5. reqRef'[r] = reqRef[r] + 1
    BY <1>0, <2>1
  <2>6. CASE pc[Listener] = "free"
    <3>1. sockRef = Cardinality(InFlight) /\ \A q \in Reqs : reqRef[q] = Held(q)
      BY <2>6 DEF RefsBalanced
    <3>2. sockRef' = Cardinality(InFlight')
      BY <1>0, <1>c, <2>1, <2>3, <3>1
    <3>3. reqRef'[r] = 1 /\ r \in InFlight'
      BY <2>1, <2>2, <2>5, <3>1
    <3>4. \A q \in Reqs \ {r} : reqRef'[q] = Held(q) /\ (q \in InFlight' <=> q \in InFlight)
      BY <2>2, <2>4, <3>1
    <3> QED BY <1>c, <2>4, <3>2, <3>3, <3>4 DEF RefsBalanced
  <2> QED BY <1>4, <2>2, <2>6
<1>7. ASSUME NEW r \in Reqs, Worker(r) PROVE RefsBalanced'
  <2>1. /\ pc[r] \in WorkerPoints
        /\ pc' \in {[pc EXCEPT ![r] = v] : v \in WorkerPoints \cup {"ready", "done"}}
        /\ pc'[r] \in {"ready", "done"} => pc'[r] = Finished(r)
        /\ UNCHANGED <<sockRef, reqRef>>
    BY <1>7, WorkerFrame DEF loopVars
  <2>2. pc'[Listener] = pc[Listener] /\ \A q \in Reqs \ {r} : pc'[q] = pc[q]
    BY <1>0, <2>1
  <2>3. CASE pc[Listener] = "free"
    <3>1. post[r]
      BY <2>1, <2>3 DEF PostInv, InFlight
    <3>2. pc'[r] \in WorkerPoints \cup {"ready"}
      BY <1>0, <2>1, <3>1 DEF Finished
    <3>3. InFlight' = InFlight
      BY <1>0, <2>1, <2>2, <3>2 DEF InFlight
    <3>4. \A q \in Reqs : pc'[q] = "cb" <=> pc[q] = "cb"
      BY <2>1, <2>2, <3>2 DEF WorkerPoints
    <3> QED BY <1>s, <2>1, <2>2, <3>3, <3>4
  <2> QED BY <1>4, <2>2, <2>3
<1>8. ASSUME NEW r \in AllReqs, Completion(r) PROVE RefsBalanced'
  <2>1. CASE r = Listener
    <3>1. pc'[Listener] # "free"
      BY <1>0, <1>8, <2>1, CompletionFrame
    <3> QED BY <3>1 DEF RefsBalanced
  <2>2. CASE r # Listener /\ pc[Listener] # "free"
    <3>1. pc'[Listener] = pc[Listener]
      BY <1>0, <1>8, <2>2, CompletionFrame
    <3> QED BY <1>4, <2>2, <3>1
  <2>3. CASE r # Listener /\ pc[Listener] = "free"
    <3>0. r \in Reqs /\ ~listening
      BY <1>0, <2>3 DEF AllReqs, ListenInv
    <3>1. sockRef = Cardinality(InFlight) /\ \A q \in Reqs : reqRef[q] = Held(q)
      BY <2>3 DEF RefsBalanced
    <3>2. CASE PostRecvmsg(r)
      <4>1. /\ pc[r] = "ready" /\ sockRef' = sockRef - 1
            /\ \/ pc' = [pc EXCEPT ![r] = "cb"] /\ reqRef' = reqRef
               \/ pc' = [pc EXCEPT ![r] = "done"] /\ reqRef' = [reqRef EXCEPT ![r] = @ - 1]
        BY <2>3, <3>0, <3>2 DEF PostRecvmsg, Released
      <4>2. r \in InFlight /\ InFlight' = InFlight \ {r}
        BY <1>0, <3>0, <4>1 DEF InFlight, WorkerPoints
      <4>3. sockRef' = Cardinality(InFlight')
        BY <1>0, <1>c, <3>1, <4>1, <4>2, InFlightCount
      <4>4. \A q \in Reqs \ {r} : reqRef'[q] = Held(q) /\ pc'[q] = pc[q]
                                 /\ (q \in InFlight' <=> q \in InFlight)
        BY <1>0, <3>1, <4>1, <4>2
      <4>5. reqRef'[r] = IF pc'[r] = "cb" THEN 1 ELSE 0
        BY <1>0, <3>0, <3>1, <4>1, <4>2
      <4>6. r \notin InFlight'
        BY <4>2
      <4> QED BY <1>c, <4>3, <4>4, <4>5, <4>6 DEF RefsBalanced
    <3>3. CASE PostReturns(r)
      <4>1. /\ pc[r] = "cb" /\ sockRef' = sockRef
            /\ pc' = [pc EXCEPT ![r] = "done"] /\ reqRef' = [reqRef EXCEPT ![r] = @ - 1]
        BY <2>3, <3>0, <3>3 DEF PostReturns, Released, sockVars
      <4>2. InFlight' = InFlight /\ r \notin InFlight
        BY <1>0, <3>0, <4>1 DEF InFlight, WorkerPoints
      <4>3. \A q \in Reqs \ {r} : reqRef'[q] = Held(q) /\ pc'[q] = pc[q]
        BY <1>0, <3>1, <4>1
      <4>4. reqRef'[r] = 0 /\ pc'[r] = "done"
        BY <1>0, <3>0, <3>1, <4>1
      <4> QED BY <1>c, <3>1, <4>1, <4>2, <4>3, <4>4 DEF RefsBalanced
    <3> QED BY <1>8, <3>2, <3>3 DEF Completion
  <2> QED BY <2>1, <2>2, <2>3
<1> QED
  BY <1>1, <1>2, <1>3, <1>5, <1>6, <1>7, <1>8 DEF Next, Quiescent, JavaScript

\* As long as onRecv has not been called, references are taken and released in pairs:
\* one on the socket for each request in flight, none on a finished request.
THEOREM RefsBalancedAlways == Spec => []RefsBalanced
<1>1. IInv => TypeOK /\ ListenInv
  BY DEF IInv
<1>2. TypeOK /\ ListenInv /\ PostInv /\ RefsBalanced /\ [Next]_vars
        => (PostInv /\ RefsBalanced)'
  BY PostStep, BalanceStep
<1>3. Init => PostInv /\ RefsBalanced
  <2> SUFFICES ASSUME Init PROVE PostInv /\ RefsBalanced
    OBVIOUS
  <2>1. \A r \in Reqs : pc[r] = "free" /\ reqRef[r] = 0
    BY DEF Init, AllReqs
  <2>2. InFlight = {} /\ sockRef = 0
    BY <2>1 DEF Init, InFlight, WorkerPoints
  <2>3. RefsBalanced
    BY <2>1, <2>2, FS_EmptySet DEF RefsBalanced
  <2> QED BY <2>3, InitCalls
<1> QED BY Inductive, <1>1, <1>2, <1>3, PTL DEF Spec
=============================================================================
