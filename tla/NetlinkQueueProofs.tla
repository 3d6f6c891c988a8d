------------------------- MODULE NetlinkQueueProofs -------------------------
(***************************************************************************)
(* Proofs about what passes through the kernel's receive queue: who reads  *)
(* it, in which order its messages come out, under which sequence numbers  *)
(* and to whom; and, for a socket used one request at a time, that it      *)
(* implements the safety part of RequestService.  They rest on the         *)
(* invariant IInv of NetlinkSocketProofs.                                  *)
(***************************************************************************)
EXTENDS NetlinkSocketProofs

-----------------------------------------------------------------------------
(* The loop thread and its rivals *)

\* A worker that receives was sent before onRecv, the loop thread stays with the
\* listener until its callback is over, nobody closes the socket under the poll
\* callback, and whatever empties the queue under it is a rival.
RivalInv ==
    /\ \A r \in Reqs : pc[r] \in {"fcntl", "recv", "blocked"} => post[r]
    /\ \A r \in Reqs : pc[r] \in WorkerPoints /\ ~post[r] => listening
    /\ pc[Listener] \in {"recv", "blocked", "ready", "cb"} => loop = Listener
    /\ pc[Listener] \in {"recv", "blocked"} => fd = "open"
    /\ pc[Listener] = "recv" => rcvq # <<>> \/ overrun \/ Rivals # {}
    /\ pc[Listener] = "blocked" => Rivals # {}

\* Something to read stays something to read when more arrives.
LEMMA DeliverKeeps ==
    ASSUME KernTypes, NEW dgs \in Seq(Datagram), Deliver(dgs), rcvq # <<>> \/ overrun
    PROVE  rcvq' # <<>> \/ overrun'
<1>1. CASE overrun
  BY <1>1 DEF Deliver, KernTypes
<1>2. CASE rcvq # <<>>
  <2>1. rcvq \in Seq(Datagram) /\ Len(rcvq) \in Nat /\ Len(rcvq) # 0
    BY <1>2, EmptySeq, LenProperties DEF KernTypes
  <2>2. rcvq \o dgs \in Seq(Datagram) /\ Len(rcvq \o dgs) = Len(rcvq) + Len(dgs) /\ Len(dgs) \in Nat
    BY <2>1, ConcatProperties, LenProperties
  <2>3. rcvq \o dgs # <<>>
    BY <2>1, <2>2
  <2>4. CASE Len(rcvq \o dgs) <= RcvCap
    BY <2>3, <2>4 DEF Deliver
  <2>5. CASE Len(rcvq \o dgs) > RcvCap
    BY <2>5 DEF Deliver
  <2> QED BY <2>1, <2>2, <2>4, <2>5, BoundsNat
<1> QED BY <1>1, <1>2

\* What a worker does to its rivalry: it keeps its place among the rivals, and it is
\* one of them if it takes from the queue or clears an overrun.
LEMMA WorkerRivals ==
    ASSUME TypeOK, SendInv, ListenInv, RivalInv, NEW r \in Reqs, Worker(r)
    PROVE  /\ pc'[r] \in {"fcntl", "recv", "blocked"} => post[r]
           /\ Rivals \subseteq Rivals'
           /\ Rivals' = {} /\ fd = "open" => (rcvq # <<>> \/ overrun => rcvq' # <<>> \/ overrun')
<1>0. /\ pc \in [AllReqs -> Points] /\ Listener \notin Reqs /\ Reqs \subseteq AllReqs
      /\ post \in [AllReqs -> BOOLEAN] /\ r \in AllReqs
  BY NamesDistinct DEF TypeOK, LoopTypes, SendTypes, AllReqs
<1>1. /\ pc[r] \in WorkerPoints
      /\ pc' \in {[pc EXCEPT ![r] = v] : v \in WorkerPoints \cup {"ready", "done"}}
      /\ pc'[r] \in {"ready", "done"} => pc'[r] = Finished(r)
      /\ UNCHANGED <<listening, post, loop>>
  BY WorkerFrame DEF loopVars
<1>2. /\ \A q \in AllReqs \ {r} : pc'[q] = pc[q]
      /\ pc'[r] \in WorkerPoints \cup {"ready", "done"}
  BY <1>0, <1>1
<1>3. post[r] => r \in Rivals /\ r \in Rivals'
  BY <1>1, <1>2 DEF Rivals, InFlight, Finished
<1>4. Rivals \subseteq Rivals'
  BY <1>0, <1>1, <1>2, <1>3 DEF Rivals, InFlight
<1>5. CASE pc[r] \in {"fcntl", "recv", "blocked"}
  <2>1. post[r]
    BY <1>5 DEF RivalInv
  <2> QED BY <1>3, <1>4, <2>1
<1>6. CASE KernelProcesses(r)
  <2>1. PICK shape \in Shapes : Deliver(Answer(r, sent[r] + 1, shape))
    BY <1>6 DEF KernelProcesses
  <2>2. Answer(r, sent[r] + 1, shape) \in Seq(Datagram)
    BY <1>6, AnswerType DEF KernelProcesses
  <2>3. rcvq # <<>> \/ overrun => rcvq' # <<>> \/ overrun'
    BY <2>1, <2>2, DeliverKeeps DEF TypeOK
  <2>4. pc'[r] = "send"
    BY <1>6 DEF KernelProcesses
  <2> QED BY <1>4, <2>3, <2>4
<1>7. CASE SendReturns(r)
  <2>1. /\ overrun' = overrun /\ (fd = "open" => rcvq' = rcvq) /\ pc[r] = "send"
        /\ pc' = [pc EXCEPT ![r] = IF listening THEN Finished(r) ELSE "fcntl"]
    BY <1>7 DEF SendReturns, LeftBy
  <2>2. pc'[r] \in {"fcntl", "recv", "blocked"} => ~listening
    BY <1>0, <2>1 DEF Finished
  <2>3. ~post[r] => listening
    BY <1>1 DEF RivalInv
  <2> QED BY <1>4, <2>1, <2>2, <2>3
<1>8. CASE DoSendmsg(r) \/ StampHeader(r) \/ StampLast(r) \/ IncrementSeq(r) \/ SendFails(r)
  <2>1. pc'[r] \notin {"fcntl", "recv", "blocked"} /\ UNCHANGED <<rcvq, overrun>>
    BY <1>0, <1>8 DEF DoSendmsg, StampHeader, StampLast, IncrementSeq, SendFails, Fail, Finished,
       kernVars
  <2> QED BY <1>4, <2>1
<1>9. CASE \/ WorkerFcntl(r) \/ WorkerRecvError(r) \/ WorkerRecv(r) \/ WorkerRecvEmpty(r)
           \/ WorkerWakes(r)
  BY <1>5, <1>9 DEF WorkerFcntl, WorkerRecvError, WorkerRecv, WorkerRecvEmpty, WorkerWakes
<1> QED BY <1>6, <1>7, <1>8, <1>9 DEF Worker

\* Every step keeps RivalInv.
LEMMA RivalStep ==
    ASSUME IInv, PostInv, RivalInv, [Next]_vars
    PROVE  RivalInv'
<1>0. /\ pc \in [AllReqs -> Points] /\ Listener \notin Reqs /\ Reqs \subseteq AllReqs
      /\ post \in [AllReqs -> BOOLEAN] /\ Listener \in AllReqs /\ listening \in BOOLEAN
      /\ TypeOK /\ ListenInv /\ SendInv /\ NoReq \notin AllReqs
  BY NamesDistinct DEF IInv, TypeOK, LoopTypes, SendTypes, SockTypes, AllReqs
<1>1. CASE Create \/ Close
  <2>1. UNCHANGED <<pc, listening, post, loop, overrun>> /\ JsRuns /\ (Create => rcvq' = rcvq)
        /\ (Create => fd' \in {"open", "bad"} /\ fd = "none")
    BY <1>1 DEF Create, Close, kernVars, sendVars, loopVars
  <2>2. pc[Listener] \notin {"recv", "blocked"}
    BY <1>0, <2>1 DEF RivalInv, JsRuns
  <2> QED BY <2>1, <2>2 DEF RivalInv
<1>2. CASE OnRecv
  <2>1. /\ pc[Listener] = "free" /\ pc'[Listener] \in {"listen", "done"}
        /\ \A q \in Reqs : pc'[q] = pc[q]
        /\ post' = post
    BY <1>0, <1>2 DEF OnRecv
  <2>2. \A q \in Reqs : pc[q] \in WorkerPoints => post[q]
    BY <2>1 DEF PostInv, InFlight
  <2> QED BY <2>1, <2>2 DEF RivalInv
<1>3. ASSUME NEW r \in Reqs, JavaScript(r) PROVE RivalInv'
  <2>1. /\ UNCHANGED <<fd, listening, rcvq, overrun, loop>> /\ pc[r] \in {"free", "made"}
        /\ pc'[r] \in {"made", "queued"} /\ \A q \in AllReqs \ {r} : pc'[q] = pc[q]
        /\ (post' = post \/ post' = [post EXCEPT ![r] = ~listening])
        /\ (pc'[r] = "queued" => post' = [post EXCEPT ![r] = ~listening])
    BY <1>0, <1>3 DEF JavaScript, CreateMsgReq, AddMsgToReq, Sendmsg, kernVars, sockVars, loopVars
  <2>2. /\ \A q \in Reqs \ {r} : post'[q] = post[q]
        /\ pc'[r] = "queued" => (post'[r] <=> ~listening)
    BY <1>0, <2>1
  <2>3. Rivals \subseteq Rivals'
    BY <1>0, <2>1, <2>2 DEF Rivals, InFlight, WorkerPoints
  <2>4. /\ \A q \in Reqs : pc'[q] \in {"fcntl", "recv", "blocked"} => post'[q]
        /\ \A q \in Reqs : pc'[q] \in WorkerPoints /\ ~post'[q] => listening'
    BY <1>0, <2>1, <2>2 DEF RivalInv, WorkerPoints
  <2>5. pc'[Listener] = pc[Listener] /\ Listener # r
    BY <1>0, <2>1
  <2> QED BY <2>1, <2>3, <2>4, <2>5 DEF RivalInv
<1>4. ASSUME NEW r \in Reqs, Worker(r) PROVE RivalInv'
  <2>1. /\ pc' \in {[pc EXCEPT ![r] = v] : v \in WorkerPoints \cup {"ready", "done"}}
        /\ pc[r] \in WorkerPoints /\ UNCHANGED <<fd, listening, post, loop>>
    BY <1>0, <1>4, WorkerFrame DEF loopVars
  <2>2. \A q \in AllReqs \ {r} : pc'[q] = pc[q]
    BY <1>0, <2>1
  <2>3. /\ pc'[r] \in {"fcntl", "recv", "blocked"} => post[r]
        /\ Rivals \subseteq Rivals'
        /\ Rivals' = {} /\ fd = "open" => (rcvq # <<>> \/ overrun => rcvq' # <<>> \/ overrun')
    BY <1>0, <1>4, WorkerRivals
  <2>4. /\ \A q \in Reqs : pc'[q] \in {"fcntl", "recv", "blocked"} => post'[q]
        /\ \A q \in Reqs : pc'[q] \in WorkerPoints /\ ~post'[q] => listening'
    BY <1>0, <2>1, <2>2, <2>3 DEF RivalInv
  <2>5. pc'[Listener] = pc[Listener]
    BY <1>0, <2>2
  <2> QED BY <2>1, <2>3, <2>4, <2>5 DEF RivalInv
<1>5. ASSUME NEW r \in AllReqs, Completion(r) PROVE RivalInv'
  <2>1. /\ pc[r] \in {"ready", "cb"}
        /\ pc' \in {[pc EXCEPT ![r] = v] : v \in {"cb", IF r = Listener THEN "listen" ELSE "done"}}
        /\ UNCHANGED <<listening, post>>
    BY <1>0, <1>5, CompletionFrame DEF sendVars
  <2>2. /\ pc'[r] \in {"cb", "listen", "done"} /\ \A q \in AllReqs \ {r} : pc'[q] = pc[q]
        /\ (r # Listener => pc'[r] # "listen") /\ (r = Listener => pc'[r] # "done")
    BY <1>0, <2>1
  <2>3. /\ \A q \in Reqs : pc'[q] \in {"fcntl", "recv", "blocked"} => post'[q]
        /\ \A q \in Reqs : pc'[q] \in WorkerPoints /\ ~post'[q] => listening'
    BY <1>0, <2>1, <2>2 DEF RivalInv, WorkerPoints
  <2>4. CASE r = Listener
    <3>1. pc'[Listener] = "cb" => loop' = Listener
      BY <1>0, <1>5, <2>4 DEF Completion, PostRecvmsg, PostReturns
    <3> QED BY <2>2, <2>3, <2>4, <3>1 DEF RivalInv
  <2>5. CASE r # Listener
    <3>1. loop # Listener
      BY <1>0, <1>5, <2>5 DEF Completion, PostRecvmsg, PostReturns
    <3>2. pc'[Listener] = pc[Listener] /\ pc[Listener] \notin {"recv", "blocked", "ready", "cb"}
      BY <1>0, <2>2, <2>5, <3>1 DEF RivalInv
    <3> QED BY <2>3, <3>2 DEF RivalInv
  <2> QED BY <2>4, <2>5
<1>6. CASE Poll
  <2>1. /\ \A q \in Reqs : pc'[q] = pc[q]
        /\ UNCHANGED <<listening, post>>
    BY <1>0, <1>6, PollFrame DEF sendVars
  <2>2. Rivals' = Rivals
    BY <2>1 DEF Rivals, InFlight
  <2>3. CASE PollError
    BY <2>1, <2>2, <2>3 DEF PollError, RivalInv, kernVars, loopVars
  <2>4. CASE PollReadable
    BY <1>0, <2>1, <2>2, <2>4 DEF PollReadable, RivalInv, sockVars
  <2>5. CASE PollRecv \/ PollRecvError
    <3>1. pc'[Listener] = "ready" /\ loop' = Listener
      BY <1>0, <2>5 DEF PollRecv, PollRecvError, AfterPollRead, loopVars
    <3> QED BY <2>1, <3>1 DEF RivalInv
  <2>6. CASE PollRecvEmpty
    <3>1. /\ pc'[Listener] \in {"ready", "blocked"} /\ loop' = Listener /\ fd' = fd
          /\ pc[Listener] = "recv" /\ ~overrun /\ rcvq = <<>>
      BY <1>0, <2>6 DEF PollRecvEmpty, loopVars, sockVars
    <3> QED BY <2>1, <2>2, <3>1 DEF RivalInv
  <2> QED BY <1>6, <2>3, <2>4, <2>5, <2>6 DEF Poll
<1>7. CASE EventArrives \/ PeerSends
  <2>1. UNCHANGED <<fd, listening, pc, post, loop>>
    BY <1>7, EnvironmentFrame DEF sockVars, sendVars, loopVars
  <2>2. Rivals' = Rivals
    BY <2>1 DEF Rivals, InFlight
  <2>3. rcvq # <<>> \/ overrun => rcvq' # <<>> \/ overrun'
    <3>1. PICK pid \in {0, 1}, typ \in {"data", "bare"}, s \in {0, FirstSeq} : Arrives(pid, typ, s)
      BY <1>7 DEF EventArrives, PeerSends
    <3> DEFINE dgs == <<[pid |-> pid, trunc |-> FALSE,
                         msgs |-> <<[src |-> Env, n |-> envCount + 1, d |-> 1, k |-> 1,
                                     typ |-> typ, seq |-> s]>>]>>
    <3>2. Deliver(dgs)
      BY <3>1 DEF Arrives
    <3>3. dgs \in Seq(Datagram)
      <4>1. envCount + 1 \in Nat /\ s \in SeqNumbers /\ typ \in Kinds
        BY <1>0, SeqSpaceNat DEF TypeOK, KernTypes, SeqNumbers, Kinds
      <4>2. [src |-> Env, n |-> envCount + 1, d |-> 1, k |-> 1, typ |-> typ, seq |-> s] \in Message
        BY <4>1 DEF Message
      <4> QED BY <4>2 DEF Datagram
    <3> QED BY <1>0, <3>2, <3>3, DeliverKeeps DEF TypeOK
  <2> QED BY <2>1, <2>2, <2>3 DEF RivalInv
<1>8. CASE UNCHANGED vars
  BY <1>8 DEF RivalInv, Rivals, InFlight, vars, sockVars, kernVars, sendVars, loopVars
<1> QED
  BY <1>1, <1>2, <1>3, <1>4, <1>5, <1>6, <1>7, <1>8 DEF Next, Quiescent

\* The loop thread sleeps in recvmsg only while a request sent before onRecv is in
\* flight, whoever takes the datagram that made the socket readable (do_recvmsg,
\* on_recvmsg, netlinksocket.cc:507 and 590).
THEOREM LoopNeverBlocksAlways == Spec => []LoopNeverBlocks
<1>1. Init => PostInv /\ RivalInv
  BY DEF Init, PostInv, InFlight, RivalInv, WorkerPoints, AllReqs
<1>2. IInv /\ PostInv /\ RivalInv /\ [Next]_vars => PostInv' /\ RivalInv'
  BY PostStep, RivalStep DEF IInv
<1>3. RivalInv => LoopNeverBlocks
  BY DEF RivalInv, LoopNeverBlocks
<1> QED BY Inductive, <1>1, <1>2, <1>3, PTL DEF Spec

-----------------------------------------------------------------------------
(* What passes through the queue *)

\* Two sequences in a row, by index.
LEMMA ConcatIs ==
    ASSUME NEW S, NEW s \in Seq(S), NEW t \in Seq(S)
    PROVE  /\ s \o t \in Seq(S) /\ Len(s) \in Nat /\ Len(t) \in Nat
           /\ DOMAIN s = 1..Len(s) /\ DOMAIN t = 1..Len(t)
           /\ Len(s \o t) = Len(s) + Len(t) /\ DOMAIN (s \o t) = 1..(Len(s) + Len(t))
           /\ \A i \in DOMAIN s : (s \o t)[i] = s[i]
           /\ \A i \in DOMAIN t : (s \o t)[Len(s) + i] = t[i]
           /\ \A i \in DOMAIN (s \o t) :
                 \/ i \in DOMAIN s
                 \/ i > Len(s) /\ i - Len(s) \in DOMAIN t /\ (s \o t)[i] = t[i - Len(s)]
<1> DEFINE u == s \o t
<1>1. /\ u \in Seq(S) /\ Len(u) = Len(s) + Len(t)
      /\ \A i \in 1..(Len(s) + Len(t)) : u[i] = IF i <= Len(s) THEN s[i] ELSE t[i - Len(s)]
  BY ConcatProperties
<1> HIDE DEF u
<1>2. /\ Len(s) \in Nat /\ Len(t) \in Nat /\ DOMAIN s = 1..Len(s) /\ DOMAIN t = 1..Len(t)
      /\ DOMAIN u = 1..(Len(s) + Len(t))
  BY <1>1, LenProperties
<1>3. \A i \in DOMAIN s : u[i] = s[i]
  BY <1>1, <1>2
<1>4. \A i \in DOMAIN t : u[Len(s) + i] = t[i]
  <2> TAKE i \in DOMAIN t
  <2>1. Len(s) + i \in 1..(Len(s) + Len(t)) /\ ~(Len(s) + i <= Len(s)) /\ (Len(s) + i) - Len(s) = i
    BY <1>2
  <2> QED BY <1>1, <2>1
<1>5. \A i \in DOMAIN u : i \in DOMAIN s
                          \/ (i > Len(s) /\ i - Len(s) \in DOMAIN t /\ u[i] = t[i - Len(s)])
  <2> TAKE i \in DOMAIN u
  <2>1. CASE i <= Len(s)
    BY <1>2, <2>1
  <2>2. CASE i > Len(s)
    <3>1. i \in 1..(Len(s) + Len(t)) /\ ~(i <= Len(s)) /\ i - Len(s) \in 1..Len(t)
      BY <1>2, <2>2
    <3> QED BY <1>1, <1>2, <2>2, <3>1
  <2> QED BY <1>2, <2>1, <2>2
<1> QED BY <1>1, <1>2, <1>3, <1>4, <1>5 DEF u

\* The queue after an arrival: what was there, at its place, and behind it some of what
\* arrived; all of it if the kernel reports no overrun.
LEMMA DeliverIs ==
    ASSUME KernTypes, NEW dgs \in Seq(Datagram), Deliver(dgs)
    PROVE  /\ \A i \in DOMAIN rcvq' :
                 \/ i \in DOMAIN rcvq /\ rcvq'[i] = rcvq[i]
                 \/ /\ i > Len(rcvq) /\ i - Len(rcvq) \in DOMAIN dgs
                    /\ rcvq'[i] = dgs[i - Len(rcvq)]
           /\ ~overrun' => rcvq' = rcvq \o dgs
<1> DEFINE q == rcvq \o dgs
<1>1. /\ q \in Seq(Datagram) /\ Len(q) \in Nat /\ DOMAIN q = 1..Len(q)
      /\ \A i \in DOMAIN rcvq : q[i] = rcvq[i]
      /\ \A i \in DOMAIN q :
            \/ i \in DOMAIN rcvq
            \/ i > Len(rcvq) /\ i - Len(rcvq) \in DOMAIN dgs /\ q[i] = dgs[i - Len(rcvq)]
  BY ConcatIs, LenProperties DEF KernTypes
<1>2. /\ rcvq' = (IF Len(q) <= RcvCap THEN q ELSE SubSeq(q, 1, RcvCap))
      /\ overrun' = (overrun \/ Len(q) > RcvCap)
  BY DEF Deliver
<1> HIDE DEF q
<1>3. CASE Len(q) <= RcvCap
  BY <1>1, <1>2, <1>3 DEF q
<1>4. CASE Len(q) > RcvCap
  <2>1. \A i \in 1..RcvCap : q[i] \in Datagram
    BY <1>1, <1>4, BoundsNat, ElementOfSeq
  <2>2. rcvq' \in Seq(Datagram) /\ Len(rcvq') = RcvCap /\ \A i \in 1..RcvCap : rcvq'[i] = q[i]
    BY <1>2, <1>4, <1>1, <2>1, BoundsNat, SubSeqProperties
  <2>3. DOMAIN rcvq' = 1..RcvCap /\ \A i \in DOMAIN rcvq' : i \in DOMAIN q
    BY <1>1, <1>4, <2>2, BoundsNat, LenProperties
  <2> QED BY <1>1, <1>2, <1>4, <2>2, <2>3
<1> QED BY <1>1, <1>3, <1>4, BoundsNat

\* One read: the first datagram leaves the queue (and after close() perhaps all others),
\* and its messages, if accepted, are the new end of one reply queue.
LEMMA TakeIs ==
    ASSUME TypeOK, NEW r \in AllReqs, rcvq # <<>>, TakeDatagram(r)
    PROVE  /\ 1 \in DOMAIN rcvq /\ rcvq[1] \in Datagram
           /\ DOMAIN rcvq = 1..Len(rcvq) /\ Len(rcvq) \in Nat
           /\ \A i \in DOMAIN rcvq' : i + 1 \in DOMAIN rcvq /\ rcvq'[i] = rcvq[i + 1] /\ i > 0
           /\ fd # "closed" => DOMAIN rcvq' = 1..(Len(rcvq) - 1)
           /\ \A q \in AllReqs \ {r} : replyQ'[q] = replyQ[q]
           /\ Len(replyQ[r]) \in Nat /\ DOMAIN replyQ[r] = 1..Len(replyQ[r])
           /\ \A i \in DOMAIN replyQ[r] : i \in DOMAIN replyQ'[r] /\ replyQ'[r][i] = replyQ[r][i]
           /\ \A i \in DOMAIN replyQ'[r] :
                 \/ i \in DOMAIN replyQ[r]
                 \/ /\ i > Len(replyQ[r]) /\ i - Len(replyQ[r]) \in DOMAIN rcvq[1].msgs
                    /\ replyQ'[r][i].msg = rcvq[1].msgs[i - Len(replyQ[r])]
           /\ Accepted(r, rcvq[1]) = rcvq[1].msgs =>
                 \A k \in DOMAIN rcvq[1].msgs :
                    /\ Len(replyQ[r]) + k \in DOMAIN replyQ'[r]
                    /\ replyQ'[r][Len(replyQ[r]) + k].msg = rcvq[1].msgs[k]
<1>1. rcvq \in Seq(Datagram) /\ replyQ \in [AllReqs -> Seq(Reply)] /\ replyQ[r] \in Seq(Reply)
  BY DEF TypeOK, KernTypes, RecvTypes
<1>2. /\ 1 \in DOMAIN rcvq /\ rcvq[1] \in Datagram /\ Head(rcvq) = rcvq[1]
      /\ DOMAIN rcvq = 1..Len(rcvq) /\ Len(rcvq) \in Nat /\ Len(rcvq) > 0
  <2>1. Len(rcvq) \in Nat /\ DOMAIN rcvq = 1..Len(rcvq) /\ Len(rcvq) # 0
    BY <1>1, EmptySeq, LenProperties
  <2>2. 1 \in 1..Len(rcvq)
    BY <2>1
  <2> QED BY <1>1, <2>1, <2>2, ElementOfSeq
<1>3. /\ rcvq' = Tail(rcvq) \/ (rcvq' = <<>> /\ fd = "closed")
      /\ replyQ' = [replyQ EXCEPT ![r] = @ \o Replies(r, rcvq[1])]
  BY <1>2 DEF TakeDatagram, LeftBy
<1>4. /\ fd # "closed" => DOMAIN rcvq' = 1..(Len(rcvq) - 1)
      /\ \A i \in DOMAIN rcvq' : i + 1 \in DOMAIN rcvq /\ rcvq'[i] = rcvq[i + 1] /\ i > 0
  <2>1. /\ Tail(rcvq) \in Seq(Datagram) /\ Len(Tail(rcvq)) = Len(rcvq) - 1
        /\ \A i \in 1..Len(Tail(rcvq)) : Tail(rcvq)[i] = rcvq[i + 1]
    BY <1>1, HeadTailProperties
  <2>2. CASE rcvq' = Tail(rcvq)
    <3>1. DOMAIN rcvq' = 1..(Len(rcvq) - 1)
      BY <2>1, <2>2, LenProperties
    <3> QED BY <1>2, <2>1, <2>2, <3>1
  <2>3. CASE rcvq' = <<>> /\ fd = "closed"
    BY <2>3
  <2> QED BY <1>3, <2>2, <2>3
<1> DEFINE new == Replies(r, rcvq[1])
           ms == Accepted(r, rcvq[1])
<1>5. /\ ms \in Seq(Message) /\ new \in Seq(Reply) /\ Len(new) = Len(ms)
      /\ new = [i \in 1..Len(ms) |-> [msg |-> ms[i], iserr |-> ms[i].typ = "error"]]
      /\ ms \in {rcvq[1].msgs, <<>>}
  BY <1>2, RepliesType DEF Replies, Accepted
<1> HIDE DEF new, ms
<1>6. DOMAIN ms = 1..Len(ms) /\ DOMAIN new = DOMAIN ms /\ \A k \in DOMAIN new : new[k].msg = ms[k]
  BY <1>5, LenProperties
<1>7. DOMAIN new \subseteq DOMAIN rcvq[1].msgs /\ \A k \in DOMAIN new : new[k].msg = rcvq[1].msgs[k]
  <2>1. CASE ms = rcvq[1].msgs
    BY <1>6, <2>1
  <2>2. CASE ms = <<>>
    BY <1>6, <2>2
  <2> QED BY <1>5, <2>1, <2>2
<1>8. replyQ'[r] = replyQ[r] \o new /\ \A q \in AllReqs \ {r} : replyQ'[q] = replyQ[q]
  BY <1>1, <1>3 DEF new
<1>9. /\ Len(replyQ[r]) \in Nat /\ DOMAIN replyQ[r] = 1..Len(replyQ[r])
      /\ DOMAIN (replyQ[r] \o new) = 1..(Len(replyQ[r]) + Len(new))
      /\ \A i \in DOMAIN replyQ[r] : (replyQ[r] \o new)[i] = replyQ[r][i]
      /\ \A i \in DOMAIN new : (replyQ[r] \o new)[Len(replyQ[r]) + i] = new[i]
      /\ \A i \in DOMAIN (replyQ[r] \o new) :
            \/ i \in DOMAIN replyQ[r]
            \/ /\ i > Len(replyQ[r]) /\ i - Len(replyQ[r]) \in DOMAIN new
               /\ (replyQ[r] \o new)[i] = new[i - Len(replyQ[r])]
      /\ DOMAIN new = 1..Len(new) /\ Len(new) \in Nat
  <2>1. replyQ[r] \in Seq(Reply) /\ new \in Seq(Reply)
    BY <1>1, <1>5
  <2> QED BY <2>1, ConcatIs
<1>10. \A i \in DOMAIN replyQ[r] : i \in DOMAIN replyQ'[r] /\ replyQ'[r][i] = replyQ[r][i]
  BY <1>8, <1>9
<1>11. \A i \in DOMAIN replyQ'[r] :
          \/ i \in DOMAIN replyQ[r]
          \/ /\ i > Len(replyQ[r]) /\ i - Len(replyQ[r]) \in DOMAIN rcvq[1].msgs
             /\ replyQ'[r][i].msg = rcvq[1].msgs[i - Len(replyQ[r])]
  BY <1>7, <1>8, <1>9
<1>12. ms = rcvq[1].msgs =>
          \A k \in DOMAIN rcvq[1].msgs :
             /\ Len(replyQ[r]) + k \in DOMAIN replyQ'[r]
             /\ replyQ'[r][Len(replyQ[r]) + k].msg = rcvq[1].msgs[k]
  <2> SUFFICES ASSUME ms = rcvq[1].msgs, NEW k \in DOMAIN rcvq[1].msgs
               PROVE  /\ Len(replyQ[r]) + k \in DOMAIN replyQ'[r]
                      /\ replyQ'[r][Len(replyQ[r]) + k].msg = rcvq[1].msgs[k]
    OBVIOUS
  <2>1. k \in DOMAIN new /\ new[k].msg = rcvq[1].msgs[k]
    BY <1>6
  <2>2. Len(replyQ[r]) + k \in 1..(Len(replyQ[r]) + Len(new))
    BY <1>9, <2>1
  <2> QED BY <1>8, <1>9, <2>1, <2>2
<1> QED BY <1>2, <1>4, <1>8, <1>9, <1>10, <1>11, <1>12 DEF ms

\* A completion: the replies become the buffers of one more call, stay where they are,
\* or are dropped; the last only without a callback or, on a request without error, with
\* an error reply.
LEMMA PostIs ==
    ASSUME TypeOK, NEW r \in AllReqs, PostRecvmsg(r)
    PROVE  /\ \A q \in AllReqs \ {r} : replyQ'[q] = replyQ[q] /\ calls'[q] = calls[q]
           /\ UNCHANGED <<rcvq, envCount, answered, sent>>
           /\ Len(calls[r]) \in Nat /\ DOMAIN calls[r] = 1..Len(calls[r])
           /\ DOMAIN replyQ[r] = 1..Len(replyQ[r]) /\ Len(replyQ[r]) \in Nat
           /\ \A c \in DOMAIN calls[r] : c \in DOMAIN calls'[r] /\ calls'[r][c] = calls[r][c]
           /\ \/ /\ calls'[r] = calls[r]
                 /\ replyQ'[r] = replyQ[r] \/ (replyQ'[r] = <<>> /\ cbs[r] = {} /\ ~err[r])
              \/ /\ DOMAIN calls'[r] = 1..(Len(calls[r]) + 1)
                 /\ DOMAIN calls'[r][Len(calls[r]) + 1].bufs = {}
                 /\ \/ replyQ'[r] = replyQ[r]
                    \/ ~err[r] /\ \E i \in 1..Len(replyQ[r]) : replyQ[r][i].iserr
              \/ /\ DOMAIN calls'[r] = 1..(Len(calls[r]) + 1)
                 /\ DOMAIN calls'[r][Len(calls[r]) + 1].bufs = DOMAIN replyQ[r]
                 /\ \A i \in DOMAIN replyQ[r] :
                       calls'[r][Len(calls[r]) + 1].bufs[i] = replyQ[r][i].msg
                 /\ replyQ'[r] = <<>>
<1> DEFINE call == IF err[r] THEN ErrorCall(r) ELSE ReplyCall(r)
           bufs == [i \in 1..Len(replyQ[r]) |-> replyQ[r][i].msg]
           nlError == \E i \in 1..Len(replyQ[r]) : replyQ[r][i].iserr
<1>1. /\ replyQ \in [AllReqs -> Seq(Reply)] /\ calls \in [AllReqs -> Seq(Call)]
      /\ calls[r] \in Seq(Call) /\ replyQ[r] \in Seq(Reply) /\ cbs[r] \subseteq {"send", "reply"}
      /\ RecvTypes /\ SendTypes
  BY DEF TypeOK, RecvTypes, LoopTypes, SendTypes
<1>2. /\ Len(calls[r]) \in Nat /\ DOMAIN calls[r] = 1..Len(calls[r])
      /\ DOMAIN replyQ[r] = 1..Len(replyQ[r]) /\ Len(replyQ[r]) \in Nat
  BY <1>1, LenProperties
<1>3. call \in Seq(Call)
  BY <1>1, CallType
<1>4. /\ calls' = [calls EXCEPT ![r] = @ \o call]
      /\ IF err[r] THEN replyQ' = replyQ ELSE replyQ' = [replyQ EXCEPT ![r] = <<>>]
      /\ UNCHANGED <<rcvq, envCount, answered, sent>>
  BY DEF PostRecvmsg, kernVars, sendVars
<1>5. \/ call = <<>> /\ (err[r] \/ cbs[r] = {})
      \/ \E c \in Call : /\ call = <<c>>
                         /\ \/ c.bufs = <<>> /\ (err[r] \/ nlError)
                            \/ c.bufs = bufs /\ ~err[r]
  <2>1. CASE err[r]
    <3>1. [cb |-> "send", err |-> TRUE, bufs |-> <<>>] \in Call
      BY DEF Call
    <3> QED BY <2>1, <3>1 DEF ErrorCall
  <2>2. CASE ~err[r]
    <3>1. ReplyCall(r) = IF "reply" \in cbs[r]
            THEN <<[cb |-> "reply", err |-> nlError, bufs |-> bufs]>>
            ELSE IF "send" \in cbs[r]
            THEN <<[cb |-> "send", err |-> nlError, bufs |-> IF nlError THEN <<>> ELSE bufs]>>
            ELSE <<>>
      BY DEF ReplyCall
    <3>2. bufs \in Seq(Message)
      <4>1. \A i \in 1..Len(replyQ[r]) : replyQ[r][i].msg \in Message
        <5>1. \A i \in 1..Len(replyQ[r]) : replyQ[r][i] \in Reply
          BY <1>1, ElementOfSeq
        <5> QED BY <5>1 DEF Reply
      <4>2. bufs \in [1..Len(replyQ[r]) -> Message]
        BY <4>1
      <4> QED BY <1>2, <4>2, FunctionIsSeq
    <3>3. nlError \in BOOLEAN
      OBVIOUS
    <3> HIDE DEF bufs, nlError
    <3>4. /\ [cb |-> "reply", err |-> nlError, bufs |-> bufs] \in Call
          /\ [cb |-> "send", err |-> nlError, bufs |-> IF nlError THEN <<>> ELSE bufs] \in Call
      BY <3>2, <3>3 DEF Call
    <3>5. CASE "reply" \in cbs[r]
      BY <2>2, <3>1, <3>4, <3>5
    <3>6. CASE "reply" \notin cbs[r] /\ "send" \in cbs[r]
      BY <2>2, <3>1, <3>4, <3>6
    <3>7. CASE "reply" \notin cbs[r] /\ "send" \notin cbs[r]
      BY <1>1, <2>2, <3>1, <3>7
    <3> QED BY <3>5, <3>6, <3>7
  <2> QED BY <2>1, <2>2
<1>6. DOMAIN bufs = DOMAIN replyQ[r] /\ \A i \in DOMAIN replyQ[r] : bufs[i] = replyQ[r][i].msg
  BY <1>2
<1> HIDE DEF call, bufs, nlError
<1>7. /\ \A q \in AllReqs \ {r} : replyQ'[q] = replyQ[q] /\ calls'[q] = calls[q]
      /\ calls'[r] = calls[r] \o call /\ (err[r] => replyQ'[r] = replyQ[r])
      /\ (~err[r] => replyQ'[r] = <<>>)
  BY <1>1, <1>4
<1>8. CASE call = <<>> /\ (err[r] \/ cbs[r] = {})
  <2>1. calls'[r] = calls[r]
    BY <1>1, <1>7, <1>8, ConcatEmptySeq
  <2> QED BY <1>2, <1>4, <1>7, <1>8, <2>1
<1>9. ASSUME NEW c \in Call, call = <<c>>,
             \/ c.bufs = <<>> /\ (err[r] \/ nlError)
             \/ c.bufs = bufs /\ ~err[r]
      PROVE  /\ \A d \in DOMAIN calls[r] : d \in DOMAIN calls'[r] /\ calls'[r][d] = calls[r][d]
             /\ DOMAIN calls'[r] = 1..(Len(calls[r]) + 1)
             /\ calls'[r][Len(calls[r]) + 1] = c
  <2>1. <<c>> \in Seq(Call) /\ Len(<<c>>) = 1 /\ <<c>>[1] = c /\ 1 \in DOMAIN <<c>>
    OBVIOUS
  <2>2. /\ Len(calls[r] \o <<c>>) = Len(calls[r]) + 1
        /\ DOMAIN (calls[r] \o <<c>>) = 1..(Len(calls[r]) + 1)
        /\ \A i \in DOMAIN calls[r] : (calls[r] \o <<c>>)[i] = calls[r][i]
        /\ (calls[r] \o <<c>>)[Len(calls[r]) + 1] = c
    BY <1>1, <2>1, ConcatIs
  <2> QED BY <1>2, <1>7, <1>9, <2>2
<1>10. CASE \E c \in Call : /\ call = <<c>>
                            /\ \/ c.bufs = <<>> /\ (err[r] \/ nlError)
                               \/ c.bufs = bufs /\ ~err[r]
  <2>1. PICK c \in Call : /\ call = <<c>>
                          /\ \/ c.bufs = <<>> /\ (err[r] \/ nlError)
                             \/ c.bufs = bufs /\ ~err[r]
    BY <1>10
  <2>2. /\ \A d \in DOMAIN calls[r] : d \in DOMAIN calls'[r] /\ calls'[r][d] = calls[r][d]
        /\ DOMAIN calls'[r] = 1..(Len(calls[r]) + 1)
        /\ calls'[r][Len(calls[r]) + 1] = c
    BY <1>9, <2>1
  <2>3. CASE c.bufs = <<>> /\ (err[r] \/ nlError)
    BY <1>2, <1>4, <1>7, <2>2, <2>3 DEF nlError
  <2>4. CASE c.bufs = bufs /\ ~err[r]
    BY <1>2, <1>4, <1>6, <1>7, <2>2, <2>4
  <2> QED BY <2>1, <2>3, <2>4
<1> QED BY <1>5, <1>8, <1>10

\* The queue of a closed socket goes with the last call that used it.
Discarded ==
    rcvq' = <<>> /\ fd' = "closed" /\ UNCHANGED <<replyQ, calls, envCount, answered, sent>>

\* The ways in which a step can touch a message.
LEMMA QueueFrame ==
    ASSUME IInv, [Next]_vars
    PROVE  \/ UNCHANGED <<rcvq, replyQ, calls, envCount, answered, sent>>
           \/ Discarded
           \/ \E r \in Reqs : KernelProcesses(r)
           \/ EventArrives \/ PeerSends
           \/ \E r \in AllReqs : /\ rcvq # <<>> /\ TakeDatagram(r)
                                 /\ UNCHANGED <<fd, calls, envCount, answered, sent>>
           \/ \E r \in AllReqs : PostRecvmsg(r)
<1>0. Reqs \subseteq AllReqs /\ Listener \in AllReqs
  BY DEF AllReqs
<1>1. CASE Create \/ Close \/ OnRecv \/ UNCHANGED vars
  BY <1>1 DEF Create, Close, OnRecv, Discarded, vars, kernVars, sendVars, recvVars, loopVars
<1>2. ASSUME NEW r \in Reqs, JavaScript(r)
      PROVE  UNCHANGED <<rcvq, replyQ, calls, envCount, answered, sent>>
  BY <1>2 DEF JavaScript, CreateMsgReq, AddMsgToReq, Sendmsg, kernVars, recvVars, loopVars
<1>3. ASSUME NEW r \in Reqs, Worker(r)
      PROVE  \/ UNCHANGED <<rcvq, replyQ, calls, envCount, answered, sent>>
             \/ KernelProcesses(r) \/ Discarded
             \/ /\ rcvq # <<>> /\ TakeDatagram(r)
                /\ UNCHANGED <<fd, calls, envCount, answered, sent>>
  <2>1. CASE DoSendmsg(r) \/ SendFails(r) \/ WorkerFcntl(r)
    BY <2>1 DEF DoSendmsg, SendFails, WorkerFcntl, kernVars, sendVars, loopVars
  <2>2. CASE StampHeader(r) \/ StampLast(r) \/ IncrementSeq(r) \/ WorkerRecvEmpty(r)
    BY <2>2 DEF StampHeader, StampLast, IncrementSeq, WorkerRecvEmpty, kernVars,
       sendVars, recvVars, loopVars
  <2>3. CASE SendReturns(r) \/ WorkerRecvError(r)
    BY <2>3 DEF SendReturns, WorkerRecvError, LeftBy, Discarded, sockVars, sendVars, recvVars,
       loopVars
  <2>4. CASE WorkerRecv(r) \/ WorkerWakes(r)
    BY <2>4 DEF WorkerRecv, WorkerWakes, WorkerTakes, sockVars, sendVars, loopVars
  <2> QED BY <1>3, <2>1, <2>2, <2>3, <2>4 DEF Worker
<1>4. ASSUME NEW r \in AllReqs, PostReturns(r)
      PROVE  UNCHANGED <<rcvq, replyQ, calls, envCount, answered, sent>>
  BY <1>4 DEF PostReturns, kernVars, sendVars, recvVars
<1>5. CASE Poll
  <2>1. CASE PollError \/ PollReadable \/ PollRecvError \/ PollRecvEmpty
    BY <2>1 DEF PollError, PollReadable, PollRecvError, PollRecvEmpty, kernVars, sendVars,
       recvVars, loopVars
  <2>2. CASE PollRecv
    BY <1>0, <2>2 DEF PollRecv, sockVars, sendVars, loopVars
  <2> QED BY <1>5, <2>1, <2>2 DEF Poll
<1> QED
  BY <1>0, <1>1, <1>2, <1>3, <1>4, <1>5 DEF Next, Quiescent, Completion

\* What the kernel queues in answer to one message, by its place.
LEMMA AnswerIs ==
    ASSUME NEW r \in Reqs, NEW i, NEW shape \in Shapes
    PROVE  /\ DOMAIN Answer(r, i, shape) = 1..Len(shape) /\ Len(shape) \in Nat
           /\ \A d \in DOMAIN Answer(r, i, shape) :
                /\ Answer(r, i, shape)[d].pid = 0
                /\ Answer(r, i, shape)[d].trunc = shape[d].trunc
                /\ Len(shape[d].kinds) \in Nat
                /\ DOMAIN Answer(r, i, shape)[d].msgs = 1..Len(shape[d].kinds)
                /\ \A k \in DOMAIN Answer(r, i, shape)[d].msgs :
                     /\ Answer(r, i, shape)[d].msgs[k].src = r
                     /\ Answer(r, i, shape)[d].msgs[k].n = i
                     /\ Answer(r, i, shape)[d].msgs[k].d = d
                     /\ Answer(r, i, shape)[d].msgs[k].k = k
                     /\ Answer(r, i, shape)[d].msgs[k].typ = shape[d].kinds[k]
                     /\ Answer(r, i, shape)[d].msgs[k].seq = hdrs[r][i]
<1>1. shape \in Seq(Shape)
  BY ShapesType
<1>2. Len(shape) \in Nat /\ \A d \in 1..Len(shape) : Len(shape[d].kinds) \in Nat
  BY <1>1, LenProperties, ElementOfSeq DEF Shape
<1> QED BY <1>2 DEF Answer

\* An event or a datagram of another process is one message with a new number.
LEMMA ArrivesIs ==
    ASSUME TypeOK, EventArrives \/ PeerSends
    PROVE  /\ envCount' = envCount + 1 /\ UNCHANGED <<replyQ, calls, answered, sent>>
           /\ \E dg \in Datagram :
                /\ Deliver(<<dg>>) /\ <<dg>> \in Seq(Datagram)
                /\ DOMAIN dg.msgs = {1} /\ Len(dg.msgs) = 1
                /\ dg.msgs[1].src = Env /\ dg.msgs[1].n = envCount + 1
                /\ ~dg.trunc /\ ("kernel" \notin Senders => dg.pid = 1)
<1>1. PICK pid \in {0, 1}, typ \in {"data", "bare"}, s \in {0, FirstSeq} :
         Arrives(pid, typ, s) /\ ("kernel" \notin Senders => pid = 1)
  BY DEF EventArrives, PeerSends
<1> DEFINE m == [src |-> Env, n |-> envCount + 1, d |-> 1, k |-> 1, typ |-> typ, seq |-> s]
           dg == [pid |-> pid, trunc |-> FALSE, msgs |-> <<m>>]
<1>2. Deliver(<<dg>>) /\ envCount' = envCount + 1 /\ UNCHANGED <<replyQ, calls, answered, sent>>
  BY <1>1 DEF Arrives, recvVars, loopVars, sendVars
<1>3. m \in Message
  <2>1. envCount + 1 \in Nat /\ s \in SeqNumbers /\ typ \in Kinds
    BY SeqSpaceNat DEF TypeOK, KernTypes, SeqNumbers, Kinds
  <2> QED BY <2>1 DEF Message
<1>4. m.src = Env /\ m.n = envCount + 1
  OBVIOUS
<1> HIDE DEF m
<1>5. <<m>> \in Seq(Message) /\ DOMAIN <<m>> = {1} /\ Len(<<m>>) = 1 /\ <<m>>[1] = m
  BY <1>3
<1>6. dg \in Datagram /\ dg.msgs = <<m>> /\ ~dg.trunc /\ dg.pid = pid
  BY <1>5 DEF Datagram
<1> HIDE DEF dg
<1>7. <<dg>> \in Seq(Datagram)
  BY <1>6
<1> QED BY <1>1, <1>2, <1>4, <1>5, <1>6, <1>7

-----------------------------------------------------------------------------
(* The order of events *)

\* Event n waits in the kernel, in the reply queue of the listener, or was in a call.
QueueAt(i, k, n) ==
    /\ i \in DOMAIN rcvq /\ k \in DOMAIN rcvq[i].msgs
    /\ rcvq[i].msgs[k].src = Env /\ rcvq[i].msgs[k].n = n
ReplyAt(i, n) ==
    /\ i \in DOMAIN replyQ[Listener]
    /\ replyQ[Listener][i].msg.src = Env /\ replyQ[Listener][i].msg.n = n
CallAt(c, i, n) ==
    /\ c \in DOMAIN calls[Listener] /\ i \in DOMAIN calls[Listener][c].bufs
    /\ calls[Listener][c].bufs[i].src = Env /\ calls[Listener][c].bufs[i].n = n

\* Events are numbered as they come, and each of the three places keeps their order.
Numbered ==
    /\ \A i, k, n \in Nat : QueueAt(i, k, n) => n <= envCount
    /\ \A i, n \in Nat : ReplyAt(i, n) => n <= envCount
    /\ \A c, i, n \in Nat : CallAt(c, i, n) => n <= envCount
QueueOrder ==
    \A i, k, j, l, a, b \in Nat :
       QueueAt(i, k, a) /\ QueueAt(j, l, b) => (i < j => a < b) /\ (i = j => k = l)
ReplyOrder == \A i, j, a, b \in Nat : ReplyAt(i, a) /\ ReplyAt(j, b) /\ i < j => a < b
CallOrder ==
    \A c, i, d, j, a, b \in Nat :
       CallAt(c, i, a) /\ CallAt(d, j, b) /\ (c < d \/ (c = d /\ i < j)) => a < b

\* What was given to JavaScript is older than what was read, and that is older than
\* what waits.
Stages ==
    /\ \A i, a, j, l, b \in Nat : ReplyAt(i, a) /\ QueueAt(j, l, b) => a < b
    /\ \A c, i, a, j, l, b \in Nat : CallAt(c, i, a) /\ QueueAt(j, l, b) => a < b
    /\ \A c, i, a, j, b \in Nat : CallAt(c, i, a) /\ ReplyAt(j, b) => a < b

EventOrder == Numbered /\ QueueOrder /\ ReplyOrder /\ CallOrder /\ Stages

\* A step that adds no event to any of the three places.
LEMMA NoNewEvent ==
    ASSUME TypeOK, EventOrder, envCount' = envCount,
           \A i, k, n \in Nat : QueueAt(i, k, n)' => QueueAt(i, k, n),
           \A i, n \in Nat : ReplyAt(i, n)' => ReplyAt(i, n),
           \A c, i, n \in Nat : CallAt(c, i, n)' => CallAt(c, i, n)
    PROVE  EventOrder'
<1>1. Numbered'  BY DEF EventOrder, Numbered
<1>2. QueueOrder'  BY DEF EventOrder, QueueOrder
<1>3. ReplyOrder'  BY DEF EventOrder, ReplyOrder
<1>4. CallOrder'  BY DEF EventOrder, CallOrder
<1>5. Stages'  BY DEF EventOrder, Stages
<1> QED BY <1>1, <1>2, <1>3, <1>4, <1>5 DEF EventOrder

\* An event goes to the end of the kernel's queue.
LEMMA ArrivalOrder ==
    ASSUME TypeOK, EventOrder, envCount' = envCount + 1, NEW last \in Nat,
           \A i, k, n \in Nat : QueueAt(i, k, n) => i <= last,
           \A i, k, n \in Nat : QueueAt(i, k, n)' =>
              QueueAt(i, k, n) \/ (i = last + 1 /\ k = 1 /\ n = envCount + 1),
           \A i, n \in Nat : ReplyAt(i, n)' => ReplyAt(i, n),
           \A c, i, n \in Nat : CallAt(c, i, n)' => CallAt(c, i, n)
    PROVE  EventOrder'
<1>0. envCount \in Nat  BY DEF TypeOK, KernTypes
<1>1. Numbered'  BY <1>0 DEF EventOrder, Numbered
<1>2. QueueOrder'
  <2> SUFFICES ASSUME NEW i \in Nat, NEW k \in Nat, NEW j \in Nat, NEW l \in Nat,
                      NEW a \in Nat, NEW b \in Nat, QueueAt(i, k, a)', QueueAt(j, l, b)'
               PROVE  (i < j => a < b) /\ (i = j => k = l)
    BY DEF QueueOrder
  <2>1. QueueAt(i, k, a) => a <= envCount /\ i <= last  BY DEF EventOrder, Numbered
  <2>2. QueueAt(j, l, b) => b <= envCount /\ j <= last  BY DEF EventOrder, Numbered
  <2>3. QueueAt(i, k, a) /\ QueueAt(j, l, b) => (i < j => a < b) /\ (i = j => k = l)
    BY DEF EventOrder, QueueOrder
  <2>4. QueueAt(i, k, a) \/ (i = last + 1 /\ k = 1 /\ a = envCount + 1)  OBVIOUS
  <2>5. QueueAt(j, l, b) \/ (j = last + 1 /\ l = 1 /\ b = envCount + 1)  OBVIOUS
  <2> QED BY <1>0, <2>1, <2>2, <2>3, <2>4, <2>5
<1>3. ReplyOrder'  BY DEF EventOrder, ReplyOrder
<1>4. CallOrder'  BY DEF EventOrder, CallOrder
<1>5. Stages'  BY <1>0 DEF EventOrder, Stages, Numbered
<1> QED BY <1>1, <1>2, <1>3, <1>4, <1>5 DEF EventOrder

\* The event at the head of the kernel's queue goes to the end of the replies.
LEMMA ReadOrder ==
    ASSUME TypeOK, EventOrder, envCount' = envCount, NEW last \in Nat,
           \A i, k, n \in Nat : QueueAt(i, k, n)' => i > 0 /\ QueueAt(i + 1, k, n),
           \A i, n \in Nat : ReplyAt(i, n) => i <= last,
           \A i, n \in Nat : ReplyAt(i, n)' =>
              ReplyAt(i, n) \/ (i > last /\ QueueAt(1, i - last, n)),
           \A c, i, n \in Nat : CallAt(c, i, n)' => CallAt(c, i, n)
    PROVE  EventOrder'
<1>1. Numbered'
  <2>1. \A i, k, n \in Nat : QueueAt(i, k, n)' => n <= envCount
    <3>1. \A i \in Nat : i + 1 \in Nat  OBVIOUS
    <3> QED BY <3>1 DEF EventOrder, Numbered
  <2>2. \A i, n \in Nat : ReplyAt(i, n)' => n <= envCount
    <3>1. \A i \in Nat : i > last => i - last \in Nat  OBVIOUS
    <3> QED BY <3>1 DEF EventOrder, Numbered
  <2>3. \A c, i, n \in Nat : CallAt(c, i, n)' => n <= envCount
    BY DEF EventOrder, Numbered
  <2> QED BY <2>1, <2>2, <2>3 DEF Numbered
<1>2. QueueOrder'
  <2> SUFFICES ASSUME NEW i \in Nat, NEW k \in Nat, NEW j \in Nat, NEW l \in Nat,
                      NEW a \in Nat, NEW b \in Nat, QueueAt(i, k, a)', QueueAt(j, l, b)'
               PROVE  (i < j => a < b) /\ (i = j => k = l)
    BY DEF QueueOrder
  <2>1. QueueAt(i + 1, k, a) /\ QueueAt(j + 1, l, b) /\ i + 1 \in Nat /\ j + 1 \in Nat
    OBVIOUS
  <2>2. (i + 1 < j + 1 => a < b) /\ (i + 1 = j + 1 => k = l)
    <3>1. PICK x \in Nat, y \in Nat : x = i + 1 /\ y = j + 1
      BY <2>1
    <3>2. QueueAt(x, k, a) /\ QueueAt(y, l, b)
      BY <2>1, <3>1
    <3>3. QueueOrder
      BY DEF EventOrder
    <3>4. (x < y => a < b) /\ (x = y => k = l)
      <4> HIDE DEF QueueAt
      <4> QED BY ONLY <3>2, <3>3, x \in Nat, y \in Nat, k \in Nat, l \in Nat,
                      a \in Nat, b \in Nat DEF QueueOrder
    <3> QED BY <3>1, <3>4
  <2> QED BY <2>2
<1>3. ReplyOrder'
  <2> SUFFICES ASSUME NEW i \in Nat, NEW j \in Nat, NEW a \in Nat, NEW b \in Nat,
                      ReplyAt(i, a)', ReplyAt(j, b)', i < j
               PROVE  a < b
    BY DEF ReplyOrder
  <2>1. CASE ReplyAt(i, a) /\ ReplyAt(j, b)
    BY <2>1 DEF EventOrder, ReplyOrder
  <2>2. CASE ReplyAt(i, a) /\ j > last /\ QueueAt(1, j - last, b)
    <3>1. j - last \in Nat  BY <2>2
    <3> QED BY <2>2, <3>1 DEF EventOrder, Stages
  <2>3. CASE i > last /\ QueueAt(1, i - last, a)
    <3>1. j > last /\ i - last \in Nat /\ j - last \in Nat /\ i - last # j - last
      BY <2>3
    <3>2. QueueAt(1, j - last, b)
      BY <3>1
    <3>3. i - last = j - last
      BY <2>3, <3>1, <3>2 DEF EventOrder, QueueOrder
    <3> QED BY <3>1, <3>3
  <2> QED BY <2>1, <2>2, <2>3
<1>4. CallOrder'  BY DEF EventOrder, CallOrder
<1>5. Stages'
  <2>1. ASSUME NEW i \in Nat, NEW a \in Nat, NEW j \in Nat, NEW l \in Nat, NEW b \in Nat,
               ReplyAt(i, a)', QueueAt(j, l, b)'
        PROVE  a < b
    <3>1. QueueAt(j + 1, l, b) /\ j + 1 \in Nat /\ 1 < j + 1
      BY <2>1
    <3>2. CASE ReplyAt(i, a)
      BY <3>1, <3>2 DEF EventOrder, Stages
    <3>3. CASE i > last /\ QueueAt(1, i - last, a)
      <4>1. i - last \in Nat  BY <3>3
      <4> QED BY <3>1, <3>3, <4>1 DEF EventOrder, QueueOrder
    <3> QED BY <2>1, <3>2, <3>3
  <2>2. ASSUME NEW c \in Nat, NEW i \in Nat, NEW a \in Nat, NEW j \in Nat, NEW l \in Nat,
               NEW b \in Nat, CallAt(c, i, a)', QueueAt(j, l, b)'
        PROVE  a < b
    <3>1. QueueAt(j + 1, l, b) /\ j + 1 \in Nat /\ CallAt(c, i, a)
      BY <2>2
    <3> QED BY <3>1 DEF EventOrder, Stages
  <2>3. ASSUME NEW c \in Nat, NEW i \in Nat, NEW a \in Nat, NEW j \in Nat, NEW b \in Nat,
               CallAt(c, i, a)', ReplyAt(j, b)'
        PROVE  a < b
    <3>1. CallAt(c, i, a)
      BY <2>3
    <3>2. CASE ReplyAt(j, b)
      BY <3>1, <3>2 DEF EventOrder, Stages
    <3>3. CASE j > last /\ QueueAt(1, j - last, b)
      <4>1. j - last \in Nat  BY <3>3
      <4> QED BY <3>1, <3>3, <4>1 DEF EventOrder, Stages
    <3> QED BY <2>3, <3>2, <3>3
  <2> QED BY <2>1, <2>2, <2>3 DEF Stages
<1> QED BY <1>1, <1>2, <1>3, <1>4, <1>5 DEF EventOrder

\* The replies become the buffers of the last call.
LEMMA HandOrder ==
    ASSUME TypeOK, EventOrder, envCount' = envCount, NEW last \in Nat,
           \A i, k, n \in Nat : QueueAt(i, k, n)' => QueueAt(i, k, n),
           \A i, n \in Nat : ~ReplyAt(i, n)',
           \A c, i, n \in Nat : CallAt(c, i, n) => c <= last,
           \A c, i, n \in Nat : CallAt(c, i, n)' =>
              CallAt(c, i, n) \/ (c = last + 1 /\ ReplyAt(i, n))
    PROVE  EventOrder'
<1>1. Numbered'  BY DEF EventOrder, Numbered
<1>2. QueueOrder'  BY DEF EventOrder, QueueOrder
<1>3. ReplyOrder'  BY DEF ReplyOrder
<1>4. CallOrder'
  <2> SUFFICES ASSUME NEW c \in Nat, NEW i \in Nat, NEW d \in Nat, NEW j \in Nat, NEW a \in Nat,
                      NEW b \in Nat, CallAt(c, i, a)', CallAt(d, j, b)', c < d \/ (c = d /\ i < j)
               PROVE  a < b
    BY DEF CallOrder
  <2>1. CASE CallAt(c, i, a) /\ CallAt(d, j, b)
    BY <2>1 DEF EventOrder, CallOrder
  <2>2. CASE CallAt(c, i, a) /\ d = last + 1 /\ ReplyAt(j, b)
    BY <2>2 DEF EventOrder, Stages
  <2>3. CASE c = last + 1 /\ ReplyAt(i, a)
    <3>1. ~CallAt(d, j, b)
      BY <2>3
    <3>2. d = last + 1 /\ ReplyAt(j, b) /\ i < j
      BY <2>3, <3>1
    <3> QED BY <2>3, <3>2 DEF EventOrder, ReplyOrder
  <2> QED BY <2>1, <2>2, <2>3
<1>5. Stages'  BY DEF EventOrder, Stages
<1> QED BY <1>1, <1>2, <1>3, <1>4, <1>5 DEF EventOrder

\* Every step keeps the order of events.
LEMMA EventStep ==
    ASSUME IInv, EventOrder, [Next]_vars PROVE EventOrder'
<1>0. /\ TypeOK /\ KernTypes /\ SendInv /\ Listener \in AllReqs /\ Env \notin AllReqs
      /\ Reqs \subseteq AllReqs /\ Listener \notin Reqs
      /\ rcvq \in Seq(Datagram) /\ Len(rcvq) \in Nat /\ DOMAIN rcvq = 1..Len(rcvq)
  BY NamesDistinct, LenProperties DEF IInv, TypeOK, KernTypes, AllReqs
<1>1. CASE UNCHANGED <<rcvq, replyQ, calls, envCount, answered, sent>>
  <2>1. /\ \A i, k, n \in Nat : QueueAt(i, k, n)' => QueueAt(i, k, n)
        /\ \A i, n \in Nat : ReplyAt(i, n)' => ReplyAt(i, n)
        /\ \A c, i, n \in Nat : CallAt(c, i, n)' => CallAt(c, i, n)
    BY <1>1 DEF QueueAt, ReplyAt, CallAt
  <2> QED BY <1>0, <1>1, <2>1, NoNewEvent
<1>2. ASSUME NEW r \in Reqs, KernelProcesses(r) PROVE EventOrder'
  <2>1. PICK shape \in Shapes : Deliver(Answer(r, sent[r] + 1, shape))
    BY <1>2 DEF KernelProcesses
  <2>2. UNCHANGED <<replyQ, calls, envCount>>
    BY <1>2 DEF KernelProcesses, recvVars, loopVars
  <2> DEFINE dgs == Answer(r, sent[r] + 1, shape)
  <2>3. dgs \in Seq(Datagram)
    BY <1>0, <1>2, AnswerType DEF KernelProcesses
  <2>4. \A d \in DOMAIN dgs : \A k \in DOMAIN dgs[d].msgs : dgs[d].msgs[k].src = r
    BY AnswerIs
  <2> HIDE DEF dgs
  <2>5. \A i \in DOMAIN rcvq' :
           \/ i \in DOMAIN rcvq /\ rcvq'[i] = rcvq[i]
           \/ i - Len(rcvq) \in DOMAIN dgs /\ rcvq'[i] = dgs[i - Len(rcvq)]
    BY <1>0, <2>1, <2>3, DeliverIs DEF dgs
  <2>6. ASSUME NEW i \in Nat, NEW k \in Nat, NEW n \in Nat, QueueAt(i, k, n)'
        PROVE  QueueAt(i, k, n)
    <3>1. /\ i \in DOMAIN rcvq' /\ k \in DOMAIN rcvq'[i].msgs
          /\ rcvq'[i].msgs[k].src = Env /\ rcvq'[i].msgs[k].n = n
      BY <2>6 DEF QueueAt
    <3>2. r # Env
      BY <1>0
    <3>3. i \in DOMAIN rcvq /\ rcvq'[i] = rcvq[i]
      BY <2>4, <2>5, <3>1, <3>2
    <3> QED BY <3>1, <3>3 DEF QueueAt
  <2>7. /\ \A i, n \in Nat : ReplyAt(i, n)' => ReplyAt(i, n)
        /\ \A c, i, n \in Nat : CallAt(c, i, n)' => CallAt(c, i, n)
    BY <2>2 DEF ReplyAt, CallAt
  <2> QED BY <1>0, <2>2, <2>6, <2>7, NoNewEvent
<1>3. CASE EventArrives \/ PeerSends
  <2>1. envCount' = envCount + 1 /\ UNCHANGED <<replyQ, calls>>
    BY <1>0, <1>3, ArrivesIs
  <2>2. PICK dg \in Datagram :
          /\ Deliver(<<dg>>) /\ <<dg>> \in Seq(Datagram)
          /\ DOMAIN dg.msgs = {1} /\ dg.msgs[1].src = Env /\ dg.msgs[1].n = envCount + 1
    BY <1>0, <1>3, ArrivesIs
  <2>3. DOMAIN <<dg>> = {1} /\ <<dg>>[1] = dg
    OBVIOUS
  <2>4. \A i \in DOMAIN rcvq' :
           \/ i \in DOMAIN rcvq /\ rcvq'[i] = rcvq[i]
           \/ i > Len(rcvq) /\ i - Len(rcvq) \in DOMAIN <<dg>> /\ rcvq'[i] = <<dg>>[i - Len(rcvq)]
    BY <1>0, <2>2, DeliverIs
  <2>5. \A i \in DOMAIN rcvq' :
           \/ i \in DOMAIN rcvq /\ rcvq'[i] = rcvq[i]
           \/ i - Len(rcvq) = 1 /\ rcvq'[i] = dg
    BY <2>3, <2>4
  <2>6. ASSUME NEW i \in Nat, NEW k \in Nat, NEW n \in Nat, QueueAt(i, k, n)'
        PROVE  QueueAt(i, k, n) \/ (i = Len(rcvq) + 1 /\ k = 1 /\ n = envCount + 1)
    <3>1. /\ i \in DOMAIN rcvq' /\ k \in DOMAIN rcvq'[i].msgs
          /\ rcvq'[i].msgs[k].src = Env /\ rcvq'[i].msgs[k].n = n
      BY <2>6 DEF QueueAt
    <3>2. CASE i \in DOMAIN rcvq /\ rcvq'[i] = rcvq[i]
      BY <3>1, <3>2 DEF QueueAt
    <3>3. CASE i - Len(rcvq) = 1 /\ rcvq'[i] = dg
      <4>1. i = Len(rcvq) + 1
        BY <1>0, <3>3
      <4>2. k = 1 /\ n = envCount + 1
        BY <2>2, <3>1, <3>3
      <4> QED BY <4>1, <4>2
    <3> QED BY <2>5, <3>1, <3>2, <3>3
  <2>7. /\ \A i, n \in Nat : ReplyAt(i, n)' => ReplyAt(i, n)
        /\ \A c, i, n \in Nat : CallAt(c, i, n)' => CallAt(c, i, n)
    BY <2>1 DEF ReplyAt, CallAt
  <2>8. \A i, k, n \in Nat : QueueAt(i, k, n) => i <= Len(rcvq)
    BY <1>0 DEF QueueAt
  <2> QED BY <1>0, <2>1, <2>6, <2>7, <2>8, ArrivalOrder
<1>4. ASSUME NEW r \in AllReqs, rcvq # <<>>, TakeDatagram(r),
             UNCHANGED <<calls, envCount, answered, sent>>
      PROVE  EventOrder'
  <2>1. /\ \A i \in DOMAIN rcvq' : i + 1 \in DOMAIN rcvq /\ rcvq'[i] = rcvq[i + 1] /\ i > 0
        /\ \A q \in AllReqs \ {r} : replyQ'[q] = replyQ[q]
        /\ 1 \in DOMAIN rcvq
    BY <1>0, <1>4, TakeIs
  <2>2. ASSUME NEW i \in Nat, NEW k \in Nat, NEW n \in Nat, QueueAt(i, k, n)'
        PROVE  i > 0 /\ QueueAt(i + 1, k, n)
    <3>1. /\ i \in DOMAIN rcvq' /\ k \in DOMAIN rcvq'[i].msgs
          /\ rcvq'[i].msgs[k].src = Env /\ rcvq'[i].msgs[k].n = n
      BY <2>2 DEF QueueAt
    <3>2. i > 0
      BY <2>1, <3>1
    <3> QED BY <2>1, <3>1, <3>2 DEF QueueAt
  <2>3. \A c, i, n \in Nat : CallAt(c, i, n)' => CallAt(c, i, n)
    BY <1>4 DEF CallAt
  <2>4. Len(replyQ[Listener]) \in Nat /\ DOMAIN replyQ[Listener] = 1..Len(replyQ[Listener])
    BY <1>0, LenProperties DEF TypeOK, RecvTypes
  <2>5. ASSUME NEW i \in Nat, NEW n \in Nat, ReplyAt(i, n)'
        PROVE  ReplyAt(i, n) \/ (i > Len(replyQ[Listener])
                                 /\ QueueAt(1, i - Len(replyQ[Listener]), n))
    <3>1. /\ i \in DOMAIN replyQ'[Listener]
          /\ replyQ'[Listener][i].msg.src = Env /\ replyQ'[Listener][i].msg.n = n
      BY <2>5 DEF ReplyAt
    <3>2. CASE r # Listener
      <4>1. replyQ'[Listener] = replyQ[Listener]
        BY <1>0, <2>1, <3>2
      <4> QED BY <3>1, <4>1 DEF ReplyAt
    <3>3. CASE r = Listener
      <4>1. /\ \A j \in DOMAIN replyQ[Listener] : replyQ'[Listener][j] = replyQ[Listener][j]
            /\ \A j \in DOMAIN replyQ'[Listener] :
                 \/ j \in DOMAIN replyQ[Listener]
                 \/ /\ j > Len(replyQ[Listener])
                    /\ j - Len(replyQ[Listener]) \in DOMAIN rcvq[1].msgs
                    /\ replyQ'[Listener][j].msg = rcvq[1].msgs[j - Len(replyQ[Listener])]
        BY <1>0, <1>4, <3>3, TakeIs
      <4>2. CASE i \in DOMAIN replyQ[Listener]
        BY <3>1, <4>1, <4>2 DEF ReplyAt
      <4>3. CASE i \notin DOMAIN replyQ[Listener]
        BY <2>1, <3>1, <4>1, <4>3 DEF QueueAt
      <4> QED BY <4>2, <4>3
    <3> QED BY <3>2, <3>3
  <2>6. \A i, n \in Nat : ReplyAt(i, n) => i <= Len(replyQ[Listener])
    BY <2>4 DEF ReplyAt
  <2>7. envCount' = envCount
    BY <1>4
  <2> QED BY <1>0, <2>2, <2>3, <2>4, <2>5, <2>6, <2>7, ReadOrder
<1>5. ASSUME NEW r \in AllReqs, PostRecvmsg(r) PROVE EventOrder'
  <2>1. /\ \A q \in AllReqs \ {r} : replyQ'[q] = replyQ[q] /\ calls'[q] = calls[q]
        /\ UNCHANGED <<rcvq, envCount>>
    BY <1>0, <1>5, PostIs
  <2>2. \A i, k, n \in Nat : QueueAt(i, k, n)' => QueueAt(i, k, n)
    BY <2>1 DEF QueueAt
  <2>3. CASE r # Listener
    <3>1. replyQ'[Listener] = replyQ[Listener] /\ calls'[Listener] = calls[Listener]
      BY <1>0, <2>1, <2>3
    <3>2. /\ \A i, n \in Nat : ReplyAt(i, n)' => ReplyAt(i, n)
          /\ \A c, i, n \in Nat : CallAt(c, i, n)' => CallAt(c, i, n)
      BY <3>1 DEF ReplyAt, CallAt
    <3> QED BY <1>0, <2>1, <2>2, <3>2, NoNewEvent
  <2>4. CASE r = Listener
    <3> DEFINE len == Len(calls[Listener])
               new == calls'[Listener][len + 1].bufs
    <3>1. /\ len \in Nat /\ DOMAIN calls[Listener] = 1..len
          /\ \A c \in DOMAIN calls[Listener] : calls'[Listener][c] = calls[Listener][c]
      BY <1>0, <1>5, <2>4, PostIs
    <3>2. \/ DOMAIN calls'[Listener] = DOMAIN calls[Listener]
          \/ DOMAIN calls'[Listener] = 1..(len + 1) /\ DOMAIN new = {}
          \/ /\ DOMAIN calls'[Listener] = 1..(len + 1) /\ replyQ'[Listener] = <<>>
             /\ DOMAIN new = DOMAIN replyQ[Listener]
             /\ \A i \in DOMAIN replyQ[Listener] : new[i] = replyQ[Listener][i].msg
      BY <1>0, <1>5, <2>4, PostIs
    <3>3. replyQ'[Listener] = replyQ[Listener] \/ replyQ'[Listener] = <<>>
      <4>1. replyQ \in [AllReqs -> Seq(Reply)]
        BY <1>0 DEF TypeOK, RecvTypes
      <4> QED BY <1>0, <1>5, <2>4, <4>1 DEF PostRecvmsg
    <3>4. \A i, n \in Nat : ReplyAt(i, n)' => ReplyAt(i, n)
      BY <3>3 DEF ReplyAt
    <3>5. \A c, i, n \in Nat : CallAt(c, i, n) => c <= len
      BY <3>1 DEF CallAt
    <3>6. CASE \/ DOMAIN calls'[Listener] = DOMAIN calls[Listener]
               \/ DOMAIN calls'[Listener] = 1..(len + 1) /\ DOMAIN new = {}
      <4>1. ASSUME NEW c \in Nat, NEW i \in Nat, NEW n \in Nat, CallAt(c, i, n)'
            PROVE  CallAt(c, i, n)
        <5>1. /\ c \in DOMAIN calls'[Listener] /\ i \in DOMAIN calls'[Listener][c].bufs
              /\ calls'[Listener][c].bufs[i].src = Env /\ calls'[Listener][c].bufs[i].n = n
          BY <4>1 DEF CallAt
        <5>2. c \in DOMAIN calls[Listener]
          BY <3>1, <3>6, <5>1
        <5> QED BY <3>1, <5>1, <5>2 DEF CallAt
      <4> QED BY <1>0, <2>1, <2>2, <3>4, <4>1, NoNewEvent
    <3>7. CASE /\ DOMAIN calls'[Listener] = 1..(len + 1) /\ replyQ'[Listener] = <<>>
               /\ DOMAIN new = DOMAIN replyQ[Listener]
               /\ \A i \in DOMAIN replyQ[Listener] : new[i] = replyQ[Listener][i].msg
      <4>1. ASSUME NEW c \in Nat, NEW i \in Nat, NEW n \in Nat, CallAt(c, i, n)'
            PROVE  CallAt(c, i, n) \/ (c = len + 1 /\ ReplyAt(i, n))
        <5>1. /\ c \in DOMAIN calls'[Listener] /\ i \in DOMAIN calls'[Listener][c].bufs
              /\ calls'[Listener][c].bufs[i].src = Env /\ calls'[Listener][c].bufs[i].n = n
          BY <4>1 DEF CallAt
        <5>2. CASE c \in DOMAIN calls[Listener]
          BY <3>1, <5>1, <5>2 DEF CallAt
        <5>3. CASE c = len + 1
          BY <3>7, <5>1, <5>3 DEF ReplyAt
        <5> QED BY <3>1, <3>7, <5>1, <5>2, <5>3
      <4>2. \A i, n \in Nat : ~ReplyAt(i, n)'
        BY <3>7 DEF ReplyAt
      <4> HIDE DEF len
      <4> QED BY <1>0, <2>1, <2>2, <3>1, <3>5, <4>1, <4>2, HandOrder
    <3> QED BY <3>2, <3>6, <3>7
  <2> QED BY <2>3, <2>4
<1>6. CASE Discarded
  <2>1. /\ \A i, k, n \in Nat : QueueAt(i, k, n)' => QueueAt(i, k, n)
        /\ \A i, n \in Nat : ReplyAt(i, n)' => ReplyAt(i, n)
        /\ \A c, i, n \in Nat : CallAt(c, i, n)' => CallAt(c, i, n)
    BY <1>6 DEF Discarded, QueueAt, ReplyAt, CallAt
  <2> QED BY <1>0, <1>6, <2>1, NoNewEvent DEF Discarded
<1> QED
  BY <1>1, <1>2, <1>3, <1>4, <1>5, <1>6, QueueFrame

\* However many requests race with the poll callback for the socket, and whatever the
\* kernel drops, the listener gets events in the order of their arrival and none twice
\* (on_recvmsg, do_recvmsg, post_recvmsg).
THEOREM EventsInOrderAlways == Spec => []EventsInOrder
<1>1. Init => EventOrder
  <2>1. Init => /\ \A i, k, n \in Nat : ~QueueAt(i, k, n)
                /\ \A i, n \in Nat : ~ReplyAt(i, n)
                /\ \A c, i, n \in Nat : ~CallAt(c, i, n)
    BY DEF Init, QueueAt, ReplyAt, CallAt, AllReqs
  <2> QED BY <2>1 DEF EventOrder, Numbered, QueueOrder, ReplyOrder, CallOrder, Stages
<1>2. IInv /\ EventOrder /\ [Next]_vars => EventOrder'
  BY EventStep
<1>3. IInv /\ EventOrder => EventsInOrder
  <2> SUFFICES ASSUME IInv, EventOrder,
                      NEW c1 \in DOMAIN calls[Listener], NEW c2 \in DOMAIN calls[Listener],
                      NEW i \in DOMAIN calls[Listener][c1].bufs,
                      NEW j \in DOMAIN calls[Listener][c2].bufs,
                      calls[Listener][c1].bufs[i].src = Env, calls[Listener][c2].bufs[j].src = Env,
                      c1 < c2 \/ (c1 = c2 /\ i < j)
               PROVE  calls[Listener][c1].bufs[i].n < calls[Listener][c2].bufs[j].n
    BY DEF EventsInOrder
  <2>1. calls[Listener] \in Seq(Call)
    BY DEF IInv, TypeOK, LoopTypes, AllReqs
  <2>2. ASSUME NEW c \in DOMAIN calls[Listener], NEW k \in DOMAIN calls[Listener][c].bufs
        PROVE  c \in Nat /\ k \in Nat /\ calls[Listener][c].bufs[k].n \in Nat
    <3>1. c \in 1..Len(calls[Listener]) /\ Len(calls[Listener]) \in Nat
      BY <2>1, LenProperties
    <3>2. calls[Listener][c] \in Call
      BY <2>1, <3>1, ElementOfSeq
    <3>3. calls[Listener][c].bufs \in Seq(Message)
      BY <3>2 DEF Call
    <3>4. k \in 1..Len(calls[Listener][c].bufs) /\ Len(calls[Listener][c].bufs) \in Nat
      BY <3>3, LenProperties
    <3>5. calls[Listener][c].bufs[k] \in Message
      BY <3>3, <3>4, ElementOfSeq
    <3> QED BY <3>1, <3>4, <3>5 DEF Message
  <2>3. PICK a \in Nat, b \in Nat :
           a = calls[Listener][c1].bufs[i].n /\ b = calls[Listener][c2].bufs[j].n
    BY <2>2
  <2>4. CallAt(c1, i, a) /\ CallAt(c2, j, b)
    BY <2>3 DEF CallAt
  <2>5. c1 \in Nat /\ c2 \in Nat /\ i \in Nat /\ j \in Nat
    BY <2>2
  <2>6. a < b
    BY <2>4, <2>5 DEF EventOrder, CallOrder
  <2> QED BY <2>3, <2>6
<1> QED BY Inductive, <1>1, <1>2, <1>3, PTL DEF Spec

-----------------------------------------------------------------------------
(* No answer is given twice, and none is lost in silence *)

\* The kernel answers no message with a datagram that is nothing but a header, and
\* JavaScript gives every request a callback.
NoBareAnswer ==
    \A shape \in Shapes : \A d \in DOMAIN shape :
       ~(Len(shape[d].kinds) = 1 /\ shape[d].kinds[1] = "bare" /\ ~shape[d].trunc)
AlwaysCallback == {} \notin CbModes

\* A place as in Holders: the kernel's queue, a reply queue, a callback.
Sources == AllReqs \cup {Env}
Held(x, c, i, m) ==
    \/ /\ x = Env /\ c \in DOMAIN rcvq
       /\ i \in DOMAIN rcvq[c].msgs /\ rcvq[c].msgs[i] = m
    \/ /\ x \in AllReqs /\ c = 0
       /\ i \in DOMAIN replyQ[x] /\ replyQ[x][i].msg = m
    \/ /\ x \in AllReqs /\ c \in DOMAIN calls[x]
       /\ i \in DOMAIN calls[x][c].bufs /\ calls[x][c].bufs[i] = m

Somewhere(m) == \E x \in Sources, c \in Nat, i \in Nat : Held(x, c, i, m)
Kept(m) == fd # "closed" => Somewhere(m)
Collected(m) == \E x \in AllReqs, c \in Nat, i \in Nat : Held(x, c, i, m)
OnePlace(m) ==
    \A x, y \in Sources : \A c, d, i, j \in Nat :
       Held(x, c, i, m) /\ Held(y, d, j, m) => x = y /\ c = d /\ i = j

\* An answer carries its request and the number of the message it answers, is in one
\* place at most, and is somewhere until the socket is closed.
AnswersKept ==
    \A r \in Reqs : \A m \in MsgsOf(answered[r]) :
       m.src = r /\ m.n \in Nat /\ m.n <= sent[r] /\ Kept(m) /\ OnePlace(m)

\* No place has an answer to a message that the kernel has not processed.
NoneEarly ==
    \A x \in Sources : \A c, i \in Nat : \A m \in Message :
       Held(x, c, i, m) /\ m.src \in Reqs => m.n <= sent[m.src]

\* do_recvmsg drops no datagram with an answer.
NoneDropped ==
    \A i \in DOMAIN rcvq : \A k \in DOMAIN rcvq[i].msgs :
       rcvq[i].msgs[k].src \in Reqs => rcvq[i].pid = 0 /\ ~IsBare(rcvq[i])

KeptInv == AnswersKept /\ NoneEarly /\ NoneDropped

\* A request with a completion to come has a callback.
CallbackInv ==
    /\ \A r \in InFlight : cbs[r] # {}
    /\ pc[Listener] # "free" => cbs[Listener] # {}

\* What is held, by place.
LEMMA HeldTypes ==
    ASSUME TypeOK
    PROVE  /\ DOMAIN rcvq = 1..Len(rcvq) /\ Len(rcvq) \in Nat
           /\ \A c \in DOMAIN rcvq : DOMAIN rcvq[c].msgs = 1..Len(rcvq[c].msgs)
                                     /\ Len(rcvq[c].msgs) \in Nat
           /\ \A q \in AllReqs : DOMAIN replyQ[q] = 1..Len(replyQ[q]) /\ Len(replyQ[q]) \in Nat
           /\ \A q \in AllReqs : DOMAIN calls[q] = 1..Len(calls[q]) /\ Len(calls[q]) \in Nat
           /\ \A q \in AllReqs : \A c \in DOMAIN calls[q] :
                 DOMAIN calls[q][c].bufs = 1..Len(calls[q][c].bufs)
                 /\ Len(calls[q][c].bufs) \in Nat
<1>1. /\ rcvq \in Seq(Datagram) /\ replyQ \in [AllReqs -> Seq(Reply)]
      /\ calls \in [AllReqs -> Seq(Call)]
  BY DEF TypeOK, KernTypes, RecvTypes, LoopTypes
<1>2. DOMAIN rcvq = 1..Len(rcvq) /\ Len(rcvq) \in Nat
  BY <1>1, LenProperties
<1>3. ASSUME NEW c \in DOMAIN rcvq
      PROVE  DOMAIN rcvq[c].msgs = 1..Len(rcvq[c].msgs) /\ Len(rcvq[c].msgs) \in Nat
  <2>1. rcvq[c] \in Datagram
    BY <1>1, <1>2, ElementOfSeq
  <2>2. rcvq[c].msgs \in Seq(Message)
    BY <2>1 DEF Datagram
  <2> QED BY <2>2, LenProperties
<1>4. ASSUME NEW q \in AllReqs
      PROVE  /\ DOMAIN replyQ[q] = 1..Len(replyQ[q]) /\ Len(replyQ[q]) \in Nat
             /\ DOMAIN calls[q] = 1..Len(calls[q]) /\ Len(calls[q]) \in Nat
  BY <1>1, LenProperties
<1>5. ASSUME NEW q \in AllReqs, NEW c \in DOMAIN calls[q]
      PROVE  DOMAIN calls[q][c].bufs = 1..Len(calls[q][c].bufs) /\ Len(calls[q][c].bufs) \in Nat
  <2>1. calls[q][c] \in Call
    BY <1>1, <1>4, ElementOfSeq
  <2>2. calls[q][c].bufs \in Seq(Message)
    BY <2>1 DEF Call
  <2> QED BY <2>2, LenProperties
<1> QED BY <1>2, <1>3, <1>4, <1>5

\* The holders of a message are the places where it is held.
LEMMA HoldersAre ==
    ASSUME TypeOK, NEW m
    PROVE  \A h : h \in Holders(m) <=>
              \E x \in Sources, c \in Nat, i \in Nat : h = <<x, c, i>> /\ Held(x, c, i, m)
<1>0. Env \notin AllReqs
  BY NamesDistinct
<1>1. ASSUME NEW h
      PROVE  h \in InKernel(m) <=>
                \E c \in DOMAIN rcvq : \E i \in DOMAIN rcvq[c].msgs :
                   h = <<Env, c, i>> /\ rcvq[c].msgs[i] = m
  BY DEF InKernel
<1>2. ASSUME NEW h, NEW q \in AllReqs
      PROVE  /\ h \in InReplies(q, m) <=>
                   \E i \in DOMAIN replyQ[q] : h = <<q, 0, i>> /\ replyQ[q][i].msg = m
             /\ h \in InCalls(q, m) <=>
                   \E c \in DOMAIN calls[q] : \E i \in DOMAIN calls[q][c].bufs :
                      h = <<q, c, i>> /\ calls[q][c].bufs[i] = m
  BY DEF InReplies, InCalls
<1>3. ASSUME NEW h
      PROVE  h \in Holders(m) <=>
                h \in InKernel(m) \/ \E q \in AllReqs : h \in InReplies(q, m) \/ h \in InCalls(q, m)
  BY DEF Holders
<1>4. ASSUME NEW h, h \in Holders(m)
      PROVE  \E x \in Sources, c \in Nat, i \in Nat : h = <<x, c, i>> /\ Held(x, c, i, m)
  <2>1. CASE h \in InKernel(m)
    <3>0. PICK c \in DOMAIN rcvq : \E i \in DOMAIN rcvq[c].msgs :
              h = <<Env, c, i>> /\ rcvq[c].msgs[i] = m
      BY <1>1, <2>1
    <3>1. PICK i \in DOMAIN rcvq[c].msgs : h = <<Env, c, i>> /\ rcvq[c].msgs[i] = m
      BY <3>0
    <3>2. Env \in Sources /\ c \in Nat /\ i \in Nat
      BY HeldTypes DEF Sources
    <3>3. Held(Env, c, i, m)
      BY <3>1 DEF Held
    <3> QED BY <3>1, <3>2, <3>3
  <2>2. ASSUME NEW q \in AllReqs, h \in InReplies(q, m)
        PROVE  \E x \in Sources, c \in Nat, i \in Nat : h = <<x, c, i>> /\ Held(x, c, i, m)
    <3>1. PICK i \in DOMAIN replyQ[q] : h = <<q, 0, i>> /\ replyQ[q][i].msg = m
      BY <1>2, <2>2
    <3>2. q \in Sources /\ i \in Nat /\ 0 \in Nat
      BY HeldTypes DEF Sources
    <3>3. Held(q, 0, i, m)
      BY <3>1 DEF Held
    <3> QED BY <3>1, <3>2, <3>3
  <2>3. ASSUME NEW q \in AllReqs, h \in InCalls(q, m)
        PROVE  \E x \in Sources, c \in Nat, i \in Nat : h = <<x, c, i>> /\ Held(x, c, i, m)
    <3>0. PICK c \in DOMAIN calls[q] : \E i \in DOMAIN calls[q][c].bufs :
              h = <<q, c, i>> /\ calls[q][c].bufs[i] = m
      BY <1>2, <2>3
    <3>1. PICK i \in DOMAIN calls[q][c].bufs : h = <<q, c, i>> /\ calls[q][c].bufs[i] = m
      BY <3>0
    <3>2. q \in Sources /\ i \in Nat /\ c \in Nat
      BY HeldTypes DEF Sources
    <3>3. Held(q, c, i, m)
      BY <3>1 DEF Held
    <3> QED BY <3>1, <3>2, <3>3
  <2> QED BY <1>3, <1>4, <2>1, <2>2, <2>3
<1>5. ASSUME NEW x \in Sources, NEW c \in Nat, NEW i \in Nat, Held(x, c, i, m)
      PROVE  <<x, c, i>> \in Holders(m)
  BY <1>1, <1>2, <1>3, <1>5 DEF Held
<1> QED BY <1>4, <1>5

\* One place is at most one holder.
LEMMA OneHolder ==
    ASSUME TypeOK, NEW m, OnePlace(m)
    PROVE  Cardinality(Holders(m)) <= 1
<1>1. CASE Somewhere(m)
  <2>1. PICK x \in Sources, c \in Nat, i \in Nat : Held(x, c, i, m)
    BY <1>1 DEF Somewhere
  <2>2. \A h : h \in Holders(m) <=> h = <<x, c, i>>
    BY <2>1, HoldersAre DEF OnePlace
  <2>3. Holders(m) = {<<x, c, i>>}
    BY <2>2
  <2>4. Cardinality(Holders(m)) = 1
    BY <2>3, FS_Singleton
  <2> QED BY <2>4
<1>2. CASE ~Somewhere(m)
  <2>1. Holders(m) = {}
    BY <1>2, HoldersAre DEF Somewhere
  <2> QED BY <2>1, FS_EmptySet
<1> QED BY <1>1, <1>2

\* Where a message was before a read by r.
LEMMA ReadBack ==
    ASSUME TypeOK, NEW r \in AllReqs, rcvq # <<>>, TakeDatagram(r), UNCHANGED calls, NEW m,
           NEW y \in Sources, NEW d \in Nat, NEW j \in Nat, Held(y, d, j, m)'
    PROVE  \/ y = Env /\ d > 0 /\ Held(Env, d + 1, j, m)
           \/ /\ y = r /\ d = 0 /\ j > Len(replyQ[r])
              /\ Held(Env, 1, j - Len(replyQ[r]), m)
           \/ /\ y \in AllReqs /\ (y = r /\ d = 0 => j <= Len(replyQ[r]))
              /\ Held(y, d, j, m)
<1>0. Env \notin AllReqs
  BY NamesDistinct
<1>1. /\ 1 \in DOMAIN rcvq /\ Len(rcvq) \in Nat
      /\ \A i \in DOMAIN rcvq' : i + 1 \in DOMAIN rcvq /\ rcvq'[i] = rcvq[i + 1] /\ i > 0
      /\ \A q \in AllReqs \ {r} : replyQ'[q] = replyQ[q]
      /\ Len(replyQ[r]) \in Nat /\ DOMAIN replyQ[r] = 1..Len(replyQ[r])
      /\ \A i \in DOMAIN replyQ[r] : replyQ'[r][i] = replyQ[r][i]
      /\ \A i \in DOMAIN replyQ'[r] :
            \/ i \in DOMAIN replyQ[r]
            \/ /\ i > Len(replyQ[r]) /\ i - Len(replyQ[r]) \in DOMAIN rcvq[1].msgs
               /\ replyQ'[r][i].msg = rcvq[1].msgs[i - Len(replyQ[r])]
  BY TakeIs
<1>2. CASE y = Env /\ d \in DOMAIN rcvq' /\ j \in DOMAIN rcvq'[d].msgs /\ rcvq'[d].msgs[j] = m
  <2>1. d > 0 /\ d + 1 \in DOMAIN rcvq /\ rcvq'[d] = rcvq[d + 1]
    BY <1>1, <1>2
  <2> QED BY <1>2, <2>1 DEF Held
<1>3. CASE y \in AllReqs /\ d = 0 /\ j \in DOMAIN replyQ'[y] /\ replyQ'[y][j].msg = m
  <2>1. CASE y # r
    <3>1. replyQ'[y] = replyQ[y]
      BY <1>1, <1>3, <2>1
    <3> QED BY <1>3, <2>1, <3>1 DEF Held
  <2>2. CASE y = r /\ j \in DOMAIN replyQ[r]
    <3>1. replyQ'[r][j] = replyQ[r][j] /\ j <= Len(replyQ[r])
      BY <1>1, <2>2
    <3> QED BY <1>3, <2>2, <3>1 DEF Held
  <2>3. CASE y = r /\ j \notin DOMAIN replyQ[r]
    <3>1. /\ j > Len(replyQ[r]) /\ j - Len(replyQ[r]) \in DOMAIN rcvq[1].msgs
          /\ replyQ'[r][j].msg = rcvq[1].msgs[j - Len(replyQ[r])]
      BY <1>1, <1>3, <2>3
    <3> QED BY <1>1, <1>3, <2>3, <3>1 DEF Held
  <2> QED BY <2>1, <2>2, <2>3
<1>4. CASE y \in AllReqs /\ d \in DOMAIN calls'[y] /\ j \in DOMAIN calls'[y][d].bufs
           /\ calls'[y][d].bufs[j] = m
  <2>1. d # 0
    BY <1>4, HeldTypes
  <2> QED BY <1>4, <2>1 DEF Held
<1> QED BY <1>2, <1>3, <1>4 DEF Held

\* A message that was somewhere is somewhere after a read that does not drop it.
LEMMA ReadForth ==
    ASSUME TypeOK, NEW r \in AllReqs, rcvq # <<>>, TakeDatagram(r), UNCHANGED calls, NEW m,
           Somewhere(m), fd # "closed",
           \A k \in DOMAIN rcvq[1].msgs :
              rcvq[1].msgs[k] = m => Accepted(r, rcvq[1]) = rcvq[1].msgs
    PROVE  Somewhere(m)'
<1>1. PICK x \in Sources, c \in Nat, i \in Nat : Held(x, c, i, m)
  BY DEF Somewhere
<1>2. CASE x = Env /\ c \in DOMAIN rcvq /\ i \in DOMAIN rcvq[c].msgs /\ rcvq[c].msgs[i] = m
  <2>0. DOMAIN rcvq' = 1..(Len(rcvq) - 1) /\ DOMAIN rcvq = 1..Len(rcvq) /\ Len(rcvq) \in Nat
        /\ \A n \in DOMAIN rcvq' : rcvq'[n] = rcvq[n + 1]
    BY TakeIs
  <2>1. CASE c = 1
    <3>1. Accepted(r, rcvq[1]) = rcvq[1].msgs
      BY <1>2, <2>1
    <3>2. /\ Len(replyQ[r]) \in Nat /\ Len(replyQ[r]) + i \in DOMAIN replyQ'[r]
          /\ replyQ'[r][Len(replyQ[r]) + i].msg = m
      <4>1. /\ Len(replyQ[r]) \in Nat
            /\ \A k \in DOMAIN rcvq[1].msgs :
                  /\ Len(replyQ[r]) + k \in DOMAIN replyQ'[r]
                  /\ replyQ'[r][Len(replyQ[r]) + k].msg = rcvq[1].msgs[k]
        BY <3>1, TakeIs
      <4> QED BY <1>2, <2>1, <4>1
    <3>3. PICK p \in Nat : p = Len(replyQ[r]) + i
      BY <3>2
    <3>4. Held(r, 0, p, m)'
      BY <3>2, <3>3 DEF Held
    <3>5. r \in Sources
      BY DEF Sources
    <3> QED BY <3>4, <3>5 DEF Somewhere
  <2>2. CASE c # 1
    <3>1. c - 1 \in DOMAIN rcvq' /\ c - 1 \in Nat /\ (c - 1) + 1 = c
      BY <1>2, <2>0, <2>2
    <3>2. rcvq'[c - 1] = rcvq[c]
      BY <2>0, <3>1
    <3>3. Held(Env, c - 1, i, m)'
      BY <1>2, <3>1, <3>2 DEF Held
    <3> QED BY <3>1, <3>3 DEF Somewhere, Sources
  <2> QED BY <2>1, <2>2
<1>3. CASE x \in AllReqs /\ c = 0 /\ i \in DOMAIN replyQ[x] /\ replyQ[x][i].msg = m
  <2>1. i \in DOMAIN replyQ'[x] /\ replyQ'[x][i] = replyQ[x][i]
    <3>1. CASE x = r
      BY <1>3, <3>1, TakeIs
    <3>2. CASE x # r
      <4>1. replyQ'[x] = replyQ[x]
        BY <1>3, <3>2, TakeIs
      <4> QED BY <1>3, <4>1
    <3> QED BY <3>1, <3>2
  <2>2. Held(x, 0, i, m)'
    BY <1>3, <2>1 DEF Held
  <2> QED BY <2>2 DEF Somewhere
<1>4. CASE x \in AllReqs /\ c \in DOMAIN calls[x] /\ i \in DOMAIN calls[x][c].bufs
           /\ calls[x][c].bufs[i] = m
  <2>1. Held(x, c, i, m)'
    BY <1>4 DEF Held
  <2> QED BY <2>1 DEF Somewhere
<1> QED BY <1>1, <1>2, <1>3, <1>4 DEF Held

\* A read keeps KeptInv.
LEMMA ReadKept ==
    ASSUME TypeOK, KeptInv, NEW r \in AllReqs, rcvq # <<>>, TakeDatagram(r),
           UNCHANGED <<fd, calls, envCount, answered, sent>>
    PROVE  KeptInv'
<1>0. Env \notin AllReqs /\ Len(replyQ[r]) \in Nat /\ UNCHANGED calls /\ Env \in Sources
  BY NamesDistinct, HeldTypes DEF Sources
<1>1. AnswersKept'
  <2> SUFFICES ASSUME NEW q \in Reqs, NEW m \in MsgsOf(answered[q])
               PROVE  m.src = q /\ m.n \in Nat /\ m.n <= sent[q] /\ Kept(m)' /\ OnePlace(m)'
    BY DEF AnswersKept, MsgsOf
  <2>1. m.src = q /\ m.n \in Nat /\ m.n <= sent[q] /\ Kept(m) /\ OnePlace(m)
    BY DEF KeptInv, AnswersKept
  <2>2. Kept(m)'
    <3>1. ASSUME NEW k \in DOMAIN rcvq[1].msgs, rcvq[1].msgs[k] = m
          PROVE  Accepted(r, rcvq[1]) = rcvq[1].msgs
      <4>1. 1 \in DOMAIN rcvq
        BY TakeIs
      <4>2. rcvq[1].pid = 0 /\ ~IsBare(rcvq[1])
        BY <2>1, <3>1, <4>1 DEF KeptInv, NoneDropped
      <4> QED BY <4>2 DEF Accepted, Accepts
    <3>2. CASE fd # "closed"
      <4>1. Somewhere(m)
        BY <2>1, <3>2 DEF Kept
      <4>2. Somewhere(m)'
        BY <1>0, <3>1, <3>2, <4>1, ReadForth
      <4> QED BY <4>2 DEF Kept
    <3>3. CASE fd = "closed"
      BY <3>3 DEF Kept
    <3> QED BY <3>2, <3>3
  <2>3. OnePlace(m)'
    <3> SUFFICES ASSUME NEW x \in Sources, NEW y \in Sources, NEW c \in Nat, NEW d \in Nat,
                        NEW i \in Nat, NEW j \in Nat, Held(x, c, i, m)', Held(y, d, j, m)'
                 PROVE  x = y /\ c = d /\ i = j
      BY DEF OnePlace
    <3> DEFINE Was(z, b, k) ==
                 \/ z = Env /\ b > 0 /\ Held(Env, b + 1, k, m)
                 \/ z = r /\ b = 0 /\ k > Len(replyQ[r]) /\ Held(Env, 1, k - Len(replyQ[r]), m)
                 \/ /\ z \in AllReqs /\ (z = r /\ b = 0 => k <= Len(replyQ[r]))
                    /\ Held(z, b, k, m)
    <3>1. Was(x, c, i) /\ Was(y, d, j)
      BY <1>0, ReadBack
    <3>2. ASSUME NEW u \in Sources, NEW v \in Sources, NEW a \in Nat, NEW b \in Nat, NEW k \in Nat,
                 NEW l \in Nat, Held(u, a, k, m), Held(v, b, l, m)
          PROVE  u = v /\ a = b /\ k = l
      BY <2>1, <3>2 DEF OnePlace
    <3>3. CASE x = Env /\ c > 0 /\ Held(Env, c + 1, i, m)
      <4>1. c + 1 \in Nat /\ d + 1 \in Nat  OBVIOUS
      <4>2. CASE y = Env /\ d > 0 /\ Held(Env, d + 1, j, m)
        BY <1>0, <3>2, <3>3, <4>1, <4>2
      <4>3. CASE y = r /\ d = 0 /\ j > Len(replyQ[r]) /\ Held(Env, 1, j - Len(replyQ[r]), m)
        <5>1. j - Len(replyQ[r]) \in Nat  BY <1>0, <4>3
        <5>2. c + 1 = 1  BY <1>0, <3>2, <3>3, <4>1, <4>3, <5>1
        <5> QED BY <3>3, <5>2
      <4>4. CASE y \in AllReqs /\ Held(y, d, j, m)
        BY <1>0, <3>2, <3>3, <4>1, <4>4
      <4> QED BY <3>1, <4>2, <4>3, <4>4
    <3>4. CASE x = r /\ c = 0 /\ i > Len(replyQ[r]) /\ Held(Env, 1, i - Len(replyQ[r]), m)
      <4>1. i - Len(replyQ[r]) \in Nat /\ d + 1 \in Nat  BY <1>0, <3>4
      <4>2. CASE y = Env /\ d > 0 /\ Held(Env, d + 1, j, m)
        <5>1. d + 1 = 1  BY <1>0, <3>2, <3>4, <4>1, <4>2
        <5> QED BY <4>2, <5>1
      <4>3. CASE y = r /\ d = 0 /\ j > Len(replyQ[r]) /\ Held(Env, 1, j - Len(replyQ[r]), m)
        <5>1. j - Len(replyQ[r]) \in Nat  BY <1>0, <4>3
        <5>2. i - Len(replyQ[r]) = j - Len(replyQ[r])  BY <1>0, <3>2, <3>4, <4>1, <4>3, <5>1
        <5> QED BY <1>0, <3>4, <4>3, <5>2
      <4>4. CASE y \in AllReqs /\ Held(y, d, j, m)
        BY <1>0, <3>2, <3>4, <4>1, <4>4
      <4> QED BY <3>1, <4>2, <4>3, <4>4
    <3>5. CASE /\ x \in AllReqs /\ (x = r /\ c = 0 => i <= Len(replyQ[r]))
               /\ Held(x, c, i, m)
      <4>1. d + 1 \in Nat  OBVIOUS
      <4>2. CASE y = Env /\ d > 0 /\ Held(Env, d + 1, j, m)
        BY <1>0, <3>2, <3>5, <4>1, <4>2
      <4>3. CASE y = r /\ d = 0 /\ j > Len(replyQ[r]) /\ Held(Env, 1, j - Len(replyQ[r]), m)
        <5>1. j - Len(replyQ[r]) \in Nat  BY <1>0, <4>3
        <5> QED BY <1>0, <3>2, <3>5, <4>3, <5>1
      <4>4. CASE y \in AllReqs /\ Held(y, d, j, m)
        BY <3>2, <3>5, <4>4
      <4> QED BY <3>1, <4>2, <4>3, <4>4
    <3> QED BY <3>1, <3>3, <3>4, <3>5
  <2> QED BY <2>1, <2>2, <2>3
<1>2. NoneEarly'
  <2> SUFFICES ASSUME NEW x \in Sources, NEW c \in Nat, NEW i \in Nat, NEW m \in Message,
                      Held(x, c, i, m)', m.src \in Reqs
               PROVE  m.n <= sent[m.src]
    BY DEF NoneEarly
  <2>1. \/ x = Env /\ c > 0 /\ Held(Env, c + 1, i, m)
        \/ x = r /\ c = 0 /\ i > Len(replyQ[r]) /\ Held(Env, 1, i - Len(replyQ[r]), m)
        \/ Held(x, c, i, m)
    BY <1>0, ReadBack
  <2>2. c + 1 \in Nat /\ (i > Len(replyQ[r]) => i - Len(replyQ[r]) \in Nat)
    BY <1>0
  <2> QED BY <1>0, <2>1, <2>2 DEF KeptInv, NoneEarly
<1>3. NoneDropped'
  <2>1. \A i \in DOMAIN rcvq' : i + 1 \in DOMAIN rcvq /\ rcvq'[i] = rcvq[i + 1]
    BY TakeIs
  <2> QED BY <2>1 DEF KeptInv, NoneDropped, IsBare
<1> QED BY <1>1, <1>2, <1>3 DEF KeptInv

\* A step that moves no message keeps KeptInv.
LEMMA UnmovedKept ==
    ASSUME TypeOK, KeptInv, UNCHANGED <<answered, sent, rcvq>>, fd = "closed" => fd' = "closed",
           \A x \in Sources : \A c, i \in Nat : \A m : Held(x, c, i, m)' <=> Held(x, c, i, m)
    PROVE  KeptInv'
<1>1. AnswersKept'
  <2> SUFFICES ASSUME NEW q \in Reqs, NEW m \in MsgsOf(answered[q])
               PROVE  m.src = q /\ m.n \in Nat /\ m.n <= sent[q] /\ Kept(m)' /\ OnePlace(m)'
    BY DEF AnswersKept, MsgsOf
  <2>1. m.src = q /\ m.n \in Nat /\ m.n <= sent[q] /\ Kept(m) /\ OnePlace(m)
    BY DEF KeptInv, AnswersKept
  <2>2. Kept(m)'
    BY <2>1 DEF Kept, Somewhere
  <2>3. OnePlace(m)'
    BY <2>1 DEF OnePlace
  <2> QED BY <2>1, <2>2, <2>3
<1>2. NoneEarly'
  BY DEF KeptInv, NoneEarly
<1>3. NoneDropped'
  BY DEF KeptInv, NoneDropped, IsBare
<1> QED BY <1>1, <1>2, <1>3 DEF KeptInv

\* A completion that hands the replies over keeps KeptInv.
LEMMA HandKept ==
    ASSUME TypeOK, KeptInv, NEW r \in AllReqs, UNCHANGED <<fd, rcvq, answered, sent>>,
           \A q \in AllReqs \ {r} : replyQ'[q] = replyQ[q] /\ calls'[q] = calls[q],
           \A c \in DOMAIN calls[r] : calls'[r][c] = calls[r][c],
           DOMAIN calls'[r] = 1..(Len(calls[r]) + 1),
           DOMAIN calls'[r][Len(calls[r]) + 1].bufs = DOMAIN replyQ[r],
           \A i \in DOMAIN replyQ[r] : calls'[r][Len(calls[r]) + 1].bufs[i] = replyQ[r][i].msg,
           replyQ'[r] = <<>>
    PROVE  KeptInv'
<1>1. PICK last \in Nat : last = Len(calls[r])
  BY HeldTypes
<1>2. /\ DOMAIN calls[r] = 1..last /\ DOMAIN calls'[r] = 1..(last + 1)
      /\ DOMAIN calls'[r][last + 1].bufs = DOMAIN replyQ[r]
      /\ \A i \in DOMAIN replyQ[r] : calls'[r][last + 1].bufs[i] = replyQ[r][i].msg
      /\ DOMAIN replyQ'[r] = {} /\ last + 1 \in Nat /\ Env \notin AllReqs
  BY <1>1, HeldTypes, NamesDistinct
<1>3. ASSUME NEW y \in Sources, NEW d \in Nat, NEW j \in Nat, NEW m, Held(y, d, j, m)'
      PROVE  \/ y = r /\ d = last + 1 /\ Held(r, 0, j, m)
             \/ Held(y, d, j, m) /\ (y = r => d # 0 /\ d <= last)
  <2>1. CASE y = Env /\ d \in DOMAIN rcvq' /\ j \in DOMAIN rcvq'[d].msgs /\ rcvq'[d].msgs[j] = m
    BY <1>2, <2>1 DEF Held
  <2>2. CASE y \in AllReqs /\ d = 0 /\ j \in DOMAIN replyQ'[y] /\ replyQ'[y][j].msg = m
    <3>1. y # r
      BY <1>2, <2>2
    <3>2. replyQ'[y] = replyQ[y]
      BY <2>2, <3>1
    <3> QED BY <2>2, <3>1, <3>2 DEF Held
  <2>3. CASE y \in AllReqs /\ d \in DOMAIN calls'[y] /\ j \in DOMAIN calls'[y][d].bufs
             /\ calls'[y][d].bufs[j] = m
    <3>1. CASE y # r
      <4>1. calls'[y] = calls[y]
        BY <2>3, <3>1
      <4> QED BY <2>3, <3>1, <4>1 DEF Held
    <3>2. CASE y = r /\ d = last + 1
      <4>1. j \in DOMAIN replyQ[r] /\ replyQ[r][j].msg = m
        BY <1>2, <2>3, <3>2
      <4> QED BY <3>2, <4>1 DEF Held
    <3>3. CASE y = r /\ d # last + 1
      <4>1. d \in DOMAIN calls[r] /\ d # 0 /\ d <= last
        BY <1>2, <2>3, <3>3
      <4>2. calls'[r][d] = calls[r][d]
        BY <4>1
      <4> QED BY <2>3, <3>3, <4>1, <4>2 DEF Held
    <3> QED BY <3>1, <3>2, <3>3
  <2> QED BY <1>3, <2>1, <2>2, <2>3 DEF Held
<1>4. ASSUME NEW m, Somewhere(m) PROVE Somewhere(m)'
  <2>1. PICK x \in Sources, c \in Nat, i \in Nat : Held(x, c, i, m)
    BY <1>4 DEF Somewhere
  <2>2. CASE x = Env /\ c \in DOMAIN rcvq /\ i \in DOMAIN rcvq[c].msgs /\ rcvq[c].msgs[i] = m
    <3>1. Held(x, c, i, m)'
      BY <2>2 DEF Held
    <3> QED BY <3>1 DEF Somewhere
  <2>3. CASE x \in AllReqs /\ c = 0 /\ i \in DOMAIN replyQ[x] /\ replyQ[x][i].msg = m
    <3>1. CASE x = r
      <4>1. /\ last + 1 \in DOMAIN calls'[r] /\ i \in DOMAIN calls'[r][last + 1].bufs
            /\ calls'[r][last + 1].bufs[i] = m
        BY <1>2, <2>3, <3>1
      <4>2. Held(r, last + 1, i, m)'
        BY <4>1 DEF Held
      <4> QED BY <1>2, <3>1, <4>2 DEF Somewhere
    <3>2. CASE x # r
      <4>1. replyQ'[x] = replyQ[x]
        BY <2>3, <3>2
      <4>2. Held(x, c, i, m)'
        BY <2>3, <4>1 DEF Held
      <4> QED BY <4>2 DEF Somewhere
    <3> QED BY <3>1, <3>2
  <2>4. CASE x \in AllReqs /\ c \in DOMAIN calls[x] /\ i \in DOMAIN calls[x][c].bufs
             /\ calls[x][c].bufs[i] = m
    <3>1. c \in DOMAIN calls'[x] /\ calls'[x][c] = calls[x][c]
      BY <1>2, <2>4
    <3>2. Held(x, c, i, m)'
      BY <2>4, <3>1 DEF Held
    <3> QED BY <3>2 DEF Somewhere
  <2> QED BY <2>1, <2>2, <2>3, <2>4 DEF Held
<1>5. AnswersKept'
  <2> SUFFICES ASSUME NEW q \in Reqs, NEW m \in MsgsOf(answered[q])
               PROVE  m.src = q /\ m.n \in Nat /\ m.n <= sent[q] /\ Kept(m)' /\ OnePlace(m)'
    BY DEF AnswersKept, MsgsOf
  <2>1. m.src = q /\ m.n \in Nat /\ m.n <= sent[q] /\ Kept(m) /\ OnePlace(m)
    BY DEF KeptInv, AnswersKept
  <2>2. OnePlace(m)'
    <3> SUFFICES ASSUME NEW x \in Sources, NEW y \in Sources, NEW c \in Nat, NEW d \in Nat,
                        NEW i \in Nat, NEW j \in Nat, Held(x, c, i, m)', Held(y, d, j, m)'
                 PROVE  x = y /\ c = d /\ i = j
      BY DEF OnePlace
    <3>1. \/ x = r /\ c = last + 1 /\ Held(r, 0, i, m)
          \/ Held(x, c, i, m) /\ (x = r => c # 0 /\ c <= last)
      BY <1>3
    <3>2. \/ y = r /\ d = last + 1 /\ Held(r, 0, j, m)
          \/ Held(y, d, j, m) /\ (y = r => d # 0 /\ d <= last)
      BY <1>3
    <3>3. r \in Sources /\ 0 \in Nat
      BY DEF Sources
    <3> QED BY <2>1, <3>1, <3>2, <3>3 DEF OnePlace
  <2>3. Kept(m)'
    BY <1>4, <2>1 DEF Kept
  <2> QED BY <2>1, <2>2, <2>3
<1>6. NoneEarly'
  <2>1. r \in Sources /\ 0 \in Nat
    BY DEF Sources
  <2> QED BY <1>3, <2>1 DEF KeptInv, NoneEarly
<1>7. NoneDropped'
  BY DEF KeptInv, NoneDropped, IsBare
<1> QED BY <1>5, <1>6, <1>7 DEF KeptInv

\* A completion keeps KeptInv.
LEMMA PostKept ==
    ASSUME TypeOK, KeptInv, CallbackInv, ErrorRepliesFlagged, NEW r \in AllReqs, PostRecvmsg(r)
    PROVE  KeptInv'
<1>1. /\ \A q \in AllReqs \ {r} : replyQ'[q] = replyQ[q] /\ calls'[q] = calls[q]
      /\ UNCHANGED <<fd, rcvq, answered, sent>>
      /\ \A c \in DOMAIN calls[r] : c \in DOMAIN calls'[r] /\ calls'[r][c] = calls[r][c]
      /\ Len(calls[r]) \in Nat /\ DOMAIN calls[r] = 1..Len(calls[r])
  <2>1. fd' = fd
    BY DEF PostRecvmsg
  <2> QED BY <2>1, PostIs
<1>2. cbs[r] # {}
  <2>1. pc[r] = "ready"
    BY DEF PostRecvmsg
  <2> QED BY <2>1 DEF CallbackInv, InFlight, AllReqs
<1>3. CASE /\ DOMAIN calls'[r] = 1..(Len(calls[r]) + 1)
           /\ DOMAIN calls'[r][Len(calls[r]) + 1].bufs = DOMAIN replyQ[r]
           /\ \A i \in DOMAIN replyQ[r] :
                 calls'[r][Len(calls[r]) + 1].bufs[i] = replyQ[r][i].msg
           /\ replyQ'[r] = <<>>
  BY <1>1, <1>3, HandKept
<1>4. CASE /\ replyQ'[r] = replyQ[r]
           /\ \/ calls'[r] = calls[r]
              \/ /\ DOMAIN calls'[r] = 1..(Len(calls[r]) + 1)
                 /\ DOMAIN calls'[r][Len(calls[r]) + 1].bufs = {}
  <2>1. ASSUME NEW x \in Sources, NEW c \in Nat, NEW i \in Nat, NEW m
        PROVE  Held(x, c, i, m)' <=> Held(x, c, i, m)
    <3>1. ASSUME NEW q \in AllReqs PROVE replyQ'[q] = replyQ[q]
      BY <1>1, <1>4
    <3>2. ASSUME NEW q \in AllReqs
          PROVE  (c \in DOMAIN calls'[q] /\ i \in DOMAIN calls'[q][c].bufs
                    /\ calls'[q][c].bufs[i] = m) <=>
                 (c \in DOMAIN calls[q] /\ i \in DOMAIN calls[q][c].bufs
                    /\ calls[q][c].bufs[i] = m)
      <4>1. CASE calls'[q] = calls[q]
        BY <4>1
      <4>2. CASE q = r /\ DOMAIN calls'[r] = 1..(Len(calls[r]) + 1)
                 /\ DOMAIN calls'[r][Len(calls[r]) + 1].bufs = {}
        <5>1. CASE c = Len(calls[r]) + 1
          BY <1>1, <4>2, <5>1
        <5>2. CASE c # Len(calls[r]) + 1
          <6>1. c \in DOMAIN calls'[r] <=> c \in DOMAIN calls[r]
            BY <1>1, <4>2, <5>2
          <6> QED BY <1>1, <4>2, <6>1
        <5> QED BY <5>1, <5>2
      <4> QED BY <1>1, <1>4, <4>1, <4>2
    <3> QED BY <1>1, <3>1, <3>2 DEF Held
  <2> QED BY <1>1, <2>1, UnmovedKept
<1>5. ~(~err[r] /\ \E i \in 1..Len(replyQ[r]) : replyQ[r][i].iserr)
  BY DEF ErrorRepliesFlagged
<1> QED BY <1>2, <1>3, <1>4, <1>5, PostIs

\* Where messages are after an arrival: where they were, and the new ones at the end.
LEMMA AppendHolds ==
    ASSUME TypeOK, NEW dgs \in Seq(Datagram), NEW len \in Nat, len = Len(rcvq),
           rcvq' = rcvq \o dgs, UNCHANGED <<replyQ, calls>>
    PROVE  /\ \A x \in Sources : \A c, i \in Nat : \A m : Held(x, c, i, m) => Held(x, c, i, m)'
           /\ \A c \in DOMAIN dgs : \A i \in DOMAIN dgs[c].msgs :
                 len + c \in Nat /\ i \in Nat /\ Held(Env, len + c, i, dgs[c].msgs[i])'
<1>0. rcvq \in Seq(Datagram) /\ Env \notin AllReqs
  BY NamesDistinct DEF TypeOK, KernTypes
<1>1. /\ DOMAIN rcvq = 1..len /\ DOMAIN dgs = 1..Len(dgs) /\ Len(dgs) \in Nat
      /\ DOMAIN rcvq' = 1..(len + Len(dgs))
      /\ \A i \in DOMAIN rcvq : rcvq'[i] = rcvq[i]
      /\ \A i \in DOMAIN dgs : rcvq'[len + i] = dgs[i]
  BY <1>0, ConcatIs
<1>2. ASSUME NEW x \in Sources, NEW c \in Nat, NEW i \in Nat, NEW m, Held(x, c, i, m)
      PROVE  Held(x, c, i, m)'
  <2>1. CASE x = Env /\ c \in DOMAIN rcvq /\ i \in DOMAIN rcvq[c].msgs /\ rcvq[c].msgs[i] = m
    <3>1. c \in DOMAIN rcvq' /\ rcvq'[c] = rcvq[c]
      BY <1>1, <2>1
    <3> QED BY <2>1, <3>1 DEF Held
  <2>2. CASE x \in AllReqs
    BY <1>0, <1>2, <2>2 DEF Held
  <2> QED BY <1>2, <2>1, <2>2 DEF Held
<1>3. ASSUME NEW c \in DOMAIN dgs, NEW i \in DOMAIN dgs[c].msgs
      PROVE  len + c \in Nat /\ i \in Nat /\ Held(Env, len + c, i, dgs[c].msgs[i])'
  <2>0. dgs[c] \in Datagram
    BY <1>1, ElementOfSeq
  <2>1. dgs[c].msgs \in Seq(Message)
    BY <2>0 DEF Datagram
  <2>2. i \in Nat
    BY <2>1, LenProperties
  <2>3. len + c \in Nat /\ len + c \in DOMAIN rcvq' /\ rcvq'[len + c] = dgs[c]
    BY <1>1
  <2> QED BY <2>2, <2>3 DEF Held
<1> QED BY <1>2, <1>3

\* A message that has just arrived.
NewAt(dgs, c, i, m) == c \in DOMAIN dgs /\ i \in DOMAIN dgs[c].msgs /\ dgs[c].msgs[i] = m

\* Where a message was before an arrival.
LEMMA AppendBack ==
    ASSUME TypeOK, NEW dgs \in Seq(Datagram), NEW len \in Nat, len = Len(rcvq),
           rcvq' = rcvq \o dgs, UNCHANGED <<replyQ, calls>>
    PROVE  \A x \in Sources : \A c, i \in Nat : \A m :
              Held(x, c, i, m)' => Held(x, c, i, m) \/ (x = Env /\ NewAt(dgs, c - len, i, m))
<1>0. rcvq \in Seq(Datagram) /\ Env \notin AllReqs
  BY NamesDistinct DEF TypeOK, KernTypes
<1>1. /\ \A k \in DOMAIN rcvq : rcvq'[k] = rcvq[k]
      /\ \A k \in DOMAIN rcvq' :
            \/ k \in DOMAIN rcvq
            \/ k - len \in DOMAIN dgs /\ rcvq'[k] = dgs[k - len]
  BY <1>0, ConcatIs
<1> TAKE x \in Sources
<1> TAKE c, i \in Nat
<1> TAKE m
<1> HAVE Held(x, c, i, m)'
<1>2. CASE x \in AllReqs
  BY <1>0, <1>2 DEF Held
<1>3. CASE x = Env /\ c \in DOMAIN rcvq' /\ i \in DOMAIN rcvq'[c].msgs /\ rcvq'[c].msgs[i] = m
  <2>1. CASE c \in DOMAIN rcvq
    BY <1>1, <1>3, <2>1 DEF Held
  <2>2. CASE c - len \in DOMAIN dgs /\ rcvq'[c] = dgs[c - len]
    BY <1>3, <2>2 DEF NewAt
  <2> QED BY <1>1, <1>3, <2>1, <2>2
<1> QED BY <1>2, <1>3 DEF Held

\* An arrival leaves the earlier answers where they are, if what it brings is none of them.
LEMMA AppendOld ==
    ASSUME TypeOK, KeptInv, NEW dgs \in Seq(Datagram), NEW len \in Nat, len = Len(rcvq),
           rcvq' = rcvq \o dgs, UNCHANGED <<replyQ, calls>>, UNCHANGED fd,
           \A c \in DOMAIN dgs : \A i \in DOMAIN dgs[c].msgs :
              \A q \in Reqs : dgs[c].msgs[i].src = q => dgs[c].msgs[i].n > sent[q],
           NEW q \in Reqs, NEW m \in MsgsOf(answered[q])
    PROVE  m.src = q /\ m.n \in Nat /\ m.n <= sent[q] /\ Kept(m)' /\ OnePlace(m)'
<1>1. m.src = q /\ m.n \in Nat /\ m.n <= sent[q] /\ Kept(m) /\ OnePlace(m) /\ sent[q] \in Nat
  BY DEF KeptInv, AnswersKept, TypeOK, SendTypes, AllReqs
<1>2. ASSUME NEW c \in DOMAIN dgs, NEW i \in DOMAIN dgs[c].msgs, dgs[c].msgs[i] = m PROVE FALSE
  <2>1. m.n > sent[q]
    BY <1>1, <1>2
  <2> QED BY <1>1, <2>1
<1>3. Kept(m)'
  <2>1. Somewhere(m) => Somewhere(m)'
    BY AppendHolds DEF Somewhere
  <2> QED BY <1>1, <2>1 DEF Kept
<1>4. ASSUME NEW x \in Sources, NEW c \in Nat, NEW i \in Nat, Held(x, c, i, m)'
      PROVE  Held(x, c, i, m)
  <2>1. \A y \in Sources : \A d, j \in Nat : \A l :
           Held(y, d, j, l)' => Held(y, d, j, l) \/ (y = Env /\ NewAt(dgs, d - len, j, l))
    BY AppendBack
  <2>2. ~NewAt(dgs, c - len, i, m)
    BY <1>2 DEF NewAt
  <2> QED BY <1>4, <2>1, <2>2
<1>5. OnePlace(m)'
  <2> SUFFICES ASSUME NEW x \in Sources, NEW y \in Sources, NEW c \in Nat, NEW d \in Nat,
                      NEW i \in Nat, NEW j \in Nat, Held(x, c, i, m)', Held(y, d, j, m)'
               PROVE  x = y /\ c = d /\ i = j
    BY DEF OnePlace
  <2>1. Held(x, c, i, m) /\ Held(y, d, j, m)
    BY <1>4
  <2> QED BY <1>1, <2>1 DEF OnePlace
<1> QED BY <1>1, <1>3, <1>5

\* An event or a datagram of another process keeps KeptInv.
LEMMA ArriveKept ==
    ASSUME TypeOK, KeptInv, EventArrives \/ PeerSends, ~overrun'
    PROVE  KeptInv'
<1>0. /\ Env \notin Reqs /\ rcvq \in Seq(Datagram) /\ KernTypes
      /\ UNCHANGED <<replyQ, calls, answered, sent>> /\ UNCHANGED fd
  BY NamesDistinct, ArrivesIs, EnvironmentFrame DEF TypeOK, KernTypes, AllReqs, sockVars
<1>1. PICK dg \in Datagram :
        /\ Deliver(<<dg>>) /\ <<dg>> \in Seq(Datagram)
        /\ DOMAIN dg.msgs = {1} /\ dg.msgs[1].src = Env
  BY ArrivesIs
<1>2. PICK dgs \in Seq(Datagram) : dgs = <<dg>>
  BY <1>1
<1>3. rcvq' = rcvq \o dgs /\ UNCHANGED <<replyQ, calls>>
  BY <1>0, <1>1, <1>2, DeliverIs
<1>4. \A c \in DOMAIN dgs : \A i \in DOMAIN dgs[c].msgs : dgs[c].msgs[i].src \notin Reqs
  BY <1>0, <1>1, <1>2
<1>5. PICK len \in Nat : len = Len(rcvq)
  BY HeldTypes
<1>6. AnswersKept'
  BY <1>0, <1>3, <1>4, <1>5, AppendOld DEF AnswersKept
<1>7. NoneEarly'
  <2> SUFFICES ASSUME NEW x \in Sources, NEW c \in Nat, NEW i \in Nat, NEW m \in Message,
                      Held(x, c, i, m)', m.src \in Reqs
               PROVE  m.n <= sent[m.src]
    BY <1>0 DEF NoneEarly
  <2>1. \A y \in Sources : \A d, j \in Nat : \A l :
           Held(y, d, j, l)' => Held(y, d, j, l) \/ (y = Env /\ NewAt(dgs, d - len, j, l))
    BY <1>3, <1>5, AppendBack
  <2>2. ~NewAt(dgs, c - len, i, m)
    BY <1>4 DEF NewAt
  <2>3. Held(x, c, i, m)
    BY <2>1, <2>2
  <2> QED BY <2>3 DEF KeptInv, NoneEarly
<1>8. NoneDropped'
  <2>1. \A i \in DOMAIN rcvq' :
           \/ i \in DOMAIN rcvq /\ rcvq'[i] = rcvq[i]
           \/ i - Len(rcvq) \in DOMAIN dgs /\ rcvq'[i] = dgs[i - Len(rcvq)]
    BY <1>0, <1>1, <1>2, DeliverIs
  <2> QED BY <1>4, <2>1 DEF KeptInv, NoneDropped, IsBare
<1> QED BY <1>6, <1>7, <1>8 DEF KeptInv

\* The messages of two runs of datagrams.
LEMMA MsgsOfConcat ==
    ASSUME NEW s \in Seq(Datagram), NEW t \in Seq(Datagram), NEW m \in MsgsOf(s \o t)
    PROVE  \/ m \in MsgsOf(s)
           \/ \E c \in DOMAIN t : \E i \in DOMAIN t[c].msgs : t[c].msgs[i] = m
<1> DEFINE u == s \o t
<1>1. /\ \A c \in DOMAIN s : u[c] = s[c]
      /\ \A c \in DOMAIN u : c \in DOMAIN s \/ (c - Len(s) \in DOMAIN t /\ u[c] = t[c - Len(s)])
  BY ConcatIs
<1> HIDE DEF u
<1>2. m \in MsgsOf(u)
  BY DEF u
<1>3. PICK c \in DOMAIN u : m \in {u[c].msgs[k] : k \in DOMAIN u[c].msgs}
  BY <1>2 DEF MsgsOf
<1>4. PICK k \in DOMAIN u[c].msgs : m = u[c].msgs[k]
  BY <1>3
<1>5. CASE c \in DOMAIN s
  <2>1. k \in DOMAIN s[c].msgs /\ m = s[c].msgs[k]
    BY <1>1, <1>4, <1>5
  <2> QED BY <1>5, <2>1 DEF MsgsOf
<1>6. CASE c - Len(s) \in DOMAIN t /\ u[c] = t[c - Len(s)]
  BY <1>4, <1>6
<1> QED BY <1>1, <1>5, <1>6

\* The kernel's answer to one message keeps KeptInv.
LEMMA ProcessKept ==
    ASSUME NoBareAnswer, TypeOK, SendInv, KeptInv, NEW r \in Reqs, KernelProcesses(r), ~overrun'
    PROVE  KeptInv'
<1>0. /\ r \in AllReqs /\ Env \notin AllReqs /\ Env \in Sources /\ KernTypes /\ Reqs \subseteq AllReqs
      /\ sent \in [AllReqs -> Nat] /\ answered \in [AllReqs -> Seq(Datagram)]
      /\ UNCHANGED <<replyQ, calls>> /\ UNCHANGED fd /\ sent' = [sent EXCEPT ![r] = @ + 1]
  BY NamesDistinct DEF TypeOK, SendTypes, KernTypes, AllReqs, Sources, KernelProcesses, recvVars,
     loopVars, sockVars
<1>1. PICK shape \in Shapes :
         /\ Deliver(Answer(r, sent[r] + 1, shape))
         /\ answered' = [answered EXCEPT ![r] = @ \o Answer(r, sent[r] + 1, shape)]
  BY DEF KernelProcesses
<1>2. Answer(r, sent[r] + 1, shape) \in Seq(Datagram)
  BY AnswerType DEF KernelProcesses
<1>3. PICK dgs \in Seq(Datagram) : dgs = Answer(r, sent[r] + 1, shape)
  BY <1>2
<1>4. PICK n \in Nat : n = sent[r] + 1
  BY <1>0
<1>5. PICK len \in Nat : len = Len(rcvq)
  BY HeldTypes
<1>6. /\ rcvq' = rcvq \o dgs /\ UNCHANGED <<replyQ, calls>>
      /\ answered' = [answered EXCEPT ![r] = @ \o dgs]
  BY <1>0, <1>1, <1>3, DeliverIs
<1>7. ASSUME NEW c \in DOMAIN dgs
      PROVE  /\ dgs[c] \in Datagram /\ dgs[c].pid = 0 /\ ~IsBare(dgs[c])
             /\ \A i \in DOMAIN dgs[c].msgs :
                  /\ dgs[c].msgs[i] \in Message
                  /\ dgs[c].msgs[i].src = r /\ dgs[c].msgs[i].n = n
                  /\ dgs[c].msgs[i].d = c /\ dgs[c].msgs[i].k = i
  <2>1. /\ dgs[c].pid = 0 /\ dgs[c].trunc = shape[c].trunc /\ c \in 1..Len(shape)
        /\ DOMAIN dgs[c].msgs = 1..Len(shape[c].kinds) /\ Len(shape[c].kinds) \in Nat
        /\ \A i \in DOMAIN dgs[c].msgs :
             /\ dgs[c].msgs[i].src = r /\ dgs[c].msgs[i].n = n
             /\ dgs[c].msgs[i].d = c /\ dgs[c].msgs[i].k = i
             /\ dgs[c].msgs[i].typ = shape[c].kinds[i]
    BY <1>3, <1>4, AnswerIs
  <2>2. dgs[c] \in Datagram
    BY LenProperties, ElementOfSeq
  <2>3. dgs[c].msgs \in Seq(Message)
    BY <2>2 DEF Datagram
  <2>4. \A i \in DOMAIN dgs[c].msgs : dgs[c].msgs[i] \in Message
    BY <2>3, LenProperties, ElementOfSeq
  <2>5. Len(dgs[c].msgs) = Len(shape[c].kinds)
    BY <2>1, <2>3, LenProperties
  <2>6. c \in DOMAIN shape
    BY <2>1, ShapesType, LenProperties
  <2>7. ~IsBare(dgs[c])
    BY <2>1, <2>5, <2>6 DEF NoBareAnswer, IsBare
  <2> QED BY <2>1, <2>2, <2>4, <2>7
<1>8. ASSUME NEW c \in DOMAIN dgs, NEW i \in DOMAIN dgs[c].msgs, NEW q \in Reqs,
             dgs[c].msgs[i].src = q
      PROVE  dgs[c].msgs[i].n > sent[q]
  BY <1>0, <1>4, <1>7, <1>8
<1>9. \A x \in Sources : \A c, i \in Nat : \A m :
         Held(x, c, i, m)' => Held(x, c, i, m) \/ (x = Env /\ NewAt(dgs, c - len, i, m))
  BY <1>5, <1>6, AppendBack
<1>10. ASSUME NEW q \in Reqs, NEW m \in MsgsOf(answered[q])
      PROVE  m.src = q /\ m.n \in Nat /\ m.n <= sent'[q] /\ Kept(m)' /\ OnePlace(m)'
  <2>1. m.src = q /\ m.n \in Nat /\ m.n <= sent[q] /\ Kept(m)' /\ OnePlace(m)'
    BY <1>0, <1>5, <1>6, <1>8, AppendOld
  <2>2. sent[q] \in Nat /\ sent'[q] \in Nat /\ sent[q] <= sent'[q]
    BY <1>0
  <2> QED BY <2>1, <2>2
<1>11. ASSUME NEW c \in DOMAIN dgs, NEW k \in DOMAIN dgs[c].msgs, NEW m \in Message,
              m = dgs[c].msgs[k]
       PROVE  m.src = r /\ m.n \in Nat /\ m.n <= sent'[r] /\ Kept(m)' /\ OnePlace(m)'
  <2>1. m.src = r /\ m.n = n /\ m.d = c /\ m.k = k /\ sent'[r] = n
    BY <1>0, <1>4, <1>7, <1>11
  <2>2. len + c \in Nat /\ k \in Nat /\ Held(Env, len + c, k, m)'
    BY <1>0, <1>5, <1>6, <1>11, AppendHolds
  <2>3. Somewhere(m)'
    BY <1>0, <2>2 DEF Somewhere
  <2>4. ASSUME NEW x \in Sources, NEW e \in Nat, NEW i \in Nat, Held(x, e, i, m)'
        PROVE  x = Env /\ e - len = c /\ i = k
    <3>1. ~Held(x, e, i, m)
      <4>1. Held(x, e, i, m) => m.n <= sent[r]
        BY <2>1 DEF KeptInv, NoneEarly
      <4> QED BY <1>0, <1>4, <2>1, <4>1
    <3>2. x = Env /\ NewAt(dgs, e - len, i, m)
      BY <1>9, <2>4, <3>1
    <3> QED BY <1>7, <2>1, <3>2 DEF NewAt
  <2>5. OnePlace(m)'
    <3> SUFFICES ASSUME NEW x \in Sources, NEW y \in Sources, NEW a \in Nat, NEW b \in Nat,
                        NEW i \in Nat, NEW j \in Nat, Held(x, a, i, m)', Held(y, b, j, m)'
                 PROVE  x = y /\ a = b /\ i = j
      BY DEF OnePlace
    <3>1. x = y /\ a - len = b - len /\ i = j
      BY <2>4
    <3> QED BY <3>1
  <2> QED BY <2>1, <2>3, <2>5 DEF Kept
<1>12. AnswersKept'
  <2> SUFFICES ASSUME NEW q \in Reqs, NEW m \in MsgsOf(answered'[q])
               PROVE  m.src = q /\ m.n \in Nat /\ m.n <= sent'[q] /\ Kept(m)' /\ OnePlace(m)'
    BY DEF AnswersKept, MsgsOf
  <2>1. CASE m \in MsgsOf(answered[q])
    BY <1>10, <2>1
  <2>2. CASE m \notin MsgsOf(answered[q])
    <3>1. q = r /\ answered[r] \in Seq(Datagram) /\ answered'[r] = answered[r] \o dgs
      BY <1>0, <1>6, <2>2
    <3>2. \E c \in DOMAIN dgs : \E k \in DOMAIN dgs[c].msgs : dgs[c].msgs[k] = m
      BY <2>2, <3>1, MsgsOfConcat
    <3>3. PICK c \in DOMAIN dgs : \E k \in DOMAIN dgs[c].msgs : dgs[c].msgs[k] = m
      BY <3>2
    <3>4. PICK k \in DOMAIN dgs[c].msgs : dgs[c].msgs[k] = m
      BY <3>3
    <3>5. m \in Message
      BY <1>7, <3>4
    <3> QED BY <1>11, <3>1, <3>4, <3>5
  <2> QED BY <2>1, <2>2
<1>13. NoneEarly'
  <2> SUFFICES ASSUME NEW x \in Sources, NEW c \in Nat, NEW i \in Nat, NEW m \in Message,
                      Held(x, c, i, m)', m.src \in Reqs
               PROVE  m.n <= sent'[m.src]
    BY DEF NoneEarly
  <2>1. CASE Held(x, c, i, m)
    <3>1. m.n <= sent[m.src]
      BY <2>1 DEF KeptInv, NoneEarly
    <3>2. sent[m.src] \in Nat /\ sent'[m.src] \in Nat /\ sent[m.src] <= sent'[m.src] /\ m.n \in Nat
      BY <1>0 DEF Message
    <3> QED BY <3>1, <3>2
  <2>2. CASE NewAt(dgs, c - len, i, m)
    <3>1. m.src = r /\ m.n = n /\ sent'[r] = n
      BY <1>0, <1>4, <1>7, <2>2 DEF NewAt
    <3> QED BY <3>1
  <2> QED BY <1>9, <2>1, <2>2
<1>14. NoneDropped'
  <2>1. \A i \in DOMAIN rcvq' :
           \/ i \in DOMAIN rcvq /\ rcvq'[i] = rcvq[i]
           \/ i - Len(rcvq) \in DOMAIN dgs /\ rcvq'[i] = dgs[i - Len(rcvq)]
    BY <1>0, <1>1, <1>3, DeliverIs
  <2> QED BY <1>7, <2>1 DEF KeptInv, NoneDropped, IsBare
<1> QED BY <1>12, <1>13, <1>14 DEF KeptInv

\* Every step keeps CallbackInv.
LEMMA CallbackStep ==
    ASSUME AlwaysCallback, IInv, CallbackInv, [Next]_vars
    PROVE  CallbackInv'
<1>0. /\ pc \in [AllReqs -> Points] /\ Listener \notin Reqs /\ Reqs \subseteq AllReqs
      /\ cbs \in [AllReqs -> SUBSET {"send", "reply"}] /\ Listener \in AllReqs
      /\ TypeOK /\ ListenInv
  BY NamesDistinct DEF IInv, TypeOK, LoopTypes, SendTypes, AllReqs
<1>1. CASE Create \/ Close \/ UNCHANGED vars
  BY <1>1 DEF Create, Close, CallbackInv, InFlight, vars, sendVars
<1>2. CASE OnRecv
  BY <1>0, <1>2 DEF OnRecv, CallbackInv, InFlight
<1>3. ASSUME NEW r \in Reqs, JavaScript(r) PROVE CallbackInv'
  <2>1. CASE CreateMsgReq(r) \/ AddMsgToReq(r)
    BY <1>0, <2>1 DEF CreateMsgReq, AddMsgToReq, CallbackInv, InFlight, WorkerPoints
  <2>2. CASE Sendmsg(r)
    <3>1. /\ \A q \in AllReqs \ {r} : pc'[q] = pc[q] /\ cbs'[q] = cbs[q]
          /\ cbs'[r] \in CbModes
      BY <1>0, <2>2 DEF Sendmsg
    <3> QED BY <1>0, <3>1 DEF AlwaysCallback, CallbackInv, InFlight
  <2> QED BY <1>3, <2>1, <2>2 DEF JavaScript
<1>4. ASSUME NEW r \in Reqs, Worker(r) PROVE CallbackInv'
  <2>1. /\ pc[r] \in WorkerPoints /\ cbs' = cbs
        /\ pc' \in {[pc EXCEPT ![r] = v] : v \in WorkerPoints \cup {"ready", "done"}}
    BY <1>0, <1>4, WorkerFrame
  <2>2. \A q \in AllReqs \ {r} : pc'[q] = pc[q]
    BY <1>0, <2>1
  <2> QED BY <1>0, <2>1, <2>2 DEF CallbackInv, InFlight
<1>5. ASSUME NEW r \in AllReqs, Completion(r) PROVE CallbackInv'
  <2>1. /\ pc[r] \in {"ready", "cb"} /\ cbs' = cbs
        /\ pc' \in {[pc EXCEPT ![r] = v] : v \in {"cb", IF r = Listener THEN "listen" ELSE "done"}}
    BY <1>0, <1>5, CompletionFrame DEF sendVars
  <2>2. /\ pc'[r] \in {"cb", "listen", "done"} /\ \A q \in AllReqs \ {r} : pc'[q] = pc[q]
    BY <1>0, <2>1
  <2> QED BY <1>0, <2>1, <2>2 DEF CallbackInv, InFlight, WorkerPoints
<1>6. CASE Poll
  <2>1. /\ cbs' = cbs /\ \A q \in Reqs : pc'[q] = pc[q]
    BY <1>0, <1>6, PollFrame DEF sendVars
  <2>2. pc[Listener] # "free"
    BY <1>0, <1>6, PollFrame DEF ListenInv
  <2> QED BY <2>1, <2>2 DEF CallbackInv, InFlight
<1>7. CASE EventArrives \/ PeerSends
  BY <1>7, EnvironmentFrame DEF CallbackInv, InFlight, sendVars
<1> QED
  BY <1>1, <1>2, <1>3, <1>4, <1>5, <1>6, <1>7 DEF Next, Quiescent

\* What is discarded with a closed socket was in the kernel's queue only.
LEMMA DiscardKept ==
    ASSUME TypeOK, KeptInv, Discarded
    PROVE  KeptInv'
<1>0. fd' = "closed" /\ DOMAIN rcvq' = {} /\ UNCHANGED <<replyQ, calls, answered, sent>>
  BY DEF Discarded
<1>1. ASSUME NEW x \in Sources, NEW c \in Nat, NEW i \in Nat, NEW m, Held(x, c, i, m)'
      PROVE  Held(x, c, i, m)
  BY <1>0, <1>1 DEF Held
<1>2. AnswersKept'
  <2> SUFFICES ASSUME NEW q \in Reqs, NEW m \in MsgsOf(answered[q])
               PROVE  m.src = q /\ m.n \in Nat /\ m.n <= sent[q] /\ Kept(m)' /\ OnePlace(m)'
    BY <1>0 DEF AnswersKept, MsgsOf
  <2>1. m.src = q /\ m.n \in Nat /\ m.n <= sent[q] /\ OnePlace(m)
    BY DEF KeptInv, AnswersKept
  <2>2. OnePlace(m)'
    BY <1>1, <2>1 DEF OnePlace
  <2> QED BY <1>0, <2>1, <2>2 DEF Kept
<1>3. NoneEarly'
  BY <1>0, <1>1 DEF KeptInv, NoneEarly
<1>4. NoneDropped'
  BY <1>0 DEF NoneDropped
<1> QED BY <1>2, <1>3, <1>4 DEF KeptInv

\* A discarded queue brings nothing anywhere.
LEMMA DiscardBack ==
    ASSUME Discarded
    PROVE  \A x \in Sources : \A c, i \in Nat : \A m : Held(x, c, i, m)' => Held(x, c, i, m)
BY DEF Discarded, Held

\* A closed socket stays closed.
LEMMA ClosedStays ==
    ASSUME IInv, [Next]_vars, fd = "closed" PROVE fd' = "closed"
<1>1. CASE Create \/ Close \/ OnRecv \/ UNCHANGED vars
  BY <1>1 DEF Create, Close, OnRecv, vars, sockVars
<1>2. ASSUME NEW r \in Reqs, JavaScript(r) PROVE fd' = fd
  BY <1>2 DEF JavaScript, CreateMsgReq, AddMsgToReq, Sendmsg, sockVars
<1>3. ASSUME NEW r \in Reqs, Worker(r) PROVE fd' = fd
  BY <1>3, WorkerFrame DEF IInv
<1>4. ASSUME NEW r \in AllReqs, Completion(r) PROVE fd' = fd
  BY <1>4 DEF Completion, PostRecvmsg, PostReturns, sockVars
<1>5. CASE Poll
  BY <1>5 DEF Poll, PollError, PollReadable, PollRecv, PollRecvError, PollRecvEmpty, sockVars
<1>6. CASE EventArrives \/ PeerSends
  BY <1>6, EnvironmentFrame DEF sockVars
<1> QED BY <1>1, <1>2, <1>3, <1>4, <1>5, <1>6 DEF Next, Quiescent

\* Every step after which the queue has not overflowed keeps KeptInv.
LEMMA KeptStep ==
    ASSUME NoBareAnswer, IInv, CallbackInv, ErrorRepliesFlagged, KeptInv, [Next]_vars, ~overrun'
    PROVE  KeptInv'
<1>0. TypeOK /\ SendInv
  BY DEF IInv
<1>1. CASE UNCHANGED <<rcvq, replyQ, calls, envCount, answered, sent>>
  <2>1. \A x \in Sources : \A c, i \in Nat : \A m : Held(x, c, i, m)' <=> Held(x, c, i, m)
    BY <1>1 DEF Held
  <2> QED BY <1>0, <1>1, <2>1, UnmovedKept, ClosedStays
<1>2. ASSUME NEW r \in Reqs, KernelProcesses(r) PROVE KeptInv'
  BY <1>0, <1>2, ProcessKept
<1>3. CASE EventArrives \/ PeerSends
  BY <1>0, <1>3, ArriveKept
<1>4. ASSUME NEW r \in AllReqs, rcvq # <<>>, TakeDatagram(r),
             UNCHANGED <<fd, calls, envCount, answered, sent>>
      PROVE  KeptInv'
  BY <1>0, <1>4, ReadKept
<1>5. ASSUME NEW r \in AllReqs, PostRecvmsg(r) PROVE KeptInv'
  BY <1>0, <1>5, PostKept
<1>6. CASE Discarded
  BY <1>0, <1>6, DiscardKept
<1> QED
  BY <1>1, <1>2, <1>3, <1>4, <1>5, <1>6, QueueFrame

\* What a request has read stays with it, and goes to its callback.
LEMMA CollectedStays ==
    ASSUME IInv, CallbackInv, ErrorRepliesFlagged, [Next]_vars, NEW m, Collected(m)
    PROVE  Collected(m)'
<1>0. TypeOK /\ Env \notin AllReqs
  BY NamesDistinct DEF IInv
<1>1. PICK x \in AllReqs, c \in Nat, i \in Nat : Held(x, c, i, m)
  BY DEF Collected
<1>2. CASE UNCHANGED <<replyQ, calls>>
  <2>1. Held(x, c, i, m)'
    BY <1>0, <1>1, <1>2 DEF Held
  <2> QED BY <2>1 DEF Collected
<1>3. ASSUME NEW r \in AllReqs, rcvq # <<>>, TakeDatagram(r), calls' = calls
      PROVE  Collected(m)'
  <2>1. \A k \in DOMAIN replyQ[x] : k \in DOMAIN replyQ'[x] /\ replyQ'[x][k] = replyQ[x][k]
    <3>1. CASE x = r
      BY <1>0, <1>3, <3>1, TakeIs
    <3>2. CASE x # r
      <4>1. replyQ'[x] = replyQ[x]
        BY <1>0, <1>3, <3>2, TakeIs
      <4> QED BY <4>1
    <3> QED BY <3>1, <3>2
  <2>2. Held(x, c, i, m)'
    BY <1>0, <1>1, <1>3, <2>1 DEF Held
  <2> QED BY <2>2 DEF Collected
<1>4. ASSUME NEW r \in AllReqs, PostRecvmsg(r) PROVE Collected(m)'
  <2>1. /\ \A q \in AllReqs \ {r} : replyQ'[q] = replyQ[q] /\ calls'[q] = calls[q]
        /\ \A d \in DOMAIN calls[r] : d \in DOMAIN calls'[r] /\ calls'[r][d] = calls[r][d]
        /\ Len(calls[r]) \in Nat
    BY <1>0, <1>4, PostIs
  <2>2. cbs[r] # {}
    <3>1. pc[r] = "ready"
      BY <1>4 DEF PostRecvmsg
    <3> QED BY <3>1 DEF CallbackInv, InFlight, AllReqs
  <2>3. ~(~err[r] /\ \E k \in 1..Len(replyQ[r]) : replyQ[r][k].iserr)
    BY DEF ErrorRepliesFlagged
  <2>4. \/ replyQ'[r] = replyQ[r]
        \/ /\ DOMAIN calls'[r] = 1..(Len(calls[r]) + 1)
           /\ DOMAIN calls'[r][Len(calls[r]) + 1].bufs = DOMAIN replyQ[r]
           /\ \A k \in DOMAIN replyQ[r] :
                 calls'[r][Len(calls[r]) + 1].bufs[k] = replyQ[r][k].msg
    BY <1>0, <1>4, <2>2, <2>3, PostIs
  <2>5. CASE c \in DOMAIN calls[x] /\ i \in DOMAIN calls[x][c].bufs /\ calls[x][c].bufs[i] = m
    <3>1. c \in DOMAIN calls'[x] /\ calls'[x][c] = calls[x][c]
      BY <2>1, <2>5
    <3>2. Held(x, c, i, m)'
      BY <2>5, <3>1 DEF Held
    <3> QED BY <3>2 DEF Collected
  <2>6. CASE c = 0 /\ i \in DOMAIN replyQ[x] /\ replyQ[x][i].msg = m
    <3>1. CASE replyQ'[x] = replyQ[x]
      <4>1. Held(x, c, i, m)'
        BY <2>6, <3>1 DEF Held
      <4> QED BY <4>1 DEF Collected
    <3>2. CASE replyQ'[x] # replyQ[x]
      <4>1. x = r
        BY <2>1, <3>2
      <4>2. PICK last \in Nat : last = Len(calls[r]) + 1
        BY <2>1
      <4>3. last \in DOMAIN calls'[r] /\ i \in DOMAIN calls'[r][last].bufs
            /\ calls'[r][last].bufs[i] = m
        BY <2>1, <2>4, <2>6, <3>2, <4>1, <4>2
      <4>4. Held(r, last, i, m)'
        BY <4>3 DEF Held
      <4> QED BY <4>4 DEF Collected
    <3> QED BY <3>1, <3>2
  <2> QED BY <1>0, <1>1, <2>5, <2>6 DEF Held
<1>5. ASSUME NEW r \in Reqs, KernelProcesses(r) PROVE UNCHANGED <<replyQ, calls>>
  BY <1>5 DEF KernelProcesses, recvVars, loopVars
<1>6. CASE EventArrives \/ PeerSends
  BY <1>0, <1>2, <1>6, ArrivesIs
<1>7. CASE Discarded \/ UNCHANGED <<rcvq, replyQ, calls, envCount, answered, sent>>
  BY <1>2, <1>7 DEF Discarded
<1> QED BY <1>2, <1>3, <1>4, <1>5, <1>6, <1>7, QueueFrame

\* A request stops waiting only by finding the queue of an open socket empty.
LEMMA AwaitsStays ==
    ASSUME IInv, [Next]_vars, NEW r \in Reqs, Awaits(r)
    PROVE  Awaits(r)' \/ (fd = "open" /\ rcvq = <<>>)
<1>0. /\ pc \in [AllReqs -> Points] /\ Listener \notin Reqs /\ Reqs \subseteq AllReqs
      /\ Listener \in AllReqs /\ TypeOK /\ ListenInv /\ err \in [AllReqs -> BOOLEAN]
      /\ r \in AllReqs /\ r # Listener
  BY NamesDistinct DEF IInv, TypeOK, LoopTypes, RecvTypes, AllReqs
<1>1. CASE Create \/ Close \/ OnRecv \/ UNCHANGED vars
  BY <1>0, <1>1 DEF Create, Close, OnRecv, Awaits, vars, recvVars
<1>2. ASSUME NEW q \in Reqs, JavaScript(q) PROVE Awaits(r)'
  <2>1. /\ pc[q] \in {"free", "made"} /\ \A p \in AllReqs \ {q} : pc'[p] = pc[p]
        /\ err' = err
    BY <1>0, <1>2 DEF JavaScript, CreateMsgReq, AddMsgToReq, Sendmsg, recvVars
  <2> QED BY <1>0, <2>1 DEF Awaits
<1>3. ASSUME NEW q \in Reqs, Worker(q) PROVE Awaits(r)' \/ (fd = "open" /\ rcvq = <<>>)
  <2>1. /\ \A p \in AllReqs \ {q} : pc'[p] = pc[p]
        /\ err[r] => err'[r]
    <3>1. pc' \in {[pc EXCEPT ![q] = v] : v \in WorkerPoints \cup {"ready", "done"}}
      BY <1>0, <1>3, WorkerFrame
    <3>2. err' = err \/ err' = [err EXCEPT ![q] = TRUE] \/ \E b \in BOOLEAN :
             err' = [err EXCEPT ![q] = @ \/ b]
      <4>1. CASE DoSendmsg(q) \/ SendFails(q) \/ WorkerFcntl(q) \/ WorkerRecvError(q)
        BY <4>1 DEF DoSendmsg, SendFails, WorkerFcntl, WorkerRecvError, Fail
      <4>2. CASE \/ StampHeader(q) \/ StampLast(q) \/ IncrementSeq(q) \/ WorkerRecvEmpty(q)
                 \/ SendReturns(q) \/ KernelProcesses(q)
        BY <4>2 DEF StampHeader, StampLast, IncrementSeq, WorkerRecvEmpty, SendReturns,
           KernelProcesses, recvVars
      <4>3. CASE WorkerRecv(q) \/ WorkerWakes(q)
        <5>1. err' = [err EXCEPT ![q] = @ \/ HasError(q, Head(rcvq))]
          BY <4>3 DEF WorkerRecv, WorkerWakes, WorkerTakes, TakeDatagram
        <5>2. HasError(q, Head(rcvq)) \in BOOLEAN
          <6>1. Head(rcvq) \in Datagram
            BY <1>0, <4>3, HeadTailProperties DEF TypeOK, KernTypes, WorkerRecv, WorkerWakes
          <6> QED BY <6>1 DEF HasError, Datagram
        <5> QED BY <5>1, <5>2
      <4> QED BY <1>3, <4>1, <4>2, <4>3 DEF Worker
    <3> QED BY <1>0, <3>1, <3>2
  <2>2. CASE q # r \/ err[r] \/ pc[Listener] # "free"
    BY <1>0, <2>1, <2>2 DEF Awaits
  <2>3. CASE q = r /\ ~err[r] /\ pc[Listener] = "free"
    <3>1. pc[r] \in {"send", "fcntl", "recv", "blocked"}
      BY <2>3 DEF Awaits
    <3>2. CASE SendFails(r) \/ WorkerRecvError(r)
      BY <1>0, <3>2 DEF SendFails, WorkerRecvError, Fail, Awaits
    <3>3. CASE KernelProcesses(r) \/ SendReturns(r)
      <4>1. ~listening
        BY <1>0, <2>3 DEF ListenInv
      <4> QED BY <1>0, <3>3, <4>1 DEF KernelProcesses, SendReturns, Awaits
    <3>4. CASE WorkerFcntl(r)
      BY <1>0, <3>4 DEF WorkerFcntl, Fail, Awaits
    <3>5. CASE WorkerRecv(r) \/ WorkerWakes(r)
      <4>1. /\ err' = [err EXCEPT ![r] = @ \/ HasError(r, Head(rcvq))]
            /\ pc' = [pc EXCEPT ![r] = IF Head(rcvq).trunc THEN Finished(r) ELSE "fcntl"]
        BY <3>5 DEF WorkerRecv, WorkerWakes, WorkerTakes, TakeDatagram
      <4>2. CASE Head(rcvq).trunc
        BY <1>0, <4>1, <4>2 DEF HasError, Awaits
      <4>3. CASE ~Head(rcvq).trunc
        BY <1>0, <4>1, <4>3 DEF Awaits
      <4> QED BY <4>2, <4>3
    <3>6. CASE WorkerRecvEmpty(r)
      BY <3>6 DEF WorkerRecvEmpty
    <3>7. ~(DoSendmsg(r) \/ StampHeader(r) \/ StampLast(r) \/ IncrementSeq(r))
      BY <3>1 DEF DoSendmsg, StampHeader, StampLast, IncrementSeq
    <3> QED BY <1>3, <2>3, <3>2, <3>3, <3>4, <3>5, <3>6, <3>7 DEF Worker
  <2> QED BY <2>2, <2>3
<1>4. ASSUME NEW q \in AllReqs, Completion(q) PROVE Awaits(r)'
  <2>1. /\ pc[q] \in {"ready", "cb"} /\ err' = err /\ \A p \in AllReqs \ {q} : pc'[p] = pc[p]
    BY <1>0, <1>4 DEF Completion, PostRecvmsg, PostReturns, recvVars
  <2>2. pc'[Listener] = pc[Listener] \/ pc'[Listener] # "free"
    BY <1>0, <1>4, <2>1 DEF Completion, PostRecvmsg, PostReturns
  <2> QED BY <1>0, <2>1, <2>2 DEF Awaits
<1>5. CASE Poll
  <2>1. /\ \A q \in Reqs : pc'[q] = pc[q]
        /\ err'[r] = err[r] /\ pc[Listener] # "free" /\ pc'[Listener] # "free"
    BY <1>0, <1>5 DEF Poll, PollError, PollReadable, PollRecv, PollRecvError, PollRecvEmpty,
       TakeDatagram, AfterPollRead, recvVars, ListenInv
  <2> QED BY <2>1 DEF Awaits
<1>6. CASE EventArrives \/ PeerSends
  BY <1>6, EnvironmentFrame DEF Awaits, recvVars
<1> QED BY <1>1, <1>2, <1>3, <1>4, <1>5, <1>6 DEF Next, Quiescent

\* An answer that no request has read yet, and may never be read, keeps its request
\* waiting or marks it with an error.
ReadOrAwaited == \A r \in Reqs : \A m \in MsgsOf(answered[r]) : Collected(m) \/ Awaits(r)

\* Every step keeps ReadOrAwaited.
LEMMA AwaitedStep ==
    ASSUME IInv, CallbackInv, ErrorRepliesFlagged, KeptInv, ReadOrAwaited, [Next]_vars
    PROVE  ReadOrAwaited'
<1>0. TypeOK /\ Reqs \subseteq AllReqs /\ answered \in [AllReqs -> Seq(Datagram)]
  BY DEF IInv, TypeOK, KernTypes, AllReqs
<1> SUFFICES ASSUME NEW r \in Reqs, NEW m \in MsgsOf(answered'[r])
             PROVE  Collected(m)' \/ Awaits(r)'
  BY DEF ReadOrAwaited, MsgsOf
<1>1. CASE m \in MsgsOf(answered[r])
  <2>1. CASE Collected(m)
    BY <2>1, CollectedStays
  <2>2. CASE ~Collected(m)
    <3>1. Awaits(r)
      BY <1>1, <2>2 DEF ReadOrAwaited
    <3>2. ~(fd = "open" /\ rcvq = <<>>)
      <4> SUFFICES ASSUME fd = "open", rcvq = <<>> PROVE FALSE
        OBVIOUS
      <4>1. Somewhere(m)
        BY <1>1 DEF KeptInv, AnswersKept, Kept
      <4>2. PICK x \in Sources, c \in Nat, i \in Nat : Held(x, c, i, m)
        BY <4>1 DEF Somewhere
      <4>3. x \in AllReqs
        BY <4>2 DEF Held
      <4> QED BY <2>2, <4>2, <4>3 DEF Collected
    <3> QED BY <3>1, <3>2, AwaitsStays
  <2> QED BY <2>1, <2>2
<1>2. CASE m \notin MsgsOf(answered[r])
  <2>1. \A q \in AllReqs : answered'[q] = answered[q] \/ (q \in Reqs /\ KernelProcesses(q))
    <3>1. ASSUME NEW q \in AllReqs, PostRecvmsg(q) PROVE answered' = answered
      BY <1>0, <3>1, PostIs
    <3>2. CASE EventArrives \/ PeerSends
      BY <1>0, <3>2, ArrivesIs
    <3>3. ASSUME NEW q \in Reqs, KernelProcesses(q)
          PROVE  \A p \in AllReqs \ {q} : answered'[p] = answered[p]
      BY <1>0, <3>3 DEF KernelProcesses
    <3> QED BY <3>1, <3>2, <3>3, QueueFrame DEF Discarded
  <2>2. KernelProcesses(r)
    BY <1>0, <1>2, <2>1
  <2>3. pc'[r] = "send"
    BY <2>2 DEF KernelProcesses
  <2> QED BY <2>3 DEF Awaits
<1> QED BY <1>1, <1>2

\* As long as the receive queue has not overflowed, and if every request has a callback
\* and the kernel answers with more than bare headers: however workers and the poll
\* callback race for the socket, no answer is given to two requests, none is lost until
\* close() discards the queue, and a request with an answer that is lost or was left in
\* the kernel does not end without an error, unless the socket went to a listener
\* (do_recvmsg, post_recvmsg and close, netlinksocket.cc:475, 608 and 387).
THEOREM KeptOrFailedAlways ==
    NoBareAnswer /\ AlwaysCallback => (Spec /\ []~overrun => []KeptOrFailed)
<1> SUFFICES ASSUME NoBareAnswer, AlwaysCallback
             PROVE  Spec /\ []~overrun => []KeptOrFailed
  OBVIOUS
<1>1. Init => CallbackInv /\ KeptInv /\ ReadOrAwaited
  <2> SUFFICES ASSUME Init PROVE CallbackInv /\ KeptInv /\ ReadOrAwaited
    OBVIOUS
  <2>1. CallbackInv
    BY DEF Init, CallbackInv, InFlight, WorkerPoints, AllReqs
  <2>2. /\ \A r \in Reqs : MsgsOf(answered[r]) = {}
        /\ DOMAIN rcvq = {}
    BY DEF Init, MsgsOf, AllReqs
  <2>3. \A x \in Sources : \A c, i \in Nat : \A m : ~Held(x, c, i, m)
    BY DEF Init, Held
  <2> QED BY <2>1, <2>2, <2>3 DEF KeptInv, AnswersKept, NoneEarly, NoneDropped, ReadOrAwaited
<1>2. IInv /\ CallbackInv /\ [Next]_vars => CallbackInv'
  BY CallbackStep
<1>3. IInv /\ CallbackInv /\ RepliesAccounted /\ KeptInv /\ [Next]_vars /\ ~overrun' => KeptInv'
  BY KeptStep DEF RepliesAccounted
<1>4. IInv /\ CallbackInv /\ RepliesAccounted /\ KeptInv /\ ReadOrAwaited /\ [Next]_vars
        => ReadOrAwaited'
  BY AwaitedStep DEF RepliesAccounted
<1>5. IInv /\ KeptInv /\ ReadOrAwaited => KeptOrFailed
  <2> SUFFICES ASSUME IInv, KeptInv, ReadOrAwaited, NEW r \in Reqs, NEW m \in MsgsOf(answered[r])
               PROVE  /\ Cardinality(Holders(m)) <= 1
                      /\ Holders(m) = {} => fd = "closed"
                      /\ Holders(m) \subseteq InKernel(m) => Awaits(r)
    BY DEF KeptOrFailed
  <2>1. TypeOK /\ Kept(m) /\ OnePlace(m)
    BY DEF IInv, KeptInv, AnswersKept
  <2>2. Holders(m) = {} => fd = "closed"
    BY <2>1, HoldersAre DEF Kept, Somewhere
  <2>3. ASSUME Collected(m) PROVE ~(Holders(m) \subseteq InKernel(m))
    <3>1. PICK x \in AllReqs, c \in Nat, i \in Nat : Held(x, c, i, m)
      BY <2>3 DEF Collected
    <3>2. <<x, c, i>> \in Holders(m)
      BY <2>1, <3>1, HoldersAre DEF Sources
    <3>3. <<x, c, i>> \notin InKernel(m)
      BY NamesDistinct DEF InKernel
    <3> QED BY <3>2, <3>3
  <2> QED BY <2>1, <2>2, <2>3, OneHolder DEF ReadOrAwaited
<1> QED BY Inductive, RepliesAccountedAlways, <1>1, <1>2, <1>3, <1>4, <1>5, PTL DEF Spec

-----------------------------------------------------------------------------
(* Sequence numbers *)

\* The 32-bit counter is not incremented past its end.
NoWrap == \A r \in Reqs : pc[r] = "inc" => incr[r] + 1 < SeqSpace

OneInFlight == \A r, q \in InFlight : r = q

\* The numbers a request has so far follow each other and are older than the counter.
Stamped == {"send", "fcntl", "recv", "blocked", "ready", "cb", "done"}
Consecutive(r) == \A i \in DOMAIN hdrs[r] : hdrs[r][i] = firstSeq[r] + i - 1
Stamps(r) ==
    /\ pc[r] = "hdr" => Consecutive(r) /\ seq = firstSeq[r] + Len(hdrs[r])
    /\ pc[r] \in {"last", "inc"} =>
          Consecutive(r) /\ seq = firstSeq[r] + Len(hdrs[r]) - 1 /\ Len(hdrs[r]) > 0
    /\ pc[r] = "inc" => incr[r] = seq /\ lastSeq[r] = seq
    /\ pc[r] \in Stamped /\ hdrs[r] # <<>> =>
          Consecutive(r) /\ lastSeq[r] = firstSeq[r] + Len(hdrs[r]) - 1
Older(r) ==
    \A i \in DOMAIN hdrs[r] :
       hdrs[r][i] < seq \/ (hdrs[r][i] = seq /\ pc[r] \in {"last", "inc"})
Distinct(r, q) == \A i \in DOMAIN hdrs[r], j \in DOMAIN hdrs[q] : hdrs[r][i] # hdrs[q][j]

SeqInv ==
    /\ OneInFlight
    /\ \A r \in Reqs : Stamps(r) /\ Older(r)
    /\ \A r, q \in Reqs : r # q => Distinct(r, q)

\* A step of r that stamps nothing keeps SeqInv if it keeps what SeqInv says of r.
LEMMA SeqUnmoved ==
    ASSUME SeqInv, NEW r \in Reqs, UNCHANGED <<seq, hdrs>>, OneInFlight',
           \A q \in Reqs \ {r} : /\ pc'[q] = pc[q] /\ incr'[q] = incr[q]
                                 /\ firstSeq'[q] = firstSeq[q] /\ lastSeq'[q] = lastSeq[q],
           Stamps(r)', Older(r)'
    PROVE  SeqInv'
<1>1. ASSUME NEW q \in Reqs PROVE Stamps(q)' /\ Older(q)'
  <2>1. CASE q = r
    BY <2>1
  <2>2. CASE q # r
    <3>1. /\ pc'[q] = pc[q] /\ incr'[q] = incr[q] /\ hdrs' = hdrs /\ seq' = seq
          /\ firstSeq'[q] = firstSeq[q] /\ lastSeq'[q] = lastSeq[q]
      BY <2>2
    <3>2. Stamps(q) /\ Older(q)
      BY DEF SeqInv
    <3> QED BY <3>1, <3>2 DEF Stamps, Older, Consecutive
  <2> QED BY <2>1, <2>2
<1>2. \A q, p \in Reqs : q # p => Distinct(q, p)'
  BY DEF SeqInv, Distinct
<1> QED BY <1>1, <1>2 DEF SeqInv

\* Every step of a socket used one request at a time keeps SeqInv.
LEMMA SeqStep ==
    ASSUME Serial, NoWrap, IInv, SeqInv, [Next]_vars
    PROVE  SeqInv'
<1>0. /\ pc \in [AllReqs -> Points] /\ Listener \notin Reqs /\ Reqs \subseteq AllReqs
      /\ hdrs \in [AllReqs -> Seq(SeqNumbers)] /\ incr \in [AllReqs -> SeqNumbers]
      /\ firstSeq \in [AllReqs -> SeqNumbers] /\ lastSeq \in [AllReqs -> SeqNumbers]
      /\ seq \in SeqNumbers /\ Listener \in AllReqs /\ TypeOK /\ ListenInv /\ SendInv
  BY NamesDistinct DEF IInv, TypeOK, LoopTypes, SendTypes, SockTypes, AllReqs
<1>1. ASSUME UNCHANGED <<seq, hdrs>>,
             \A q \in Reqs : /\ pc'[q] = pc[q] /\ incr'[q] = incr[q]
                             /\ firstSeq'[q] = firstSeq[q] /\ lastSeq'[q] = lastSeq[q]
      PROVE  SeqInv'
  <2>1. OneInFlight'
    BY <1>1 DEF SeqInv, OneInFlight, InFlight
  <2>2. \A q \in Reqs : Stamps(q)' /\ Older(q)'
    BY <1>1 DEF SeqInv, Stamps, Older, Consecutive
  <2>3. \A q, p \in Reqs : q # p => Distinct(q, p)'
    BY <1>1 DEF SeqInv, Distinct
  <2> QED BY <2>1, <2>2, <2>3 DEF SeqInv
<1>2. CASE Create \/ Close \/ UNCHANGED vars
  BY <1>1, <1>2 DEF Create, Close, vars, sockVars, sendVars
<1>3. CASE OnRecv
  <2>1. /\ UNCHANGED <<seq, hdrs, incr>>
        /\ \A q \in Reqs : /\ pc'[q] = pc[q] /\ firstSeq'[q] = firstSeq[q]
                            /\ lastSeq'[q] = lastSeq[q]
    BY <1>0, <1>3 DEF OnRecv
  <2> QED BY <1>1, <2>1
<1>4. CASE Poll
  <2>1. UNCHANGED <<seq, sendVars>> /\ \A q \in Reqs : pc'[q] = pc[q]
    BY <1>0, <1>4, PollFrame
  <2> QED BY <1>1, <2>1 DEF sendVars
<1>5. CASE EventArrives \/ PeerSends
  BY <1>1, <1>5, EnvironmentFrame DEF sockVars, sendVars
<1>6. ASSUME NEW r \in Reqs, UNCHANGED <<seq, hdrs, incr, firstSeq, lastSeq>>,
             pc[r] \in Stamped, pc'[r] \in Stamped, r \in InFlight' => r \in InFlight,
             \A q \in Reqs \ {r} : pc'[q] = pc[q]
      PROVE  SeqInv'
  <2>1. OneInFlight'
    <3>1. InFlight' \subseteq InFlight
      BY <1>6 DEF InFlight
    <3> QED BY <3>1 DEF SeqInv, OneInFlight
  <2>2. Stamps(r)' /\ Older(r)'
    BY <1>6 DEF SeqInv, Stamps, Older, Consecutive, Stamped
  <2> QED BY <1>6, <2>1, <2>2, SeqUnmoved
<1>7. ASSUME NEW r \in AllReqs, Completion(r) PROVE SeqInv'
  <2>1. /\ pc[r] \in {"ready", "cb"} /\ UNCHANGED <<seq, sendVars>>
        /\ pc' \in {[pc EXCEPT ![r] = v] : v \in {"cb", IF r = Listener THEN "listen" ELSE "done"}}
    BY <1>0, <1>7, CompletionFrame
  <2>2. CASE r = Listener
    BY <1>0, <1>1, <2>1, <2>2 DEF sendVars
  <2>3. CASE r # Listener
    <3>1. r \in Reqs /\ pc'[r] \in {"cb", "done"} /\ \A q \in Reqs \ {r} : pc'[q] = pc[q]
      BY <1>0, <2>1, <2>3 DEF AllReqs
    <3>2. r \notin InFlight'
      BY <3>1 DEF InFlight, WorkerPoints
    <3> QED BY <1>6, <2>1, <3>1, <3>2 DEF sendVars, Stamped
  <2> QED BY <2>2, <2>3
<1>8. ASSUME NEW r \in Reqs, JavaScript(r) PROVE SeqInv'
  <2>1. /\ UNCHANGED <<seq, hdrs, incr>> /\ pc[r] \in {"free", "made"} /\ hdrs[r] = <<>>
        /\ pc'[r] \in {"made", "queued"} /\ (pc'[r] = "queued" => InFlight = {})
        /\ \A q \in Reqs \ {r} : pc'[q] = pc[q] /\ firstSeq'[q] = firstSeq[q]
                                /\ lastSeq'[q] = lastSeq[q]
    BY <1>0, <1>8 DEF JavaScript, CreateMsgReq, AddMsgToReq, Sendmsg, sockVars, SendInv
  <2>2. OneInFlight'
    <3>1. CASE pc'[r] = "queued"
      <4>1. InFlight' \subseteq {r}
        BY <2>1, <3>1 DEF InFlight
      <4> QED BY <4>1 DEF OneInFlight
    <3>2. CASE pc'[r] = "made"
      <4>1. InFlight' \subseteq InFlight
        BY <2>1, <3>2 DEF InFlight, WorkerPoints
      <4> QED BY <4>1 DEF SeqInv, OneInFlight
    <3> QED BY <2>1, <3>1, <3>2
  <2>3. Stamps(r)' /\ Older(r)'
    <3>1. hdrs'[r] = <<>> /\ DOMAIN hdrs'[r] = {}
      BY <2>1
    <3> QED BY <2>1, <3>1 DEF Stamps, Older, Consecutive, Stamped
  <2> QED BY <2>1, <2>2, <2>3, SeqUnmoved
<1>9. ASSUME NEW r \in Reqs, Worker(r) PROVE SeqInv'
  <2>1. /\ pc[r] \in WorkerPoints
        /\ pc' \in {[pc EXCEPT ![r] = v] : v \in WorkerPoints \cup {"ready", "done"}}
    BY <1>0, <1>9, WorkerFrame
  <2>2. \A q \in Reqs \ {r} : pc'[q] = pc[q]
    BY <1>0, <2>1
  <2>3. r \in InFlight /\ InFlight' \subseteq InFlight
    BY <2>1, <2>2 DEF InFlight
  <2>4. OneInFlight' /\ \A q \in Reqs \ {r} : q \notin InFlight
    BY <2>3 DEF SeqInv, OneInFlight
  <2>5. ASSUME NEW q \in Reqs \ {r}, NEW i \in DOMAIN hdrs[q] PROVE hdrs[q][i] < seq
    <3>1. pc[q] \notin {"last", "inc"}
      BY <2>4 DEF InFlight, WorkerPoints
    <3> QED BY <3>1 DEF SeqInv, Older
  <2>6. /\ hdrs[r] \in Seq(SeqNumbers) /\ Len(hdrs[r]) \in Nat
        /\ DOMAIN hdrs[r] = 1..Len(hdrs[r]) /\ seq \in Nat
    BY <1>0, LenProperties DEF SeqNumbers
  <2>7. CASE DoSendmsg(r)
    <3>1. hdrs[r] = <<>> /\ UNCHANGED <<seq, hdrs, incr, lastSeq>>
      BY <1>0, <2>7 DEF DoSendmsg, SendInv, sockVars
    <3>2. \A q \in Reqs \ {r} : firstSeq'[q] = firstSeq[q]
      BY <1>0, <2>7 DEF DoSendmsg
    <3>3. pc'[r] \in {"ready", "done"} \/ (pc'[r] = "hdr" /\ firstSeq'[r] = seq)
      BY <1>0, <2>7 DEF DoSendmsg, Fail, Finished
    <3>4. hdrs'[r] = <<>> /\ DOMAIN hdrs'[r] = {} /\ Len(hdrs'[r]) = 0
      BY <3>1
    <3>5. Stamps(r)' /\ Older(r)'
      BY <2>6, <3>1, <3>3, <3>4 DEF Stamps, Older, Consecutive, Stamped
    <3> QED BY <2>2, <2>4, <3>1, <3>2, <3>5, SeqUnmoved
  <2>8. CASE StampHeader(r)
    <3>1. /\ pc[r] = "hdr" /\ pc'[r] = "last" /\ UNCHANGED <<seq, incr, firstSeq, lastSeq>>
          /\ hdrs'[r] = Append(hdrs[r], seq) /\ \A q \in Reqs \ {r} : hdrs'[q] = hdrs[q]
      BY <1>0, <2>8 DEF StampHeader, sockVars
    <3>2. /\ Len(hdrs'[r]) = Len(hdrs[r]) + 1 /\ DOMAIN hdrs'[r] = 1..(Len(hdrs[r]) + 1)
          /\ \A i \in DOMAIN hdrs[r] : hdrs'[r][i] = hdrs[r][i]
          /\ hdrs'[r][Len(hdrs[r]) + 1] = seq
      BY <1>0, <2>6, <3>1, AppendProperties
    <3>3. Consecutive(r) /\ seq = firstSeq[r] + Len(hdrs[r]) /\ firstSeq[r] \in Nat
      BY <1>0, <3>1 DEF SeqInv, Stamps, SeqNumbers
    <3>4. \A i \in DOMAIN hdrs[r] : hdrs[r][i] < seq
      BY <3>1 DEF SeqInv, Older
    <3>5. Stamps(r)'
      <4>1. Consecutive(r)'
        <5> SUFFICES ASSUME NEW i \in DOMAIN hdrs'[r] PROVE hdrs'[r][i] = firstSeq[r] + i - 1
          BY <3>1 DEF Consecutive
        <5>1. CASE i \in DOMAIN hdrs[r]
          BY <3>2, <3>3, <5>1 DEF Consecutive
        <5>2. CASE i = Len(hdrs[r]) + 1
          BY <2>6, <3>2, <3>3, <5>2
        <5> QED BY <2>6, <3>2, <5>1, <5>2
      <4>2. seq = firstSeq[r] + Len(hdrs'[r]) - 1 /\ Len(hdrs'[r]) > 0
        BY <2>6, <3>2, <3>3
      <4> QED BY <3>1, <4>1, <4>2 DEF Stamps, Stamped
    <3>6. Older(r)'
      <4> SUFFICES ASSUME NEW i \in DOMAIN hdrs'[r] PROVE hdrs'[r][i] < seq \/ hdrs'[r][i] = seq
        BY <3>1 DEF Older
      <4>1. i \in DOMAIN hdrs[r] \/ i = Len(hdrs[r]) + 1
        BY <2>6, <3>2
      <4> QED BY <3>2, <3>4, <4>1
    <3>7. ASSUME NEW q \in Reqs, q # r PROVE Stamps(q)' /\ Older(q)'
      <4>1. pc'[q] = pc[q] /\ hdrs'[q] = hdrs[q] /\ UNCHANGED <<seq, incr, firstSeq, lastSeq>>
        BY <2>2, <3>1, <3>7
      <4>2. Stamps(q) /\ Older(q)
        BY DEF SeqInv
      <4> QED BY <4>1, <4>2 DEF Stamps, Older, Consecutive
    <3>8. ASSUME NEW q \in Reqs, NEW p \in Reqs, q # p PROVE Distinct(q, p)'
      <4> SUFFICES ASSUME NEW i \in DOMAIN hdrs'[q], NEW j \in DOMAIN hdrs'[p]
                   PROVE  hdrs'[q][i] # hdrs'[p][j]
        BY DEF Distinct
      <4>1. ASSUME NEW z \in Reqs, z # r, NEW k \in DOMAIN hdrs'[z], NEW l \in DOMAIN hdrs'[r]
            PROVE  hdrs'[z][k] # hdrs'[r][l]
        <5>1. hdrs'[z] = hdrs[z] /\ k \in DOMAIN hdrs[z] /\ hdrs[z][k] < seq /\ hdrs[z][k] \in Nat
          <6>1. hdrs'[z] = hdrs[z] /\ k \in DOMAIN hdrs[z]
            BY <3>1, <4>1
          <6>2. hdrs[z] \in Seq(SeqNumbers) /\ k \in 1..Len(hdrs[z])
            BY <1>0, <6>1, LenProperties
          <6>3. hdrs[z][k] \in SeqNumbers
            BY <6>2, ElementOfSeq
          <6> QED BY <2>5, <4>1, <6>1, <6>3 DEF SeqNumbers
        <5>2. CASE l \in DOMAIN hdrs[r]
          BY <3>2, <4>1, <5>1, <5>2 DEF SeqInv, Distinct
        <5>3. CASE l = Len(hdrs[r]) + 1
          BY <2>6, <3>2, <5>1, <5>3
        <5> QED BY <2>6, <3>2, <5>2, <5>3
      <4>2. CASE q = r
        BY <3>8, <4>1, <4>2
      <4>3. CASE p = r
        BY <3>8, <4>1, <4>3
      <4>4. CASE q # r /\ p # r
        BY <3>1, <3>8, <4>4 DEF SeqInv, Distinct
      <4> QED BY <4>2, <4>3, <4>4
    <3> QED BY <2>4, <3>5, <3>6, <3>7, <3>8 DEF SeqInv
  <2>9. CASE StampLast(r)
    <3>1. /\ pc[r] = "last" /\ pc'[r] = "inc" /\ UNCHANGED <<seq, hdrs, firstSeq>>
          /\ lastSeq'[r] = seq /\ incr'[r] = seq
          /\ \A q \in Reqs \ {r} : lastSeq'[q] = lastSeq[q] /\ incr'[q] = incr[q]
      BY <1>0, <2>9 DEF StampLast, sockVars
    <3>2. Stamps(r)' /\ Older(r)'
      BY <3>1 DEF SeqInv, Stamps, Older, Consecutive, Stamped
    <3> QED BY <2>2, <2>4, <3>1, <3>2, SeqUnmoved
  <2>10. CASE IncrementSeq(r)
    <3>1. /\ pc[r] = "inc" /\ pc'[r] \in {"hdr", "send"} /\ seq' = (incr[r] + 1) % SeqSpace
          /\ UNCHANGED <<hdrs, incr, firstSeq, lastSeq>>
      BY <1>0, <2>10 DEF IncrementSeq, sendVars
    <3>2. /\ incr[r] = seq /\ lastSeq[r] = seq /\ Consecutive(r) /\ firstSeq[r] \in Nat
          /\ seq = firstSeq[r] + Len(hdrs[r]) - 1 /\ incr[r] + 1 < SeqSpace
      BY <1>0, <3>1 DEF SeqInv, Stamps, NoWrap, SeqNumbers
    <3>3. seq' = seq + 1
      <4>1. seq + 1 \in 0..(SeqSpace - 1) /\ SeqSpace \in Nat /\ SeqSpace > 0
        BY <2>6, <3>2, SeqSpaceNat
      <4>2. (seq + 1) % SeqSpace = seq + 1
        BY <4>1
      <4> QED BY <3>1, <3>2, <4>2
    <3>4. Stamps(r)'
      <4>1. Consecutive(r)'
        BY <3>1, <3>2 DEF Consecutive
      <4>2. seq' = firstSeq[r] + Len(hdrs[r])
        BY <2>6, <3>2, <3>3
      <4> QED BY <3>1, <3>2, <4>1, <4>2 DEF Stamps, Stamped
    <3>5. ASSUME NEW q \in Reqs, NEW i \in DOMAIN hdrs[q] PROVE hdrs[q][i] < seq'
      <4>1. hdrs[q] \in Seq(SeqNumbers) /\ i \in 1..Len(hdrs[q])
        BY <1>0, LenProperties
      <4>2. hdrs[q][i] \in SeqNumbers
        BY <4>1, ElementOfSeq
      <4>3. hdrs[q][i] < seq \/ hdrs[q][i] = seq
        BY DEF SeqInv, Older
      <4> QED BY <2>6, <3>3, <4>2, <4>3 DEF SeqNumbers
    <3>6. ASSUME NEW q \in Reqs PROVE Older(q)'
      BY <3>1, <3>5 DEF Older
    <3>7. ASSUME NEW q \in Reqs, q # r PROVE Stamps(q)'
      <4>1. pc'[q] = pc[q] /\ UNCHANGED <<hdrs, incr, firstSeq, lastSeq>>
        BY <2>2, <3>1, <3>7
      <4>2. pc[q] \notin {"hdr", "last", "inc"}
        BY <2>4, <3>7 DEF InFlight, WorkerPoints
      <4> QED BY <4>1, <4>2 DEF SeqInv, Stamps, Consecutive
    <3>8. \A q, p \in Reqs : q # p => Distinct(q, p)'
      BY <3>1 DEF SeqInv, Distinct
    <3> QED BY <2>4, <3>4, <3>6, <3>7, <3>8 DEF SeqInv
  <2>11. CASE \/ SendFails(r) \/ KernelProcesses(r) \/ SendReturns(r) \/ WorkerFcntl(r)
              \/ WorkerRecvError(r) \/ WorkerRecv(r) \/ WorkerRecvEmpty(r) \/ WorkerWakes(r)
    <3>1. /\ pc[r] \in Stamped /\ pc'[r] \in Stamped
          /\ UNCHANGED <<seq, hdrs, incr, firstSeq, lastSeq>>
      BY <1>0, <2>11 DEF SendFails, KernelProcesses, SendReturns, WorkerFcntl, WorkerRecvError,
         WorkerRecv, WorkerRecvEmpty, WorkerWakes, WorkerTakes, Fail, Finished, Stamped, sockVars,
         sendVars
    <3> QED BY <1>6, <2>2, <2>3, <3>1
  <2> QED BY <1>9, <2>7, <2>8, <2>9, <2>10, <2>11 DEF Worker
<1> QED
  BY <1>2, <1>3, <1>4, <1>5, <1>7, <1>8, <1>9 DEF Next, Quiescent

\* On a socket that JavaScript uses one request at a time, and until its counter wraps
\* around, the messages of a request carry the numbers from first_seq to last_seq and no
\* other request has one of them, although the counter is read three times for each
\* message (do_sendmsg, netlinksocket.cc:414-425).
THEOREM SeqRangesDisjointAlways == Serial => (Spec /\ []NoWrap => []SeqRangesDisjoint)
<1> SUFFICES ASSUME Serial PROVE Spec /\ []NoWrap => []SeqRangesDisjoint
  OBVIOUS
<1>1. Init => SeqInv
  BY DEF Init, SeqInv, OneInFlight, InFlight, WorkerPoints, Stamps, Older, Distinct, Stamped, AllReqs
<1>2. NoWrap /\ IInv /\ SeqInv /\ [Next]_vars => SeqInv'
  BY SeqStep
<1>3. IInv /\ SeqInv => SeqRangesDisjoint
  <2> SUFFICES ASSUME IInv, SeqInv, NEW r \in Reqs,
                      pc[r] \in {"fcntl", "recv", "ready", "cb", "done"}, hdrs[r] # <<>>
               PROVE  /\ \A i \in DOMAIN hdrs[r] : hdrs[r][i] = firstSeq[r] + i - 1
                      /\ lastSeq[r] = firstSeq[r] + Len(hdrs[r]) - 1
                      /\ \A q \in Reqs \ {r} : \A i \in DOMAIN hdrs[q] :
                            hdrs[q][i] \notin firstSeq[r]..lastSeq[r]
    BY DEF SeqRangesDisjoint
  <2>1. Consecutive(r) /\ lastSeq[r] = firstSeq[r] + Len(hdrs[r]) - 1
    BY DEF SeqInv, Stamps, Stamped
  <2>2. /\ DOMAIN hdrs[r] = 1..Len(hdrs[r]) /\ Len(hdrs[r]) \in Nat
        /\ firstSeq[r] \in Nat
    BY LenProperties DEF IInv, TypeOK, SendTypes, AllReqs, SeqNumbers
  <2>3. ASSUME NEW q \in Reqs \ {r}, NEW i \in DOMAIN hdrs[q],
               hdrs[q][i] \in firstSeq[r]..lastSeq[r]
        PROVE  FALSE
    <3>1. PICK x \in Int : x = hdrs[q][i]
      BY <2>3
    <3>2. x - firstSeq[r] + 1 \in DOMAIN hdrs[r]
      BY <2>1, <2>2, <2>3, <3>1
    <3>3. hdrs[r][x - firstSeq[r] + 1] = x
      BY <2>1, <2>2, <3>2 DEF Consecutive
    <3> QED BY <3>1, <3>2, <3>3 DEF SeqInv, Distinct
  <2> QED BY <2>1, <2>3 DEF Consecutive
<1> QED BY Inductive, <1>1, <1>2, <1>3, PTL DEF Spec

-----------------------------------------------------------------------------
(* The order of answers *)

\* The place (x, c, i) is read, or was read, before the place (y, d, j): within one
\* buffer or one queue, and what was read before what still waits in the kernel.
Earlier(x, c, i, y, d, j) ==
    \/ x # Env /\ y = Env
    \/ x = y /\ c = d /\ i < j
    \/ x = Env /\ y = Env /\ c < d

\* The answers to one request keep the order in which the kernel gave them.
AnswerOrder ==
    \A x, y \in Sources : \A c, d, i, j \in Nat : \A m, n \in Message :
       /\ Held(x, c, i, m) /\ Held(y, d, j, n) /\ Earlier(x, c, i, y, d, j)
       /\ m.src \in Reqs /\ n.src = m.src
       => Before(m, n)

\* What is held of a request is among what the kernel answered to it.
Traced ==
    \A x \in Sources : \A c, i \in Nat : \A m \in Message :
       Held(x, c, i, m) /\ m.src \in Reqs => m \in MsgsOf(answered[m.src])

\* The kernel's answer to one message of r, as it arrives.
ProcessedTo(r, dgs) ==
    /\ rcvq' = rcvq \o dgs /\ answered' = [answered EXCEPT ![r] = @ \o dgs]
    /\ UNCHANGED <<replyQ, calls>> /\ sent' = [sent EXCEPT ![r] = @ + 1]
    /\ \A c \in DOMAIN dgs :
         /\ dgs[c] \in Datagram /\ dgs[c].pid = 0
         /\ \E s \in Shapes : c \in DOMAIN s /\ dgs[c].trunc = s[c].trunc
         /\ \A i \in DOMAIN dgs[c].msgs :
              /\ dgs[c].msgs[i] \in Message
              /\ dgs[c].msgs[i].src = r /\ dgs[c].msgs[i].n = sent[r] + 1
              /\ dgs[c].msgs[i].d = c /\ dgs[c].msgs[i].k = i

\* The kernel processes one message of r.
LEMMA ProcessIs ==
    ASSUME TypeOK, SendInv, NEW r \in Reqs, KernelProcesses(r), ~overrun'
    PROVE  \E dgs \in Seq(Datagram) : ProcessedTo(r, dgs)
<1>0. r \in AllReqs /\ KernTypes /\ UNCHANGED <<replyQ, calls>> /\ sent' = [sent EXCEPT ![r] = @ + 1]
  BY DEF TypeOK, AllReqs, KernelProcesses, recvVars, loopVars
<1>1. PICK shape \in Shapes :
         /\ Deliver(Answer(r, sent[r] + 1, shape))
         /\ answered' = [answered EXCEPT ![r] = @ \o Answer(r, sent[r] + 1, shape)]
  BY DEF KernelProcesses
<1>2. Answer(r, sent[r] + 1, shape) \in Seq(Datagram)
  BY AnswerType DEF KernelProcesses
<1>3. PICK dgs \in Seq(Datagram) : dgs = Answer(r, sent[r] + 1, shape)
  BY <1>2
<1>4. rcvq' = rcvq \o dgs /\ answered' = [answered EXCEPT ![r] = @ \o dgs]
  BY <1>0, <1>1, <1>3, DeliverIs
<1>5. ASSUME NEW c \in DOMAIN dgs
      PROVE  /\ dgs[c] \in Datagram /\ dgs[c].pid = 0
             /\ \E s \in Shapes : c \in DOMAIN s /\ dgs[c].trunc = s[c].trunc
             /\ \A i \in DOMAIN dgs[c].msgs :
                  /\ dgs[c].msgs[i] \in Message
                  /\ dgs[c].msgs[i].src = r /\ dgs[c].msgs[i].n = sent[r] + 1
                  /\ dgs[c].msgs[i].d = c /\ dgs[c].msgs[i].k = i
  <2>1. /\ dgs[c].pid = 0 /\ dgs[c].trunc = shape[c].trunc /\ c \in 1..Len(shape)
        /\ \A i \in DOMAIN dgs[c].msgs :
             /\ dgs[c].msgs[i].src = r /\ dgs[c].msgs[i].n = sent[r] + 1
             /\ dgs[c].msgs[i].d = c /\ dgs[c].msgs[i].k = i
    BY <1>3, AnswerIs
  <2>2. dgs[c] \in Datagram
    BY LenProperties, ElementOfSeq
  <2>3. dgs[c].msgs \in Seq(Message)
    BY <2>2 DEF Datagram
  <2>4. \A i \in DOMAIN dgs[c].msgs : dgs[c].msgs[i] \in Message
    BY <2>3, LenProperties, ElementOfSeq
  <2>5. c \in DOMAIN shape
    BY <2>1, ShapesType, LenProperties
  <2> QED BY <2>1, <2>2, <2>4, <2>5
<1> WITNESS dgs \in Seq(Datagram)
<1> QED BY <1>0, <1>4, <1>5 DEF ProcessedTo

\* An event or a datagram of another process, as it arrives.
LEMMA ArriveIs ==
    ASSUME TypeOK, EventArrives \/ PeerSends, ~overrun'
    PROVE  /\ UNCHANGED <<replyQ, calls, answered, sent>>
           /\ \E dgs \in Seq(Datagram) :
                /\ rcvq' = rcvq \o dgs
                /\ \A c \in DOMAIN dgs :
                     /\ ~dgs[c].trunc /\ ("kernel" \notin Senders => dgs[c].pid = 1)
                     /\ \A i \in DOMAIN dgs[c].msgs : dgs[c].msgs[i].src = Env
<1>1. UNCHANGED <<replyQ, calls, answered, sent>> /\ KernTypes
  BY ArrivesIs DEF TypeOK
<1>2. PICK dg \in Datagram :
        /\ Deliver(<<dg>>) /\ <<dg>> \in Seq(Datagram)
        /\ DOMAIN dg.msgs = {1} /\ dg.msgs[1].src = Env
        /\ ~dg.trunc /\ ("kernel" \notin Senders => dg.pid = 1)
  BY ArrivesIs
<1>3. PICK dgs \in Seq(Datagram) : dgs = <<dg>>
  BY <1>2
<1>4. rcvq' = rcvq \o dgs
  BY <1>1, <1>2, <1>3, DeliverIs
<1>5. DOMAIN dgs = {1} /\ dgs[1] = dg
  BY <1>3
<1> QED BY <1>1, <1>2, <1>4, <1>5

\* Where a message was before a completion.
LEMMA PostBack ==
    ASSUME TypeOK, NEW r \in AllReqs, PostRecvmsg(r), NEW last \in Nat, last = Len(calls[r]), NEW m,
           NEW y \in Sources, NEW d \in Nat, NEW j \in Nat, Held(y, d, j, m)'
    PROVE  \/ y = r /\ d = last + 1 /\ Held(r, 0, j, m)
           \/ Held(y, d, j, m) /\ (y = r => d # last + 1)
<1>0. Env \notin AllReqs /\ DOMAIN calls[r] = 1..last
  BY NamesDistinct, HeldTypes
<1>1. /\ \A q \in AllReqs \ {r} : replyQ'[q] = replyQ[q] /\ calls'[q] = calls[q]
      /\ rcvq' = rcvq
      /\ \A c \in DOMAIN calls[r] : calls'[r][c] = calls[r][c]
      /\ \/ calls'[r] = calls[r]
         \/ /\ DOMAIN calls'[r] = 1..(last + 1)
            /\ DOMAIN calls'[r][last + 1].bufs = {}
         \/ /\ DOMAIN calls'[r] = 1..(last + 1)
            /\ DOMAIN calls'[r][last + 1].bufs = DOMAIN replyQ[r]
            /\ \A i \in DOMAIN replyQ[r] : calls'[r][last + 1].bufs[i] = replyQ[r][i].msg
  BY PostIs
<1>2. replyQ'[r] = replyQ[r] \/ replyQ'[r] = <<>>
  BY DEF PostRecvmsg, TypeOK, RecvTypes
<1>3. CASE y = Env
  BY <1>0, <1>1, <1>3 DEF Held
<1>4. CASE y \in AllReqs /\ y # r
  <2>1. replyQ'[y] = replyQ[y] /\ calls'[y] = calls[y]
    BY <1>1, <1>4
  <2> QED BY <1>0, <1>4, <2>1 DEF Held
<1>5. CASE y = r /\ d = 0 /\ j \in DOMAIN replyQ'[r] /\ replyQ'[r][j].msg = m
  BY <1>2, <1>5 DEF Held
<1>6. CASE y = r /\ d \in DOMAIN calls'[r] /\ j \in DOMAIN calls'[r][d].bufs
           /\ calls'[r][d].bufs[j] = m
  <2>1. CASE d \in DOMAIN calls[r]
    <3>1. d # last + 1 /\ calls'[r][d] = calls[r][d]
      BY <1>0, <1>1, <2>1
    <3> QED BY <1>6, <2>1, <3>1 DEF Held
  <2>2. CASE d \notin DOMAIN calls[r]
    <3>1. d = last + 1
      BY <1>0, <1>1, <1>6, <2>2
    <3>2. j \in DOMAIN replyQ[r] /\ replyQ[r][j].msg = m
      BY <1>1, <1>6, <2>2, <3>1
    <3> QED BY <1>6, <3>1, <3>2 DEF Held
  <2> QED BY <2>1, <2>2
<1> QED BY <1>0, <1>3, <1>4, <1>5, <1>6 DEF Held, Sources

\* A read leaves the answers in order.
LEMMA ReadAnswers ==
    ASSUME TypeOK, AnswerOrder, NEW r \in AllReqs, rcvq # <<>>, TakeDatagram(r), UNCHANGED calls
    PROVE  AnswerOrder'
<1> SUFFICES ASSUME NEW x \in Sources, NEW y \in Sources, NEW c \in Nat, NEW d \in Nat, NEW i \in Nat,
                    NEW j \in Nat, NEW m \in Message, NEW n \in Message, Held(x, c, i, m)',
                    Held(y, d, j, n)', Earlier(x, c, i, y, d, j), m.src \in Reqs, n.src = m.src
             PROVE  Before(m, n)
  BY DEF AnswerOrder
<1>0. PICK len \in Nat : len = Len(replyQ[r])
  BY HeldTypes
<1>1. Env \in Sources /\ r \in Sources /\ r # Env /\ Env \notin AllReqs
  BY NamesDistinct DEF Sources
<1>2. \/ x = Env /\ c > 0 /\ Held(Env, c + 1, i, m)
      \/ x = r /\ c = 0 /\ i > len /\ Held(Env, 1, i - len, m)
      \/ x \in AllReqs /\ (x = r /\ c = 0 => i <= len) /\ Held(x, c, i, m)
  BY <1>0, ReadBack
<1>3. \/ y = Env /\ d > 0 /\ Held(Env, d + 1, j, n)
      \/ y = r /\ d = 0 /\ j > len /\ Held(Env, 1, j - len, n)
      \/ y \in AllReqs /\ (y = r /\ d = 0 => j <= len) /\ Held(y, d, j, n)
  BY <1>0, ReadBack
\* It is enough to find the two messages at places that were in order before.
<1>4. ASSUME NEW x0 \in Sources, NEW y0 \in Sources, NEW c0 \in Nat, NEW d0 \in Nat,
             NEW i0 \in Nat, NEW j0 \in Nat, Held(x0, c0, i0, m), Held(y0, d0, j0, n),
             Earlier(x0, c0, i0, y0, d0, j0)
      PROVE  Before(m, n)
  BY <1>4 DEF AnswerOrder
<1>5. CASE x = Env /\ c > 0 /\ Held(Env, c + 1, i, m)
  <2>1. y = Env /\ Held(Env, d + 1, j, n)
    BY <1>1, <1>3, <1>5 DEF Earlier
  <2>2. c + 1 \in Nat /\ d + 1 \in Nat /\ Earlier(Env, c + 1, i, Env, d + 1, j)
    BY <1>5, <2>1 DEF Earlier
  <2> QED BY <1>1, <1>4, <1>5, <2>1, <2>2
<1>6. CASE x = r /\ c = 0 /\ i > len /\ Held(Env, 1, i - len, m)
  <2>1. i - len \in Nat /\ 1 \in Nat
    BY <1>6
  <2>2. CASE y = Env /\ d > 0 /\ Held(Env, d + 1, j, n)
    <3>1. d + 1 \in Nat /\ Earlier(Env, 1, i - len, Env, d + 1, j)
      BY <2>2 DEF Earlier
    <3> QED BY <1>1, <1>4, <1>6, <2>1, <2>2, <3>1
  <2>3. CASE y = r /\ d = 0 /\ j > len /\ Held(Env, 1, j - len, n)
    <3>1. j - len \in Nat /\ i < j
      BY <1>1, <1>6, <2>3 DEF Earlier
    <3>2. Earlier(Env, 1, i - len, Env, 1, j - len)
      BY <3>1 DEF Earlier
    <3> QED BY <1>1, <1>4, <1>6, <2>1, <2>3, <3>1, <3>2
  <2>4. CASE y \in AllReqs /\ (y = r /\ d = 0 => j <= len)
    <3>1. y = r /\ d = 0 /\ i < j
      BY <1>1, <1>6, <2>4 DEF Earlier
    <3> QED BY <1>6, <2>4, <3>1
  <2> QED BY <1>3, <2>2, <2>3, <2>4
<1>7. CASE x \in AllReqs /\ (x = r /\ c = 0 => i <= len) /\ Held(x, c, i, m)
  <2>1. CASE y = Env /\ d > 0 /\ Held(Env, d + 1, j, n)
    <3>1. d + 1 \in Nat /\ Earlier(x, c, i, Env, d + 1, j)
      BY <1>1, <1>7 DEF Earlier
    <3> QED BY <1>1, <1>4, <1>7, <2>1, <3>1
  <2>2. CASE y = r /\ d = 0 /\ j > len /\ Held(Env, 1, j - len, n)
    <3>1. j - len \in Nat /\ Earlier(x, c, i, Env, 1, j - len)
      BY <1>0, <1>1, <1>7, <2>2 DEF Earlier
    <3> QED BY <1>1, <1>4, <1>7, <2>2, <3>1
  <2>3. CASE y \in AllReqs /\ Held(y, d, j, n)
    BY <1>4, <1>7, <2>3
  <2> QED BY <1>3, <2>1, <2>2, <2>3
<1> QED BY <1>2, <1>5, <1>6, <1>7

\* A completion leaves the answers in order.
LEMMA PostAnswers ==
    ASSUME TypeOK, AnswerOrder, NEW r \in AllReqs, PostRecvmsg(r)
    PROVE  AnswerOrder'
<1> SUFFICES ASSUME NEW x \in Sources, NEW y \in Sources, NEW c \in Nat, NEW d \in Nat, NEW i \in Nat,
                    NEW j \in Nat, NEW m \in Message, NEW n \in Message, Held(x, c, i, m)',
                    Held(y, d, j, n)', Earlier(x, c, i, y, d, j), m.src \in Reqs, n.src = m.src
             PROVE  Before(m, n)
  BY DEF AnswerOrder
<1>0. PICK last \in Nat : last = Len(calls[r])
  BY HeldTypes
<1>1. r \in Sources /\ r # Env
  BY NamesDistinct DEF Sources
<1>2. \/ x = r /\ c = last + 1 /\ Held(r, 0, i, m)
      \/ Held(x, c, i, m) /\ (x = r => c # last + 1)
  BY <1>0, PostBack
<1>3. \/ y = r /\ d = last + 1 /\ Held(r, 0, j, n)
      \/ Held(y, d, j, n) /\ (y = r => d # last + 1)
  BY <1>0, PostBack
<1>4. ASSUME NEW c0 \in Nat, NEW d0 \in Nat, Held(x, c0, i, m), Held(y, d0, j, n),
             Earlier(x, c0, i, y, d0, j)
      PROVE  Before(m, n)
  BY <1>4 DEF AnswerOrder
<1>5. PICK c0 \in Nat : Held(x, c0, i, m) /\ c0 = IF x = r /\ c = last + 1 THEN 0 ELSE c
  BY <1>2
<1>6. PICK d0 \in Nat : Held(y, d0, j, n) /\ d0 = IF y = r /\ d = last + 1 THEN 0 ELSE d
  BY <1>3
<1>7. Earlier(x, c0, i, y, d0, j)
  BY <1>1, <1>5, <1>6 DEF Earlier
<1> QED BY <1>4, <1>5, <1>6, <1>7

\* Answers that are numbered by their place and by the message they answer.
Fresh(dgs) ==
    \A a \in DOMAIN dgs : \A k \in DOMAIN dgs[a].msgs :
       dgs[a].msgs[k].src \in Reqs =>
          /\ dgs[a].msgs[k].n = sent[dgs[a].msgs[k].src] + 1
          /\ dgs[a].msgs[k].d = a /\ dgs[a].msgs[k].k = k

Appended(dgs) == rcvq' = rcvq \o dgs /\ UNCHANGED <<replyQ, calls>>

\* A new answer comes after all others.
LEMMA ArrivalAnswers ==
    ASSUME TypeOK, AnswerOrder, NoneEarly, NEW dgs \in Seq(Datagram), Fresh(dgs),
           Appended(dgs)
    PROVE  AnswerOrder'
<1> SUFFICES ASSUME NEW x \in Sources, NEW y \in Sources, NEW c \in Nat, NEW d \in Nat, NEW i \in Nat,
                    NEW j \in Nat, NEW m \in Message, NEW n \in Message, Held(x, c, i, m)',
                    Held(y, d, j, n)', Earlier(x, c, i, y, d, j), m.src \in Reqs, n.src = m.src
             PROVE  Before(m, n)
  BY DEF AnswerOrder
<1>0. PICK len \in Nat : len = Len(rcvq)
  BY HeldTypes
<1>1. DOMAIN rcvq = 1..len /\ Env \notin AllReqs /\ sent[m.src] \in Nat
      /\ DOMAIN dgs = 1..Len(dgs) /\ Len(dgs) \in Nat
  BY <1>0, HeldTypes, NamesDistinct, LenProperties DEF TypeOK, SendTypes, AllReqs
<1>2. \A z \in Sources : \A a, b \in Nat : \A l :
         Held(z, a, b, l)' => Held(z, a, b, l) \/ (z = Env /\ NewAt(dgs, a - len, b, l))
  BY <1>0, AppendBack DEF Appended
<1>3. CASE Held(x, c, i, m) /\ Held(y, d, j, n)
  BY <1>3 DEF AnswerOrder
<1>4. CASE Held(x, c, i, m) /\ y = Env /\ NewAt(dgs, d - len, j, n)
  <2>1. m.n <= sent[m.src]
    BY <1>4 DEF NoneEarly
  <2>2. n.n = sent[m.src] + 1
    BY <1>4 DEF NewAt, Fresh
  <2>3. m.n \in Nat
    BY DEF Message
  <2>4. m.n < n.n
    BY <1>1, <2>1, <2>2, <2>3
  <2> QED BY <2>4 DEF Before
<1>5. CASE x = Env /\ NewAt(dgs, c - len, i, m) /\ Held(y, d, j, n)
  <2>1. y = Env /\ c <= d
    BY <1>5 DEF Earlier
  <2>2. d \in 1..len /\ c - len \in 1..Len(dgs)
    BY <1>1, <1>5, <2>1 DEF Held, NewAt
  <2> QED BY <1>1, <2>1, <2>2
<1>6. CASE x = Env /\ NewAt(dgs, c - len, i, m) /\ y = Env /\ NewAt(dgs, d - len, j, n)
  <2>1. /\ m.n = sent[m.src] + 1 /\ m.d = c - len /\ m.k = i
        /\ n.n = sent[m.src] + 1 /\ n.d = d - len /\ n.k = j
    BY <1>6 DEF NewAt, Fresh
  <2>2. c < d \/ (c = d /\ i < j)
    BY <1>6 DEF Earlier
  <2>3. m.n = n.n /\ (m.d < n.d \/ (m.d = n.d /\ m.k < n.k))
    BY <2>1, <2>2
  <2> QED BY <2>3 DEF Before
<1> QED BY <1>2, <1>3, <1>4, <1>5, <1>6

\* Every step after which the queue has not overflowed keeps AnswerOrder.
LEMMA AnswerOrderStep ==
    ASSUME IInv, KeptInv, AnswerOrder, [Next]_vars, ~overrun'
    PROVE  AnswerOrder'
<1>0. TypeOK /\ SendInv /\ NoneEarly /\ Env \notin Reqs
  BY NamesDistinct DEF IInv, KeptInv, AllReqs
<1>1. CASE UNCHANGED <<rcvq, replyQ, calls, envCount, answered, sent>>
  <2>1. \A x \in Sources : \A c, i \in Nat : \A m : Held(x, c, i, m)' <=> Held(x, c, i, m)
    BY <1>1 DEF Held
  <2> QED BY <2>1 DEF AnswerOrder
<1>2. ASSUME NEW r \in Reqs, KernelProcesses(r) PROVE AnswerOrder'
  <2>1. PICK dgs \in Seq(Datagram) : ProcessedTo(r, dgs)
    BY <1>0, <1>2, ProcessIs
  <2>2. Fresh(dgs) /\ Appended(dgs)
    BY <2>1 DEF Fresh, Appended, ProcessedTo
  <2> QED BY <1>0, <2>2, ArrivalAnswers
<1>3. CASE EventArrives \/ PeerSends
  <2>1. PICK dgs \in Seq(Datagram) :
          /\ rcvq' = rcvq \o dgs
          /\ \A c \in DOMAIN dgs : \A i \in DOMAIN dgs[c].msgs : dgs[c].msgs[i].src = Env
    BY <1>0, <1>3, ArriveIs
  <2>2. UNCHANGED <<replyQ, calls>>
    BY <1>0, <1>3, ArriveIs
  <2>3. Fresh(dgs) /\ Appended(dgs)
    BY <1>0, <2>1, <2>2 DEF Fresh, Appended
  <2> QED BY <1>0, <2>3, ArrivalAnswers
<1>4. ASSUME NEW r \in AllReqs, rcvq # <<>>, TakeDatagram(r), UNCHANGED calls PROVE AnswerOrder'
  BY <1>0, <1>4, ReadAnswers
<1>5. ASSUME NEW r \in AllReqs, PostRecvmsg(r) PROVE AnswerOrder'
  BY <1>0, <1>5, PostAnswers
<1>6. CASE Discarded
  BY <1>6, DiscardBack DEF AnswerOrder
<1> QED BY <1>1, <1>2, <1>3, <1>4, <1>5, <1>6, QueueFrame

\* More answers to a request take none back.
LEMMA MsgsOfGrows ==
    ASSUME NEW s \in Seq(Datagram), NEW t \in Seq(Datagram)
    PROVE  /\ MsgsOf(s) \subseteq MsgsOf(s \o t)
           /\ \A c \in DOMAIN t : \A i \in DOMAIN t[c].msgs : t[c].msgs[i] \in MsgsOf(s \o t)
<1> DEFINE u == s \o t
<1>1. /\ \A c \in DOMAIN s : c \in DOMAIN u /\ u[c] = s[c]
      /\ \A c \in DOMAIN t : Len(s) + c \in DOMAIN u /\ u[Len(s) + c] = t[c]
  <2>1. /\ Len(s) \in Nat /\ Len(t) \in Nat /\ DOMAIN s = 1..Len(s) /\ DOMAIN t = 1..Len(t)
        /\ DOMAIN u = 1..(Len(s) + Len(t))
        /\ \A i \in DOMAIN s : u[i] = s[i]
        /\ \A i \in DOMAIN t : u[Len(s) + i] = t[i]
    BY ConcatIs
  <2> HIDE DEF u
  <2> QED BY <2>1
<1> HIDE DEF u
<1>2. MsgsOf(s) \subseteq MsgsOf(u)
  BY <1>1 DEF MsgsOf
<1>3. \A c \in DOMAIN t : \A i \in DOMAIN t[c].msgs : t[c].msgs[i] \in MsgsOf(u)
  BY <1>1 DEF MsgsOf
<1> QED BY <1>2, <1>3 DEF u

\* A step that only moves messages keeps Traced.
LEMMA MovedTraced ==
    ASSUME Traced, UNCHANGED answered,
           \A x \in Sources : \A c, i \in Nat : \A m : Held(x, c, i, m)' => Somewhere(m)
    PROVE  Traced'
BY DEF Traced, Somewhere

\* Every step after which the queue has not overflowed keeps Traced.
LEMMA TracedStep ==
    ASSUME IInv, Traced, [Next]_vars, ~overrun'
    PROVE  Traced'
<1>0. TypeOK /\ SendInv /\ Env \notin Reqs /\ answered \in [AllReqs -> Seq(Datagram)]
      /\ Reqs \subseteq AllReqs /\ Env \in Sources
  BY NamesDistinct DEF IInv, TypeOK, KernTypes, AllReqs, Sources
<1>1. CASE UNCHANGED <<rcvq, replyQ, calls, envCount, answered, sent>>
  <2>1. \A x \in Sources : \A c, i \in Nat : \A m : Held(x, c, i, m)' <=> Held(x, c, i, m)
    BY <1>1 DEF Held
  <2> QED BY <1>1, <2>1, MovedTraced DEF Somewhere
<1>2. ASSUME NEW r \in Reqs, KernelProcesses(r) PROVE Traced'
  <2>1. PICK dgs \in Seq(Datagram) : ProcessedTo(r, dgs)
    BY <1>0, <1>2, ProcessIs
  <2>2. PICK len \in Nat : len = Len(rcvq)
    BY <1>0, HeldTypes
  <2>3. \A x \in Sources : \A c, i \in Nat : \A m :
           Held(x, c, i, m)' => Held(x, c, i, m) \/ (x = Env /\ NewAt(dgs, c - len, i, m))
    BY <1>0, <2>1, <2>2, AppendBack DEF ProcessedTo
  <2>4. answered' = [answered EXCEPT ![r] = @ \o dgs] /\ answered[r] \in Seq(Datagram)
    BY <1>0, <2>1 DEF ProcessedTo
  <2>5. \A c \in DOMAIN dgs : \A i \in DOMAIN dgs[c].msgs :
           dgs[c].msgs[i].src = r /\ dgs[c].msgs[i] \in MsgsOf(answered'[r])
    BY <1>0, <2>1, <2>4, MsgsOfGrows DEF ProcessedTo
  <2>6. \A q \in Reqs : MsgsOf(answered[q]) \subseteq MsgsOf(answered'[q])
    BY <1>0, <2>4, MsgsOfGrows
  <2>7. ASSUME NEW x \in Sources, NEW c \in Nat, NEW i \in Nat, NEW m \in Message, Held(x, c, i, m)',
               m.src \in Reqs
        PROVE  m \in MsgsOf(answered'[m.src])
    <3>1. CASE Held(x, c, i, m)
      BY <2>6, <2>7, <3>1 DEF Traced
    <3>2. CASE NewAt(dgs, c - len, i, m)
      BY <2>5, <3>2 DEF NewAt
    <3> QED BY <2>3, <2>7, <3>1, <3>2
  <2> QED BY ONLY <2>7 DEF Traced
<1>3. CASE EventArrives \/ PeerSends
  <2>1. PICK dgs \in Seq(Datagram) :
          /\ rcvq' = rcvq \o dgs
          /\ \A c \in DOMAIN dgs : \A i \in DOMAIN dgs[c].msgs : dgs[c].msgs[i].src = Env
    BY <1>0, <1>3, ArriveIs
  <2>2. UNCHANGED <<replyQ, calls, answered>>
    BY <1>0, <1>3, ArriveIs
  <2>3. PICK len \in Nat : len = Len(rcvq)
    BY <1>0, HeldTypes
  <2>4. \A x \in Sources : \A c, i \in Nat : \A m :
           Held(x, c, i, m)' => Held(x, c, i, m) \/ (x = Env /\ NewAt(dgs, c - len, i, m))
    BY <1>0, <2>1, <2>2, <2>3, AppendBack
  <2>5. ASSUME NEW x \in Sources, NEW c \in Nat, NEW i \in Nat, NEW m \in Message, Held(x, c, i, m)',
               m.src \in Reqs
        PROVE  m \in MsgsOf(answered'[m.src])
    <3>1. ~NewAt(dgs, c - len, i, m)
      BY <1>0, <2>1, <2>5 DEF NewAt
    <3> QED BY <2>2, <2>4, <2>5, <3>1 DEF Traced
  <2> QED BY ONLY <2>5 DEF Traced
<1>4. ASSUME NEW r \in AllReqs, rcvq # <<>>, TakeDatagram(r), UNCHANGED <<calls, answered>>
      PROVE  Traced'
  <2>1. PICK len \in Nat : len = Len(replyQ[r])
    BY <1>0, HeldTypes
  <2>2. ASSUME NEW x \in Sources, NEW c \in Nat, NEW i \in Nat, NEW m, Held(x, c, i, m)'
        PROVE  Somewhere(m)
    <3>1. \/ x = Env /\ c > 0 /\ Held(Env, c + 1, i, m)
          \/ x = r /\ c = 0 /\ i > len /\ Held(Env, 1, i - len, m)
          \/ Held(x, c, i, m)
      BY <1>0, <1>4, <2>1, <2>2, ReadBack
    <3>2. CASE Held(Env, c + 1, i, m)
      <4>1. c + 1 \in Nat
        OBVIOUS
      <4> QED BY <1>0, <3>2, <4>1 DEF Somewhere
    <3>3. CASE i > len /\ Held(Env, 1, i - len, m)
      <4>1. i - len \in Nat /\ 1 \in Nat
        BY <3>3
      <4> QED BY <1>0, <3>3, <4>1 DEF Somewhere
    <3>4. CASE Held(x, c, i, m)
      BY <3>4 DEF Somewhere
    <3> QED BY <3>1, <3>2, <3>3, <3>4
  <2> QED BY <1>4, <2>2, MovedTraced
<1>5. ASSUME NEW r \in AllReqs, PostRecvmsg(r) PROVE Traced'
  <2>1. PICK last \in Nat : last = Len(calls[r])
    BY <1>0, HeldTypes
  <2>2. ASSUME NEW x \in Sources, NEW c \in Nat, NEW i \in Nat, NEW m, Held(x, c, i, m)'
        PROVE  Somewhere(m)
    <3>1. (x = r /\ Held(r, 0, i, m)) \/ Held(x, c, i, m)
      BY <1>0, <1>5, <2>1, <2>2, PostBack
    <3> QED BY <3>1 DEF Somewhere
  <2>3. UNCHANGED answered
    BY <1>0, <1>5, PostIs
  <2> QED BY <2>2, <2>3, MovedTraced
<1>6. CASE Discarded
  <2>1. UNCHANGED answered
    BY <1>6 DEF Discarded
  <2> QED BY <1>6, <2>1, DiscardBack, MovedTraced DEF Somewhere
<1> QED BY <1>1, <1>2, <1>3, <1>4, <1>5, <1>6, QueueFrame

-----------------------------------------------------------------------------
(* One request at a time *)

\* JavaScript waits for each request and does not listen, and nobody but the kernel in
\* its answers and other processes send to the socket; no answer is cut off.
NoTrunc == \A shape \in Shapes : \A d \in DOMAIN shape : ~shape[d].trunc
OneAtATime == Serial /\ ~MayListen /\ "kernel" \notin Senders /\ NoTrunc

\* A request that has not sent has read nothing, one that uses the socket found it
\* created, its reads do not sleep, and its callback without error has all replies.
Unread == {"free", "made", "queued", "hdr", "last", "inc", "send"}
SerialPart(r) ==
    /\ pc[r] # "blocked" /\ (pc[r] = "recv" => nonblock)
    /\ pc[r] \in Unread => replyQ[r] = <<>>
    /\ pc[r] \in {"hdr", "last", "inc", "send", "fcntl", "recv"} => fd # "none"
    /\ \A c \in DOMAIN calls[r] : ~calls[r][c].err =>
          ~err[r] /\ replyQ[r] = <<>> /\ pc[r] \in {"cb", "done"}

SerialInv == OneInFlight /\ pc[Listener] = "free" /\ \A r \in Reqs : SerialPart(r)

\* With no listener only four kinds of step remain.
LEMMA SerialFrame ==
    ASSUME ~MayListen, IInv, pc[Listener] = "free", [Next]_vars
    PROVE  \/ Create \/ Close \/ UNCHANGED vars
           \/ EventArrives \/ PeerSends
           \/ \E r \in Reqs : JavaScript(r) \/ Worker(r) \/ Completion(r)
<1>1. ~Poll /\ ~Completion(Listener) /\ ~OnRecv
  <2>1. ~listening /\ TypeOK /\ ListenInv /\ Listener \in AllReqs
    BY DEF IInv, ListenInv, AllReqs
  <2> QED BY <2>1, PollFrame, CompletionFrame DEF OnRecv
<1> QED BY <1>1 DEF Next, Quiescent, AllReqs

\* One worker step of a request that is alone.
LEMMA WorkerSerial ==
    ASSUME IInv, pc[Listener] = "free", NEW r \in Reqs, Worker(r), SerialPart(r), calls[r] = <<>>,
           ~overrun
    PROVE  SerialPart(r)'
<1>0. /\ pc \in [AllReqs -> Points] /\ r \in AllReqs /\ TypeOK /\ ~listening
      /\ replyQ \in [AllReqs -> Seq(Reply)] /\ Finished(r) \in {"ready", "done"}
  BY DEF IInv, TypeOK, LoopTypes, RecvTypes, AllReqs, ListenInv, Finished
<1>1. /\ UNCHANGED <<fd, calls>> /\ DOMAIN calls[r] = {}
  BY <1>0, WorkerFrame DEF loopVars
<1>2. CASE DoSendmsg(r) \/ SendFails(r)
  <2>1. pc'[r] = "hdr" \/ pc'[r] \in {"ready", "done"}
    BY <1>0, <1>2 DEF DoSendmsg, SendFails, Fail
  <2>2. pc'[r] = "hdr" => fd # "none" /\ replyQ[r] = <<>>
    BY <1>0, <1>2 DEF DoSendmsg, SendFails, Fail, SerialPart, Unread
  <2>3. replyQ' = replyQ
    BY <1>2 DEF DoSendmsg, SendFails
  <2> QED BY <1>1, <2>1, <2>2, <2>3 DEF SerialPart, Unread
<1>3. CASE StampHeader(r) \/ StampLast(r) \/ IncrementSeq(r) \/ KernelProcesses(r)
  <2>1. /\ pc[r] \in {"hdr", "last", "inc", "send"} /\ pc'[r] \in {"hdr", "last", "inc", "send"}
        /\ replyQ' = replyQ
    BY <1>0, <1>3 DEF StampHeader, StampLast, IncrementSeq, KernelProcesses, recvVars
  <2> QED BY <1>1, <2>1 DEF SerialPart, Unread
<1>4. CASE SendReturns(r)
  <2>1. pc[r] = "send" /\ pc'[r] = "fcntl"
    BY <1>0, <1>4 DEF SendReturns
  <2> QED BY <1>1, <2>1 DEF SerialPart, Unread
<1>5. CASE WorkerFcntl(r)
  <2>1. pc[r] = "fcntl" /\ (pc'[r] \in {"ready", "done"} \/ (pc'[r] = "recv" /\ nonblock'))
    BY <1>0, <1>5 DEF WorkerFcntl, Fail
  <2> QED BY <1>1, <2>1 DEF SerialPart, Unread
<1>6. CASE WorkerRecvError(r) \/ WorkerRecvEmpty(r)
  <2>1. pc'[r] \in {"ready", "done"}
    BY <1>0, <1>6 DEF WorkerRecvError, WorkerRecvEmpty, Fail, SerialPart
  <2> QED BY <1>1, <2>1 DEF SerialPart, Unread
<1>7. CASE WorkerRecv(r) \/ WorkerWakes(r)
  <2>1. pc[r] = "recv" /\ pc'[r] \in {"fcntl", "ready", "done"}
    BY <1>0, <1>7 DEF WorkerRecv, WorkerWakes, WorkerTakes, SerialPart
  <2> QED BY <1>1, <2>1 DEF SerialPart, Unread
<1> QED BY <1>2, <1>3, <1>4, <1>5, <1>6, <1>7 DEF Worker

\* A completion of a request without error hands on no error either.
LEMMA PostSerial ==
    ASSUME IInv, RepliesAccounted, NEW r \in Reqs, PostRecvmsg(r), calls[r] = <<>>, SerialPart(r)
    PROVE  SerialPart(r)'
<1> DEFINE call == IF err[r] THEN ErrorCall(r) ELSE ReplyCall(r)
<1>0. /\ pc \in [AllReqs -> Points] /\ r \in AllReqs /\ TypeOK /\ RecvTypes /\ SendTypes /\ r # Listener
      /\ replyQ \in [AllReqs -> Seq(Reply)] /\ calls \in [AllReqs -> Seq(Call)]
      /\ err \in [AllReqs -> BOOLEAN]
  BY NamesDistinct DEF IInv, TypeOK, LoopTypes, RecvTypes, AllReqs
<1>1. call \in Seq(Call)
  BY <1>0, CallType
<1>2. calls'[r] = call
  <2>1. calls' = [calls EXCEPT ![r] = @ \o call]
    BY DEF PostRecvmsg
  <2>2. <<>> \o call = call
    BY <1>1
  <2> QED BY <1>0, <2>1, <2>2
<1>3. pc'[r] \in {"cb", "done"} /\ err' = err
  BY <1>0 DEF PostRecvmsg
<1>4. CASE err[r]
  <2>1. \A c \in DOMAIN call : call[c].err
    BY <1>4 DEF ErrorCall
  <2> HIDE DEF call
  <2> QED BY <1>2, <1>3, <2>1 DEF SerialPart, Unread
<1>5. CASE ~err[r]
  <2>1. replyQ'[r] = <<>>
    BY <1>0, <1>5 DEF PostRecvmsg
  <2> HIDE DEF call
  <2> QED BY <1>3, <1>5, <2>1 DEF SerialPart, Unread
<1> QED BY <1>4, <1>5

\* Every step of a socket used one request at a time keeps SerialInv.
LEMMA SerialStep ==
    ASSUME OneAtATime, IInv, RepliesAccounted, CalledBackOnce, SerialInv, ~overrun, [Next]_vars
    PROVE  SerialInv'
<1>0. /\ pc \in [AllReqs -> Points] /\ Listener \notin Reqs /\ Reqs \subseteq AllReqs /\ TypeOK
      /\ Listener \in AllReqs /\ ListenInv /\ pc[Listener] = "free" /\ RecvTypes
  BY NamesDistinct DEF IInv, TypeOK, LoopTypes, AllReqs, SerialInv
<1>1. \A q \in Reqs : pc[q] \notin {"cb", "done"} => calls[q] = <<>>
  <2> SUFFICES ASSUME NEW q \in Reqs, pc[q] \notin {"cb", "done"} PROVE calls[q] = <<>>
    OBVIOUS
  <2>1. Len(calls[q]) = 0 /\ calls[q] \in Seq(Call)
    BY <1>0 DEF CalledBackOnce, TypeOK, LoopTypes
  <2> QED BY <2>1, EmptySeq
<1>2. CASE Create \/ Close
  <2>1. fd' # "none" /\ UNCHANGED <<pc, nonblock, replyQ, calls, err>>
    BY <1>2 DEF Create, Close, kernVars, recvVars, loopVars
  <2>2. OneInFlight' /\ \A q \in Reqs : SerialPart(q)'
    BY <2>1 DEF SerialInv, OneInFlight, InFlight, SerialPart
  <2> QED BY <1>0, <2>1, <2>2 DEF SerialInv
<1>3. CASE UNCHANGED vars \/ EventArrives \/ PeerSends
  <2>1. UNCHANGED <<fd, pc, nonblock, replyQ, calls, err>>
    BY <1>3 DEF EventArrives, PeerSends, Arrives, vars, sockVars, kernVars, recvVars, loopVars
  <2>2. OneInFlight' /\ \A q \in Reqs : SerialPart(q)'
    BY <2>1 DEF SerialInv, OneInFlight, InFlight, SerialPart
  <2> QED BY <1>0, <2>1, <2>2 DEF SerialInv
\* A step of r disturbs nobody else.
<1>4. ASSUME NEW r \in Reqs, SerialPart(r)', OneInFlight', UNCHANGED fd,
             \A q \in AllReqs \ {r} : /\ pc'[q] = pc[q] /\ replyQ'[q] = replyQ[q]
                                      /\ calls'[q] = calls[q] /\ err'[q] = err[q],
             nonblock => nonblock'
      PROVE  SerialInv'
  <2>1. ASSUME NEW q \in Reqs PROVE SerialPart(q)'
    <3>1. CASE q = r
      BY <1>4, <3>1
    <3>2. CASE q # r
      <4>1. /\ pc'[q] = pc[q] /\ replyQ'[q] = replyQ[q] /\ fd' = fd
            /\ calls'[q] = calls[q] /\ err'[q] = err[q] /\ SerialPart(q)
        BY <1>0, <1>4, <3>2 DEF SerialInv
      <4> QED BY <1>4, <4>1 DEF SerialPart
    <3> QED BY <3>1, <3>2
  <2> QED BY <1>0, <1>4, <2>1 DEF SerialInv
<1>5. ASSUME NEW r \in Reqs, JavaScript(r) PROVE SerialInv'
  <2>1. /\ pc[r] \in {"free", "made"} /\ pc'[r] \in {"made", "queued"}
        /\ \A q \in AllReqs \ {r} : pc'[q] = pc[q]
        /\ pc'[r] = "queued" => InFlight = {}
        /\ UNCHANGED <<fd, nonblock, replyQ, calls, err>>
    BY <1>0, <1>5 DEF JavaScript, CreateMsgReq, AddMsgToReq, Sendmsg, sockVars, kernVars, recvVars,
       loopVars, OneAtATime
  <2>2. OneInFlight'
    <3>1. CASE pc'[r] = "queued"
      <4>1. InFlight' \subseteq {r}
        BY <1>0, <2>1, <3>1 DEF InFlight
      <4> QED BY <4>1 DEF OneInFlight
    <3>2. CASE pc'[r] = "made"
      <4>1. InFlight' \subseteq InFlight
        BY <1>0, <2>1, <3>2 DEF InFlight, WorkerPoints
      <4> QED BY <4>1 DEF SerialInv, OneInFlight
    <3> QED BY <2>1, <3>1, <3>2
  <2>3. SerialPart(r) /\ calls[r] = <<>> /\ DOMAIN calls[r] = {}
    BY <1>1, <2>1 DEF SerialInv
  <2>4. SerialPart(r)'
    BY <2>1, <2>3 DEF SerialPart, Unread
  <2> QED BY <1>4, <2>1, <2>2, <2>4
<1>6. ASSUME NEW r \in Reqs, Worker(r) PROVE SerialInv'
  <2>1. /\ pc[r] \in WorkerPoints /\ UNCHANGED <<fd, calls>>
        /\ pc' \in {[pc EXCEPT ![r] = v] : v \in WorkerPoints \cup {"ready", "done"}}
    BY <1>0, <1>6, WorkerFrame DEF loopVars
  <2>2. \A q \in AllReqs \ {r} : pc'[q] = pc[q]
    BY <1>0, <2>1
  <2>3. OneInFlight'
    <3>1. r \in InFlight /\ InFlight' \subseteq InFlight
      BY <1>0, <2>1, <2>2 DEF InFlight
    <3> QED BY <3>1 DEF SerialInv, OneInFlight
  <2>4. calls[r] = <<>> /\ SerialPart(r)
    BY <1>1, <2>1 DEF WorkerPoints, SerialInv
  <2>5. SerialPart(r)'
    BY <1>0, <1>6, <2>4, WorkerSerial
  <2>6. CASE DoSendmsg(r) \/ SendFails(r) \/ WorkerFcntl(r) \/ WorkerRecvError(r)
    <3>1. replyQ' = replyQ /\ (err' = err \/ err' = [err EXCEPT ![r] = TRUE])
      BY <2>6 DEF DoSendmsg, SendFails, WorkerFcntl, WorkerRecvError, Fail
    <3>2. nonblock' = nonblock \/ nonblock' = TRUE
      BY <2>6 DEF DoSendmsg, SendFails, WorkerFcntl, WorkerRecvError, kernVars
    <3>3. \A q \in AllReqs \ {r} : err'[q] = err[q]
      BY <1>0, <3>1 DEF RecvTypes
    <3> QED BY <1>4, <2>1, <2>2, <2>3, <2>5, <3>1, <3>2, <3>3
  <2>7. CASE StampHeader(r) \/ StampLast(r) \/ IncrementSeq(r) \/ KernelProcesses(r)
             \/ SendReturns(r) \/ WorkerRecvEmpty(r)
    <3>1. UNCHANGED <<replyQ, err, nonblock>>
      BY <2>7 DEF StampHeader, StampLast, IncrementSeq, KernelProcesses, SendReturns,
         WorkerRecvEmpty, recvVars, kernVars
    <3> QED BY <1>4, <2>1, <2>2, <2>3, <2>5, <3>1
  <2>8. CASE WorkerRecv(r) \/ WorkerWakes(r)
    <3>1. TakeDatagram(r) /\ UNCHANGED nonblock
      BY <2>8 DEF WorkerRecv, WorkerWakes, WorkerTakes
    <3>2. \A q \in AllReqs \ {r} : replyQ'[q] = replyQ[q] /\ err'[q] = err[q]
      BY <1>0, <3>1 DEF TakeDatagram, RecvTypes
    <3> QED BY <1>4, <2>1, <2>2, <2>3, <2>5, <3>1, <3>2
  <2> QED BY <1>6, <2>6, <2>7, <2>8 DEF Worker
<1>7. ASSUME NEW r \in Reqs, Completion(r) PROVE SerialInv'
  <2>1. /\ pc[r] \in {"ready", "cb"} /\ UNCHANGED fd
        /\ pc' \in {[pc EXCEPT ![r] = v] : v \in {"cb", IF r = Listener THEN "listen" ELSE "done"}}
    BY <1>0, <1>7, CompletionFrame
  <2>2. /\ \A q \in AllReqs \ {r} : pc'[q] = pc[q]
        /\ pc'[r] \in {"cb", "done"}
    BY <1>0, <2>1
  <2>3. OneInFlight'
    <3>1. InFlight' \subseteq InFlight
      BY <1>0, <2>2 DEF InFlight, WorkerPoints
    <3> QED BY <3>1 DEF SerialInv, OneInFlight
  <2>4. SerialPart(r)
    BY DEF SerialInv
  <2>5. CASE PostRecvmsg(r)
    <3>1. calls[r] = <<>>
      BY <1>1, <2>5 DEF PostRecvmsg
    <3>2. SerialPart(r)'
      BY <2>4, <2>5, <3>1, PostSerial
    <3>3. /\ \A q \in AllReqs \ {r} : replyQ'[q] = replyQ[q] /\ calls'[q] = calls[q]
      BY <1>0, <2>5, PostIs
    <3>4. UNCHANGED <<err, nonblock>>
      BY <2>5 DEF PostRecvmsg, kernVars
    <3> QED BY <1>4, <2>1, <2>2, <2>3, <3>2, <3>3, <3>4
  <2>6. CASE PostReturns(r)
    <3>1. pc[r] = "cb" /\ pc'[r] = "done" /\ UNCHANGED <<replyQ, calls, err, nonblock>>
      BY <1>0, <2>6 DEF PostReturns, recvVars, kernVars
    <3>2. SerialPart(r)'
      BY <2>1, <2>4, <3>1 DEF SerialPart, Unread
    <3> QED BY <1>4, <2>1, <2>2, <2>3, <3>1, <3>2
  <2> QED BY <1>7, <2>5, <2>6 DEF Completion
<1> QED BY <1>0, <1>2, <1>3, <1>5, <1>6, <1>7, SerialFrame DEF OneAtATime

\* The kernel's queue has answers only to the request that is still to read it; if that
\* request failed, on a socket that nobody will read again.
Waits(r) ==
    /\ sent[r] > 0
    /\ pc[r] \in {"send", "fcntl", "recv"} \/ (err[r] /\ fd \notin {"none", "open"})
Expected(dg) ==
    /\ ~dg.trunc
    /\ \A i \in DOMAIN dg.msgs : \/ dg.msgs[i].src = Env /\ dg.pid = 1
                                 \/ dg.msgs[i].src \in Reqs /\ Waits(dg.msgs[i].src)
QueueOwned == \A c \in DOMAIN rcvq : Expected(rcvq[c])

\* A step that adds nothing to the queue and after which every request still waits.
LEMMA StillExpected ==
    ASSUME QueueOwned, \A c \in DOMAIN rcvq' : \E d \in DOMAIN rcvq : rcvq'[c] = rcvq[d],
           \A r \in Reqs : Waits(r) => Waits(r)'
    PROVE  QueueOwned'
<1>1. ASSUME NEW dg, Expected(dg) PROVE Expected(dg)'
  BY <1>1 DEF Expected
<1> QED BY <1>1 DEF QueueOwned

\* Arrivals that are expected.
LEMMA NewExpected ==
    ASSUME TypeOK, QueueOwned, NEW dgs \in Seq(Datagram), rcvq' = rcvq \o dgs,
           \A r \in Reqs : Waits(r) => Waits(r)', \A c \in DOMAIN dgs : Expected(dgs[c])'
    PROVE  QueueOwned'
<1>1. ASSUME NEW dg, Expected(dg) PROVE Expected(dg)'
  BY <1>1 DEF Expected
<1>2. \A c \in DOMAIN rcvq' :
         \/ c \in DOMAIN rcvq /\ rcvq'[c] = rcvq[c]
         \/ c - Len(rcvq) \in DOMAIN dgs /\ rcvq'[c] = dgs[c - Len(rcvq)]
  BY ConcatIs DEF TypeOK, KernTypes
<1> QED BY <1>1, <1>2 DEF QueueOwned

\* What a worker does to the queue's owners.
LEMMA WorkerExpected ==
    ASSUME OneAtATime, IInv, SerialInv, QueueOwned, NEW r \in Reqs, Worker(r), ~overrun, ~overrun'
    PROVE  QueueOwned'
<1>0. /\ pc \in [AllReqs -> Points] /\ Listener \notin Reqs /\ Reqs \subseteq AllReqs /\ TypeOK
      /\ SendInv /\ r \in AllReqs /\ SerialPart(r) /\ sent \in [AllReqs -> Nat]
      /\ err \in [AllReqs -> BOOLEAN] /\ ~listening
  BY NamesDistinct DEF IInv, ListenInv, TypeOK, LoopTypes, SendTypes, RecvTypes, AllReqs, SerialInv
<1>1. /\ UNCHANGED fd
      /\ pc' \in {[pc EXCEPT ![r] = v] : v \in WorkerPoints \cup {"ready", "done"}}
  BY <1>0, WorkerFrame
<1>2. \A q \in AllReqs \ {r} : pc'[q] = pc[q]
  BY <1>0, <1>1
<1>3. ASSUME rcvq' = rcvq \/ rcvq' = <<>>, UNCHANGED sent,
             \A q \in Reqs \ {r} : err'[q] = err[q], Waits(r) => Waits(r)'
      PROVE  QueueOwned'
  <2>1. ASSUME NEW q \in Reqs, Waits(q) PROVE Waits(q)'
    <3>1. CASE q # r
      <4>1. pc'[q] = pc[q] /\ err'[q] = err[q] /\ fd' = fd /\ sent' = sent
        BY <1>0, <1>1, <1>2, <1>3, <3>1
      <4> QED BY <2>1, <4>1 DEF Waits
    <3> QED BY <1>3, <2>1, <3>1
  <2>2. \A c \in DOMAIN rcvq' : \E d \in DOMAIN rcvq : rcvq'[c] = rcvq[d]
    BY <1>3
  <2> QED BY <2>1, <2>2, StillExpected
<1>4. CASE DoSendmsg(r) \/ StampHeader(r) \/ StampLast(r) \/ IncrementSeq(r) \/ SendFails(r)
  <2>1. UNCHANGED <<rcvq, sent>> /\ (err' = err \/ err' = [err EXCEPT ![r] = TRUE])
    BY <1>4 DEF DoSendmsg, StampHeader, StampLast, IncrementSeq, SendFails, Fail, kernVars,
       sendVars, recvVars
  <2>2. sent[r] = 0
    BY <1>0, <1>4 DEF DoSendmsg, StampHeader, StampLast, IncrementSeq, SendFails, SendInv
  <2>3. ~Waits(r)
    BY <2>2 DEF Waits
  <2>4. \A q \in Reqs \ {r} : err'[q] = err[q]
    BY <1>0, <2>1
  <2> QED BY <1>3, <2>1, <2>3, <2>4
<1>5. CASE KernelProcesses(r)
  <2>1. PICK dgs \in Seq(Datagram) : ProcessedTo(r, dgs)
    BY <1>0, <1>5, ProcessIs
  <2>2. /\ rcvq' = rcvq \o dgs /\ sent' = [sent EXCEPT ![r] = @ + 1]
        /\ \A c \in DOMAIN dgs :
             /\ ~dgs[c].trunc
             /\ \A i \in DOMAIN dgs[c].msgs : dgs[c].msgs[i].src = r
    BY <2>1 DEF ProcessedTo, OneAtATime, NoTrunc
  <2>3. pc[r] = "send" /\ pc' = pc /\ err' = err
    BY <1>5 DEF KernelProcesses, recvVars
  <2>4. Waits(r)'
    BY <1>0, <2>2, <2>3 DEF Waits
  <2>5. ASSUME NEW q \in Reqs, Waits(q) PROVE Waits(q)'
    <3>1. CASE q # r
      <4>1. pc'[q] = pc[q] /\ err'[q] = err[q] /\ fd' = fd /\ sent'[q] = sent[q]
        BY <1>0, <1>1, <2>2, <2>3, <3>1
      <4> QED BY <2>5, <4>1 DEF Waits
    <3> QED BY <2>4, <3>1
  <2>6. \A c \in DOMAIN dgs : Expected(dgs[c])'
    BY <2>2, <2>4 DEF Expected
  <2> QED BY <1>0, <2>2, <2>5, <2>6, NewExpected
<1>6. CASE SendReturns(r)
  <2>1. (rcvq' = rcvq \/ rcvq' = <<>>) /\ UNCHANGED <<sent, err>> /\ pc'[r] = "fcntl"
    BY <1>0, <1>6 DEF SendReturns, LeftBy, sendVars, recvVars
  <2>2. Waits(r) => Waits(r)'
    BY <2>1 DEF Waits
  <2> QED BY <1>3, <2>1, <2>2
<1>7. CASE WorkerFcntl(r) \/ WorkerRecvError(r)
  <2>1. /\ (rcvq' = rcvq \/ rcvq' = <<>>) /\ UNCHANGED sent /\ pc[r] \in {"fcntl", "recv"}
        /\ \/ err' = err /\ pc'[r] = "recv"
           \/ err' = [err EXCEPT ![r] = TRUE] /\ fd # "open"
    BY <1>0, <1>7 DEF WorkerFcntl, WorkerRecvError, LeftBy, Fail, sendVars, SerialPart
  <2>2. fd # "none"
    BY <1>0, <2>1 DEF SerialPart
  <2>3. Waits(r) => Waits(r)'
    BY <1>0, <1>1, <2>1, <2>2 DEF Waits
  <2>4. \A q \in Reqs \ {r} : err'[q] = err[q]
    BY <1>0, <2>1
  <2> QED BY <1>3, <2>1, <2>3, <2>4
<1>8. CASE WorkerRecv(r) \/ WorkerWakes(r)
  <2>1. /\ rcvq # <<>> /\ TakeDatagram(r) /\ UNCHANGED sent
        /\ pc' = [pc EXCEPT ![r] = IF Head(rcvq).trunc THEN Finished(r) ELSE "fcntl"]
    BY <1>8 DEF WorkerRecv, WorkerWakes, WorkerTakes, sendVars
  <2>2. /\ 1 \in DOMAIN rcvq
        /\ \A i \in DOMAIN rcvq' : i + 1 \in DOMAIN rcvq /\ rcvq'[i] = rcvq[i + 1]
    BY <1>0, <2>1, TakeIs
  <2>3. Head(rcvq) = rcvq[1] /\ ~rcvq[1].trunc
    BY <1>0, <2>2 DEF QueueOwned, Expected, TypeOK, KernTypes
  <2>4. pc'[r] = "fcntl" /\ \A q \in Reqs \ {r} : err'[q] = err[q]
    BY <1>0, <2>1, <2>3 DEF TakeDatagram
  <2>5. ASSUME NEW q \in Reqs, Waits(q) PROVE Waits(q)'
    <3>1. CASE q # r
      <4>1. pc'[q] = pc[q] /\ err'[q] = err[q] /\ fd' = fd /\ sent' = sent
        BY <1>0, <1>1, <1>2, <2>1, <2>4, <3>1
      <4> QED BY <2>5, <4>1 DEF Waits
    <3>2. CASE q = r
      BY <2>1, <2>4, <2>5, <3>2 DEF Waits
    <3> QED BY <3>1, <3>2
  <2> QED BY <2>2, <2>5, StillExpected
<1>9. CASE WorkerRecvEmpty(r)
  <2>1. DOMAIN rcvq' = {}
    BY <1>9 DEF WorkerRecvEmpty, kernVars
  <2> QED BY <2>1 DEF QueueOwned
<1> QED BY <1>4, <1>5, <1>6, <1>7, <1>8, <1>9 DEF Worker

\* Every step of a socket used one request at a time keeps QueueOwned.
LEMMA QueueOwnedStep ==
    ASSUME OneAtATime, IInv, SerialInv, QueueOwned, [Next]_vars, ~overrun, ~overrun'
    PROVE  QueueOwned'
<1>0. /\ pc \in [AllReqs -> Points] /\ Listener \notin Reqs /\ Reqs \subseteq AllReqs /\ TypeOK
      /\ SendInv /\ ListenInv /\ pc[Listener] = "free"
  BY NamesDistinct DEF IInv, TypeOK, LoopTypes, AllReqs, SerialInv
<1>1. CASE Create \/ Close \/ UNCHANGED vars
  <2>1. /\ (rcvq' = rcvq \/ rcvq' = <<>>) /\ UNCHANGED <<pc, sent, err>>
        /\ fd \notin {"none", "open"} => fd' \notin {"none", "open"}
    BY <1>1 DEF Create, Close, vars, sockVars, kernVars, sendVars, recvVars
  <2>2. \A q \in Reqs : Waits(q) => Waits(q)'
    BY <2>1 DEF Waits
  <2>3. \A c \in DOMAIN rcvq' : \E d \in DOMAIN rcvq : rcvq'[c] = rcvq[d]
    BY <2>1
  <2> QED BY <2>2, <2>3, StillExpected
<1>2. CASE EventArrives \/ PeerSends
  <2>1. UNCHANGED <<fd, pc, sent, err>>
    BY <1>2, EnvironmentFrame DEF sockVars, sendVars, recvVars
  <2>2. PICK dgs \in Seq(Datagram) :
           /\ rcvq' = rcvq \o dgs
           /\ \A c \in DOMAIN dgs :
                /\ ~dgs[c].trunc /\ dgs[c].pid = 1
                /\ \A i \in DOMAIN dgs[c].msgs : dgs[c].msgs[i].src = Env
    BY <1>0, <1>2, ArriveIs DEF OneAtATime
  <2>3. \A q \in Reqs : Waits(q) => Waits(q)'
    BY <2>1 DEF Waits
  <2>4. \A c \in DOMAIN dgs : Expected(dgs[c])'
    BY <2>2 DEF Expected
  <2> QED BY <1>0, <2>2, <2>3, <2>4, NewExpected
<1>3. ASSUME NEW r \in Reqs, JavaScript(r) PROVE QueueOwned'
  <2>1. /\ pc[r] \in {"free", "made"} /\ \A q \in AllReqs \ {r} : pc'[q] = pc[q]
        /\ UNCHANGED <<fd, rcvq, sent, err>>
    BY <1>0, <1>3 DEF JavaScript, CreateMsgReq, AddMsgToReq, Sendmsg, sockVars, kernVars, recvVars
  <2>2. sent[r] = 0
    BY <2>1 DEF SendInv, IInv
  <2>3. \A q \in Reqs : Waits(q) => Waits(q)'
    BY <1>0, <2>1, <2>2 DEF Waits
  <2> QED BY <2>1, <2>3, StillExpected
<1>4. ASSUME NEW r \in Reqs, Worker(r) PROVE QueueOwned'
  BY <1>4, WorkerExpected
<1>5. ASSUME NEW r \in Reqs, Completion(r) PROVE QueueOwned'
  <2>1. /\ pc[r] \in {"ready", "cb"} /\ \A q \in AllReqs \ {r} : pc'[q] = pc[q]
        /\ UNCHANGED <<fd, rcvq, sent, err>>
    <3>1. /\ pc[r] \in {"ready", "cb"} /\ UNCHANGED <<fd, sendVars>>
          /\ pc' \in {[pc EXCEPT ![r] = v] : v \in {"cb", IF r = Listener THEN "listen" ELSE "done"}}
      BY <1>0, <1>5, CompletionFrame
    <3>2. UNCHANGED <<rcvq, err>>
      BY <1>5 DEF Completion, PostRecvmsg, PostReturns, kernVars, recvVars
    <3> QED BY <1>0, <3>1, <3>2 DEF sendVars
  <2>2. \A q \in Reqs : Waits(q) => Waits(q)'
    BY <1>0, <2>1 DEF Waits
  <2> QED BY <2>1, <2>2, StillExpected
<1> QED BY <1>0, <1>1, <1>2, <1>3, <1>4, <1>5, SerialFrame DEF OneAtATime

\* What a request has read is an answer to itself, or came from another process under
\* one of its sequence numbers.
OwnedBy(r, m) == m.src = r \/ (m.src = Env /\ m.seq \in firstSeq[r]..lastSeq[r])
Owned ==
    \A x \in AllReqs : \A c, i \in Nat : \A m \in Message :
       Held(x, c, i, m) => x \in Reqs /\ OwnedBy(x, m)

\* The sequence numbers of a request change only before it has read anything.
LEMMA RangeFrame ==
    ASSUME OneAtATime, IInv, CalledBackOnce, SerialInv, [Next]_vars, NEW r \in Reqs
    PROVE  \/ firstSeq'[r] = firstSeq[r] /\ lastSeq'[r] = lastSeq[r]
           \/ \A c, i \in Nat : \A m : ~Held(r, c, i, m)
<1>0. /\ pc \in [AllReqs -> Points] /\ Listener \notin Reqs /\ Reqs \subseteq AllReqs /\ TypeOK
      /\ firstSeq \in [AllReqs -> SeqNumbers] /\ lastSeq \in [AllReqs -> SeqNumbers]
      /\ r \in AllReqs /\ r # Env /\ ListenInv /\ pc[Listener] = "free" /\ SerialPart(r)
  BY NamesDistinct DEF IInv, TypeOK, LoopTypes, SendTypes, AllReqs, SerialInv
<1>1. CASE pc[r] \in {"free", "queued", "last"}
  <2>1. replyQ[r] = <<>>
    BY <1>0, <1>1 DEF SerialPart, Unread
  <2>2. Len(calls[r]) = 0 /\ calls[r] \in Seq(Call)
    BY <1>0, <1>1 DEF CalledBackOnce, TypeOK, LoopTypes
  <2>3. calls[r] = <<>>
    BY <2>2, EmptySeq
  <2>4. DOMAIN replyQ[r] = {} /\ DOMAIN calls[r] = {}
    BY <2>1, <2>3
  <2> QED BY <1>0, <2>4 DEF Held
<1>2. CASE pc[r] \notin {"free", "queued", "last"}
  <2>1. CASE Create \/ Close \/ UNCHANGED vars
    BY <2>1 DEF Create, Close, vars, sendVars
  <2>2. CASE EventArrives \/ PeerSends
    BY <2>2, EnvironmentFrame DEF sendVars
  <2>3. ASSUME NEW q \in Reqs, JavaScript(q) PROVE firstSeq'[r] = firstSeq[r] /\ lastSeq'[r] = lastSeq[r]
    BY <1>0, <1>2, <2>3 DEF JavaScript, CreateMsgReq, AddMsgToReq, Sendmsg
  <2>4. ASSUME NEW q \in Reqs, Worker(q) PROVE firstSeq'[r] = firstSeq[r] /\ lastSeq'[r] = lastSeq[r]
    <3>1. CASE DoSendmsg(q) \/ StampLast(q)
      BY <1>0, <1>2, <3>1 DEF DoSendmsg, StampLast
    <3>2. CASE \/ StampHeader(q) \/ IncrementSeq(q) \/ SendFails(q) \/ KernelProcesses(q)
               \/ SendReturns(q)
      BY <3>2 DEF StampHeader, IncrementSeq, SendFails, KernelProcesses, SendReturns, sendVars
    <3>3. CASE \/ WorkerFcntl(q) \/ WorkerRecvError(q) \/ WorkerRecv(q) \/ WorkerRecvEmpty(q)
               \/ WorkerWakes(q)
      BY <3>3 DEF WorkerFcntl, WorkerRecvError, WorkerRecv, WorkerRecvEmpty, WorkerWakes, WorkerTakes,
         sendVars
    <3> QED BY <2>4, <3>1, <3>2, <3>3 DEF Worker
  <2>5. ASSUME NEW q \in Reqs, Completion(q) PROVE firstSeq'[r] = firstSeq[r] /\ lastSeq'[r] = lastSeq[r]
    BY <1>0, <2>5, CompletionFrame DEF sendVars
  <2> QED BY <1>0, <2>1, <2>2, <2>3, <2>4, <2>5, SerialFrame DEF OneAtATime
<1> QED BY <1>1, <1>2

\* The ways in which a step can touch a message, without a listener.
LEMMA SerialQueueFrame ==
    ASSUME OneAtATime, IInv, SerialInv, [Next]_vars
    PROVE  \/ UNCHANGED <<rcvq, replyQ, calls, answered, sent>>
           \/ Discarded
           \/ \E r \in Reqs : KernelProcesses(r)
           \/ EventArrives \/ PeerSends
           \/ \E r \in Reqs : WorkerRecv(r)
           \/ \E r \in Reqs : PostRecvmsg(r)
<1>0. pc[Listener] = "free" /\ \A q \in Reqs : pc[q] # "blocked"
  BY DEF SerialInv, SerialPart
<1>1. CASE Create \/ Close \/ UNCHANGED vars
  BY <1>1 DEF Create, Close, Discarded, vars, kernVars, sendVars, recvVars, loopVars
<1>2. ASSUME NEW r \in Reqs, JavaScript(r) PROVE UNCHANGED <<rcvq, replyQ, calls, answered, sent>>
  BY <1>2 DEF JavaScript, CreateMsgReq, AddMsgToReq, Sendmsg, kernVars, recvVars, loopVars
<1>3. ASSUME NEW r \in Reqs, Worker(r)
      PROVE  \/ UNCHANGED <<rcvq, replyQ, calls, answered, sent>>
             \/ KernelProcesses(r) \/ WorkerRecv(r) \/ Discarded
  <2>1. CASE DoSendmsg(r) \/ SendFails(r) \/ WorkerFcntl(r)
    BY <2>1 DEF DoSendmsg, SendFails, WorkerFcntl, kernVars, sendVars, loopVars
  <2>2. CASE StampHeader(r) \/ StampLast(r) \/ IncrementSeq(r) \/ WorkerRecvEmpty(r)
    BY <2>2 DEF StampHeader, StampLast, IncrementSeq, WorkerRecvEmpty, kernVars,
       sendVars, recvVars, loopVars
  <2>3. CASE SendReturns(r) \/ WorkerRecvError(r)
    BY <2>3 DEF SendReturns, WorkerRecvError, LeftBy, Discarded, sockVars, sendVars, recvVars,
       loopVars
  <2> QED BY <1>0, <1>3, <2>1, <2>2, <2>3 DEF Worker, WorkerWakes
<1>4. ASSUME NEW r \in Reqs, PostReturns(r) PROVE UNCHANGED <<rcvq, replyQ, calls, answered, sent>>
  BY <1>4 DEF PostReturns, kernVars, sendVars, recvVars
<1> QED BY <1>0, <1>1, <1>2, <1>3, <1>4, SerialFrame DEF Completion, OneAtATime

\* What a read adds has passed the filter.
LEMMA TakenAccepted ==
    ASSUME TypeOK, NEW r \in AllReqs, rcvq # <<>>, TakeDatagram(r), NEW i \in DOMAIN replyQ'[r],
           i > Len(replyQ[r])
    PROVE  \A k \in DOMAIN rcvq[1].msgs : Accepts(r, rcvq[1], rcvq[1].msgs[k])
<1>1. rcvq \in Seq(Datagram) /\ replyQ \in [AllReqs -> Seq(Reply)] /\ replyQ[r] \in Seq(Reply)
  BY DEF TypeOK, KernTypes, RecvTypes
<1>2. rcvq[1] \in Datagram /\ Head(rcvq) = rcvq[1]
  BY <1>1, TakeIs
<1>3. PICK new \in Seq(Reply) : new = Replies(r, rcvq[1]) /\ Len(new) = Len(Accepted(r, rcvq[1]))
  BY <1>2, RepliesType
<1>4. replyQ'[r] = replyQ[r] \o new
  BY <1>1, <1>2, <1>3 DEF TakeDatagram
<1>5. i <= Len(replyQ[r]) + Len(new)
  BY <1>1, <1>4, ConcatIs
<1>6. Accepted(r, rcvq[1]) # <<>>
  <2>1. Len(replyQ[r]) \in Nat /\ Len(new) \in Nat /\ i \in Nat
    BY <1>1, <1>4, ConcatIs
  <2>2. Len(new) # 0
    BY <1>5, <2>1
  <2> QED BY <1>3, <2>2
<1>7. \A k \in 1..Len(rcvq[1].msgs) : Accepts(r, rcvq[1], rcvq[1].msgs[k])
  BY <1>6 DEF Accepted
<1>8. DOMAIN rcvq[1].msgs = 1..Len(rcvq[1].msgs)
  BY <1>2, LenProperties DEF Datagram
<1> QED BY <1>7, <1>8

\* Every step of a socket used one request at a time keeps Owned.
LEMMA OwnedStep ==
    ASSUME OneAtATime, IInv, CalledBackOnce, SerialInv, QueueOwned, Owned, [Next]_vars, ~overrun'
    PROVE  Owned'
<1>0. /\ TypeOK /\ SendInv /\ Env \notin AllReqs /\ Reqs \subseteq AllReqs /\ AllReqs \subseteq Sources
      /\ Env \in Sources
  BY NamesDistinct DEF IInv, AllReqs, Sources
\* What a request held stays its own.
<1>1. ASSUME NEW x \in AllReqs, NEW c \in Nat, NEW i \in Nat, NEW m \in Message, Held(x, c, i, m)
      PROVE  x \in Reqs /\ OwnedBy(x, m)'
  <2>1. x \in Reqs /\ OwnedBy(x, m)
    BY <1>1 DEF Owned
  <2>2. firstSeq'[x] = firstSeq[x] /\ lastSeq'[x] = lastSeq[x]
    BY <1>1, <2>1, RangeFrame
  <2> QED BY <2>1, <2>2 DEF OwnedBy
\* So it is enough to find what it holds now among what it held.
<1>2. ASSUME \A x \in AllReqs : \A c, i \in Nat : \A m :
                Held(x, c, i, m)' => \E d, j \in Nat : Held(x, d, j, m)
      PROVE  Owned'
  <2>1. ASSUME NEW x \in AllReqs, NEW c \in Nat, NEW i \in Nat, NEW m \in Message, Held(x, c, i, m)'
        PROVE  x \in Reqs /\ OwnedBy(x, m)'
    BY <1>1, <1>2, <2>1
  <2> QED BY ONLY <2>1 DEF Owned
<1>3. CASE UNCHANGED <<rcvq, replyQ, calls, answered, sent>>
  <2>1. \A x \in Sources : \A c, i \in Nat : \A m : Held(x, c, i, m)' <=> Held(x, c, i, m)
    BY <1>3 DEF Held
  <2> QED BY <1>0, <1>2, <2>1
<1>4. ASSUME NEW dgs \in Seq(Datagram), rcvq' = rcvq \o dgs, UNCHANGED <<replyQ, calls>>
      PROVE  Owned'
  <2>1. PICK len \in Nat : len = Len(rcvq)
    BY <1>0, HeldTypes
  <2>2. \A x \in Sources : \A c, i \in Nat : \A m :
           Held(x, c, i, m)' => Held(x, c, i, m) \/ (x = Env /\ NewAt(dgs, c - len, i, m))
    BY <1>0, <1>4, <2>1, AppendBack
  <2>3. \A x \in AllReqs : \A c, i \in Nat : \A m : Held(x, c, i, m)' => Held(x, c, i, m)
    BY <1>0, <2>2
  <2> QED BY <1>2, <2>3
<1>5. ASSUME NEW r \in Reqs, KernelProcesses(r) PROVE Owned'
  BY <1>0, <1>4, <1>5, ProcessIs DEF ProcessedTo
<1>6. CASE EventArrives \/ PeerSends
  BY <1>0, <1>4, <1>6, ArriveIs
<1>7. ASSUME NEW r \in Reqs, WorkerRecv(r) PROVE Owned'
  <2>1. /\ rcvq # <<>> /\ TakeDatagram(r) /\ UNCHANGED calls /\ pc[r] = "recv" /\ fd = "open"
        /\ UNCHANGED <<firstSeq, lastSeq>>
    BY <1>7 DEF WorkerRecv, WorkerTakes, loopVars, sendVars
  <2>2. PICK len \in Nat : len = Len(replyQ[r])
    BY <1>0, HeldTypes
  <2>3. 1 \in DOMAIN rcvq
    BY <1>0, <2>1, TakeIs
  <2>4. ASSUME NEW k \in DOMAIN rcvq[1].msgs, Accepts(r, rcvq[1], rcvq[1].msgs[k])
        PROVE  OwnedBy(r, rcvq[1].msgs[k])
    <3>1. CASE rcvq[1].msgs[k].src \in Reqs /\ Waits(rcvq[1].msgs[k].src)
      <4>1. r \in InFlight /\ rcvq[1].msgs[k].src \in InFlight
        BY <2>1, <3>1 DEF InFlight, WorkerPoints, Waits
      <4>2. rcvq[1].msgs[k].src = r
        BY <4>1 DEF SerialInv, OneInFlight
      <4> QED BY <4>2 DEF OwnedBy
    <3>2. CASE rcvq[1].msgs[k].src = Env /\ rcvq[1].pid = 1
      <4>1. rcvq[1].msgs[k] \in Message
        <5>1. rcvq[1] \in Datagram
          BY <1>0, <2>1, TakeIs
        <5>2. rcvq[1].msgs \in Seq(Message)
          BY <5>1 DEF Datagram
        <5> QED BY <5>2, LenProperties, ElementOfSeq
      <4>2. rcvq[1].msgs[k].seq \in Nat /\ firstSeq[r] \in Nat /\ lastSeq[r] \in Nat
        BY <1>0, <4>1 DEF Message, SeqNumbers, TypeOK, SendTypes
      <4>3. firstSeq[r] <= rcvq[1].msgs[k].seq /\ rcvq[1].msgs[k].seq <= lastSeq[r]
        BY <2>4, <3>2 DEF Accepts
      <4> QED BY <3>2, <4>2, <4>3 DEF OwnedBy
    <3> QED BY <2>3, <3>1, <3>2 DEF QueueOwned, Expected
  <2>5. ASSUME NEW x \in AllReqs, NEW c \in Nat, NEW i \in Nat, NEW m \in Message, Held(x, c, i, m)'
        PROVE  x \in Reqs /\ OwnedBy(x, m)'
    <3>1. \/ x = Env
          \/ x = r /\ c = 0 /\ i > len /\ Held(Env, 1, i - len, m)
          \/ Held(x, c, i, m)
      BY <1>0, <2>1, <2>2, <2>5, ReadBack
    <3>2. CASE x = r /\ c = 0 /\ i > len /\ Held(Env, 1, i - len, m)
      <4>1. i - len \in DOMAIN rcvq[1].msgs /\ rcvq[1].msgs[i - len] = m
        BY <1>0, <3>2 DEF Held
      <4>2. i \in DOMAIN replyQ'[r]
        <5>1. 0 \notin DOMAIN calls'[r]
          BY <1>0, <2>1, HeldTypes
        <5> QED BY <1>0, <2>5, <3>2, <5>1 DEF Held
      <4>3. Accepts(r, rcvq[1], m)
        BY <1>0, <2>1, <2>2, <3>2, <4>1, <4>2, TakenAccepted
      <4>4. OwnedBy(r, m)
        BY <2>4, <4>1, <4>3
      <4> QED BY <2>1, <3>2, <4>4 DEF OwnedBy
    <3>3. CASE Held(x, c, i, m)
      BY <1>1, <3>3
    <3> QED BY <1>0, <3>1, <3>2, <3>3
  <2> QED BY ONLY <2>5 DEF Owned
<1>8. ASSUME NEW r \in Reqs, PostRecvmsg(r) PROVE Owned'
  <2>1. PICK last \in Nat : last = Len(calls[r])
    BY <1>0, HeldTypes
  <2>2. \A x \in Sources : \A c, i \in Nat : \A m :
           Held(x, c, i, m)' => (x = r /\ Held(r, 0, i, m)) \/ Held(x, c, i, m)
    BY <1>0, <1>8, <2>1, PostBack
  <2>3. \A x \in AllReqs : \A c, i \in Nat : \A m : Held(x, c, i, m)' => \E d, j \in Nat : Held(x, d, j, m)
    BY <1>0, <2>2
  <2> QED BY <1>2, <2>3
<1>9. CASE Discarded
  <2>1. \A x \in AllReqs : \A c, i \in Nat : \A m : Held(x, c, i, m)' => Held(x, c, i, m)
    BY <1>0, <1>9, DiscardBack
  <2> QED BY <1>2, <2>1
<1> QED BY <1>3, <1>5, <1>6, <1>7, <1>8, <1>9, SerialQueueFrame

\* What a callback without error has, once the answers are kept, ordered and owned.
LEMMA OwnRepliesFrom ==
    ASSUME IInv, CalledBackOnce, KeptInv, ReadOrAwaited, AnswerOrder, Traced, SerialInv, Owned
    PROVE  OwnReplies
<1> SUFFICES ASSUME NEW r \in Reqs, NEW c \in DOMAIN calls[r], ~calls[r][c].err
             PROVE  LET bufs == calls[r][c].bufs
                        own == {i \in DOMAIN bufs : bufs[i].src = r}
                    IN  /\ {bufs[i] : i \in own} = MsgsOf(answered[r])
                        /\ \A i, j \in own : i < j => Before(bufs[i], bufs[j])
                        /\ \A i \in DOMAIN bufs \ own :
                              bufs[i].src = Env /\ bufs[i].seq \in firstSeq[r]..lastSeq[r]
  BY DEF OwnReplies
<1> DEFINE bufs == calls[r][c].bufs
           own == {i \in DOMAIN bufs : bufs[i].src = r}
<1>0. /\ TypeOK /\ r \in AllReqs /\ r \in Sources /\ r # Env /\ Env \notin AllReqs
  BY NamesDistinct DEF IInv, AllReqs, Sources
<1>1. /\ ~err[r] /\ replyQ[r] = <<>> /\ pc[r] \in {"cb", "done"} /\ DOMAIN replyQ[r] = {}
  BY DEF SerialInv, SerialPart
<1>2. DOMAIN calls[r] = {1} /\ c = 1 /\ c \in Nat
  <2>1. DOMAIN calls[r] = 1..Len(calls[r]) /\ Len(calls[r]) \in {0, 1}
    BY <1>0, HeldTypes DEF CalledBackOnce
  <2>2. PICK n \in {0, 1} : n = Len(calls[r]) /\ DOMAIN calls[r] = 1..n
    BY <2>1
  <2>3. n = 1 /\ c \in 1..n
    BY <2>2
  <2>4. c = 1 /\ 1..n = {1}
    BY <2>3
  <2> QED BY <2>2, <2>4
<1>3. ASSUME NEW i \in DOMAIN bufs
      PROVE  bufs[i] \in Message /\ i \in Nat /\ Held(r, c, i, bufs[i])
  <2>1. calls[r] \in Seq(Call) /\ c \in 1..Len(calls[r])
    BY <1>0, HeldTypes DEF TypeOK, LoopTypes
  <2>2. calls[r][c] \in Call
    BY <2>1, ElementOfSeq
  <2>3. bufs \in Seq(Message)
    BY <2>2 DEF Call
  <2>4. i \in 1..Len(bufs) /\ Len(bufs) \in Nat
    BY <2>3, LenProperties
  <2>5. bufs[i] \in Message
    BY <2>3, <2>4, ElementOfSeq
  <2> QED BY <1>0, <2>4, <2>5 DEF Held
<1> HIDE DEF bufs
<1>4. ASSUME NEW i \in own PROVE bufs[i] \in MsgsOf(answered[r])
  <2>1. bufs[i] \in Message /\ i \in Nat /\ Held(r, c, i, bufs[i]) /\ bufs[i].src = r
    BY <1>3
  <2> QED BY <1>0, <1>2, <2>1 DEF Traced
<1>5. ASSUME NEW m \in MsgsOf(answered[r]) PROVE \E i \in own : bufs[i] = m
  <2>1. m.src = r
    BY DEF KeptInv, AnswersKept
  <2>2. Collected(m)
    BY <1>1 DEF ReadOrAwaited, Awaits, SerialInv
  <2>3. PICK x \in AllReqs, d \in Nat, j \in Nat : Held(x, d, j, m)
    BY <2>2 DEF Collected
  <2>4. m \in Message
    <3>1. PICK k \in DOMAIN answered[r] : \E l \in DOMAIN answered[r][k].msgs : m = answered[r][k].msgs[l]
      BY DEF MsgsOf
    <3>2. answered[r] \in Seq(Datagram)
      BY <1>0 DEF TypeOK, KernTypes
    <3>3. answered[r][k] \in Datagram
      BY <3>2, LenProperties, ElementOfSeq
    <3>4. answered[r][k].msgs \in Seq(Message)
      BY <3>3 DEF Datagram
    <3> QED BY <3>1, <3>4, LenProperties, ElementOfSeq
  <2>5. x \in Reqs /\ OwnedBy(x, m)
    BY <2>3, <2>4 DEF Owned
  <2>6. x = r
    BY <1>0, <2>1, <2>5 DEF OwnedBy
  <2>7. d = c /\ j \in DOMAIN bufs /\ bufs[j] = m
    BY <1>0, <1>1, <1>2, <2>3, <2>6 DEF Held, bufs
  <2> QED BY <2>1, <2>7
<1>6. ASSUME NEW i \in own, NEW j \in own, i < j PROVE Before(bufs[i], bufs[j])
  <2>1. /\ bufs[i] \in Message /\ i \in Nat /\ Held(r, c, i, bufs[i]) /\ bufs[i].src = r
        /\ bufs[j] \in Message /\ j \in Nat /\ Held(r, c, j, bufs[j]) /\ bufs[j].src = r
    BY <1>3
  <2>2. Earlier(r, c, i, r, c, j)
    BY <1>6 DEF Earlier
  <2> QED BY <1>0, <1>2, <2>1, <2>2 DEF AnswerOrder
<1>7. ASSUME NEW i \in DOMAIN bufs \ own
      PROVE  bufs[i].src = Env /\ bufs[i].seq \in firstSeq[r]..lastSeq[r]
  <2>1. bufs[i] \in Message /\ i \in Nat /\ Held(r, c, i, bufs[i]) /\ bufs[i].src # r
    BY <1>3
  <2>2. OwnedBy(r, bufs[i])
    BY <1>0, <1>2, <2>1 DEF Owned
  <2> QED BY <2>1, <2>2 DEF OwnedBy
<1>8. {bufs[i] : i \in own} = MsgsOf(answered[r])
  BY <1>4, <1>5
<1> QED BY <1>6, <1>7, <1>8 DEF bufs

\* What keeps the answers of a request together on a socket used one request at a time.
OwnInv ==
    /\ CallbackInv /\ KeptInv /\ ReadOrAwaited /\ AnswerOrder /\ Traced
    /\ SerialInv /\ QueueOwned /\ Owned

\* It holds before anything was sent.
LEMMA InitOwn == Init => OwnInv
<1> SUFFICES ASSUME Init PROVE OwnInv
  OBVIOUS
<1>1. CallbackInv
  BY DEF Init, CallbackInv, InFlight, WorkerPoints, AllReqs
<1>2. /\ \A r \in Reqs : MsgsOf(answered[r]) = {}
      /\ DOMAIN rcvq = {}
  BY DEF Init, MsgsOf, AllReqs
<1>3. \A x \in Sources : \A c, i \in Nat : \A m : ~Held(x, c, i, m)
  BY DEF Init, Held
<1>4. KeptInv /\ ReadOrAwaited /\ QueueOwned
  BY <1>2, <1>3 DEF KeptInv, AnswersKept, NoneEarly, NoneDropped, ReadOrAwaited, QueueOwned
<1>5. AnswerOrder /\ Traced /\ Owned
  BY <1>3 DEF AnswerOrder, Traced, Owned, Sources
<1>6. SerialInv
  <2>1. \A r \in AllReqs : pc[r] = "free" /\ replyQ[r] = <<>> /\ calls[r] = <<>>
    BY DEF Init
  <2>2. InFlight = {} /\ \A r \in Reqs : SerialPart(r)
    BY <2>1 DEF InFlight, WorkerPoints, SerialPart, AllReqs
  <2> QED BY <2>1, <2>2 DEF SerialInv, OneInFlight, AllReqs
<1> QED BY <1>1, <1>4, <1>5, <1>6 DEF OwnInv

\* Every step before and after which the queue has not overflowed keeps it.
LEMMA OwnStep ==
    ASSUME OneAtATime, NoBareAnswer, AlwaysCallback, IInv, RepliesAccounted, CalledBackOnce, OwnInv,
           [Next]_vars, ~overrun, ~overrun'
    PROVE  OwnInv'
<1>1. /\ CallbackInv /\ KeptInv /\ AnswerOrder /\ Traced /\ SerialInv /\ QueueOwned /\ Owned
      /\ ErrorRepliesFlagged /\ ReadOrAwaited
  BY DEF OwnInv, RepliesAccounted
<1>2. CallbackInv' /\ KeptInv' /\ ReadOrAwaited'
  BY <1>1, CallbackStep, KeptStep, AwaitedStep
<1>3. AnswerOrder' /\ Traced'
  BY <1>1, AnswerOrderStep, TracedStep
<1>4. SerialInv' /\ QueueOwned' /\ Owned'
  BY <1>1, SerialStep, QueueOwnedStep, OwnedStep
<1> QED BY <1>2, <1>3, <1>4 DEF OwnInv

\* A socket that JavaScript uses one request at a time and that does not overflow: the
\* callback of a request without error has every message the kernel answered to that
\* request, in order, and besides them only datagrams of other processes under one of
\* its sequence numbers, although do_recvmsg takes whatever is queued and does not
\* filter what comes from the kernel (netlinksocket.cc:475 and 546).  The kernel's
\* answers are not cut off and are more than bare headers, every request has a
\* callback, and the socket is in no multicast group; it may be closed at any time.
THEOREM OwnRepliesAlways ==
    OneAtATime /\ NoBareAnswer /\ AlwaysCallback => (Spec /\ []~overrun => []OwnReplies)
<1> SUFFICES ASSUME OneAtATime, NoBareAnswer, AlwaysCallback
             PROVE  Spec /\ []~overrun => []OwnReplies
  OBVIOUS
<1>1. /\ IInv /\ RepliesAccounted /\ CalledBackOnce /\ OwnInv /\ [Next]_vars /\ ~overrun /\ ~overrun'
      => OwnInv'
  BY OwnStep
<1>2. IInv /\ CalledBackOnce /\ OwnInv => OwnReplies
  BY OwnRepliesFrom DEF OwnInv
<1> QED
  BY Inductive, RepliesAccountedAlways, CalledBackOnceAlways, InitOwn, <1>1, <1>2, PTL DEF Spec

-----------------------------------------------------------------------------
(* The service the JavaScript layers rely on *)

\* Every request has a send callback, the one that also hears of errors.
SendCallback == \A mode \in CbModes : "send" \in mode
SendCbInv == \A r \in InFlight : "send" \in cbs[r]

\* Every step keeps SendCbInv.
LEMMA SendCbStep ==
    ASSUME SendCallback, ~MayListen, IInv, pc[Listener] = "free", SendCbInv, [Next]_vars
    PROVE  SendCbInv'
<1>0. /\ pc \in [AllReqs -> Points] /\ Reqs \subseteq AllReqs /\ TypeOK /\ ListenInv
      /\ cbs \in [AllReqs -> SUBSET {"send", "reply"}]
  BY DEF IInv, TypeOK, LoopTypes, SendTypes, AllReqs
<1>1. CASE Create \/ Close \/ UNCHANGED vars
  BY <1>1 DEF Create, Close, SendCbInv, InFlight, vars, sendVars
<1>2. CASE EventArrives \/ PeerSends
  BY <1>2, EnvironmentFrame DEF SendCbInv, InFlight, sendVars
<1>3. ASSUME NEW r \in Reqs, JavaScript(r) PROVE SendCbInv'
  <2>1. CASE CreateMsgReq(r) \/ AddMsgToReq(r)
    BY <1>0, <2>1 DEF CreateMsgReq, AddMsgToReq, SendCbInv, InFlight, WorkerPoints
  <2>2. CASE Sendmsg(r)
    <3>1. /\ \A q \in AllReqs \ {r} : pc'[q] = pc[q] /\ cbs'[q] = cbs[q]
          /\ cbs'[r] \in CbModes
      BY <1>0, <2>2 DEF Sendmsg
    <3> QED BY <1>0, <3>1 DEF SendCallback, SendCbInv, InFlight
  <2> QED BY <1>3, <2>1, <2>2 DEF JavaScript
<1>4. ASSUME NEW r \in Reqs, Worker(r) PROVE SendCbInv'
  <2>1. /\ pc[r] \in WorkerPoints /\ cbs' = cbs
        /\ pc' \in {[pc EXCEPT ![r] = v] : v \in WorkerPoints \cup {"ready", "done"}}
    BY <1>0, <1>4, WorkerFrame
  <2>2. \A q \in AllReqs \ {r} : pc'[q] = pc[q]
    BY <1>0, <2>1
  <2> QED BY <1>0, <2>1, <2>2 DEF SendCbInv, InFlight
<1>5. ASSUME NEW r \in Reqs, Completion(r) PROVE SendCbInv'
  <2>1. /\ cbs' = cbs
        /\ pc' \in {[pc EXCEPT ![r] = v] : v \in {"cb", IF r = Listener THEN "listen" ELSE "done"}}
    BY <1>0, <1>5, CompletionFrame DEF sendVars
  <2>2. /\ pc'[r] \in {"cb", "listen", "done"} /\ \A q \in AllReqs \ {r} : pc'[q] = pc[q]
    BY <1>0, <2>1
  <2> QED BY <1>0, <2>1, <2>2 DEF SendCbInv, InFlight, WorkerPoints
<1> QED BY <1>1, <1>2, <1>3, <1>4, <1>5, SerialFrame

\* The mapped variables, by request.
LEMMA ServiceIs ==
    /\ DOMAIN ServiceStatus = Reqs /\ DOMAIN ServiceOutcome = Reqs
    /\ \A r \in Reqs :
         /\ r \in InFlight => ServiceStatus[r] = "pending"
         /\ pc[r] \in {"free", "made"} => ServiceStatus[r] = "idle"
         /\ r \notin InFlight /\ pc[r] \notin {"free", "made"} => ServiceStatus[r] = "done"
         /\ calls[r] = <<>> => ServiceOutcome[r] = Service!NoOutcome
         /\ calls[r] # <<>> /\ calls[r][1].err => ServiceOutcome[r] = Service!ErrorOutcome
         /\ calls[r] # <<>> /\ ~calls[r][1].err =>
               ServiceOutcome[r] = Service!Replied({m \in BufsOf(r) : m.src # Env})
BY DEF ServiceStatus, ServiceOutcome, InFlight, WorkerPoints, Service!NoOutcome,
   Service!ErrorOutcome, Service!Replied

\* A step that moves no request, answer or callback is none of the service.
LEMMA ServiceStutters ==
    ASSUME UNCHANGED answered, UNCHANGED calls,
           \A r \in Reqs : /\ r \in InFlight' <=> r \in InFlight
                           /\ pc'[r] \in {"free", "made"} <=> pc[r] \in {"free", "made"}
    PROVE  UNCHANGED Service!serviceVars
<1>1. ServiceStatus' = ServiceStatus
  BY DEF ServiceStatus
<1>2. ServiceAnswers' = ServiceAnswers
  BY DEF ServiceAnswers, MsgsOf
<1>3. ServiceOutcome' = ServiceOutcome
  BY DEF ServiceOutcome, BufsOf
<1> QED BY <1>1, <1>2, <1>3 DEF Service!serviceVars

\* sendMsg sends.
LEMMA ServiceSends ==
    ASSUME TypeOK, Serial, NEW r \in Reqs, Sendmsg(r)
    PROVE  Service!Send(r)
<1>0. /\ pc \in [AllReqs -> Points] /\ Reqs \subseteq AllReqs
  BY DEF TypeOK, LoopTypes, AllReqs
<1>1. /\ pc[r] = "made" /\ pc' = [pc EXCEPT ![r] = "queued"] /\ InFlight = {}
      /\ UNCHANGED <<answered, calls>>
  BY DEF Sendmsg, kernVars
<1>2. \A q \in Reqs \ {r} : pc'[q] = pc[q]
  BY <1>0, <1>1
<1>3. pc'[r] = "queued"
  BY <1>0, <1>1
<1>4. ServiceStatus[r] = "idle" /\ \A q \in Reqs : ServiceStatus[q] # "pending"
  BY <1>1, ServiceIs DEF ServiceStatus
<1>5. ServiceStatus' = [ServiceStatus EXCEPT ![r] = "pending"]
  BY <1>2, <1>3 DEF ServiceStatus, InFlight, WorkerPoints
<1>6. ServiceAnswers' = ServiceAnswers /\ ServiceOutcome' = ServiceOutcome
  BY <1>1 DEF ServiceAnswers, ServiceOutcome, BufsOf, MsgsOf
<1> QED BY <1>4, <1>5, <1>6 DEF Service!Send

\* The kernel serves.
LEMMA ServiceServes ==
    ASSUME IInv, NEW r \in Reqs, KernelProcesses(r), ~overrun'
    PROVE  Service!Serve(r)
<1>0. TypeOK /\ SendInv /\ answered \in [AllReqs -> Seq(Datagram)] /\ Reqs \subseteq AllReqs
  BY DEF IInv, TypeOK, KernTypes, AllReqs
<1>1. PICK dgs \in Seq(Datagram) : ProcessedTo(r, dgs)
  BY <1>0, ProcessIs
<1>2. answered' = [answered EXCEPT ![r] = @ \o dgs] /\ calls' = calls
  BY <1>1 DEF ProcessedTo
<1>3. pc[r] = "send" /\ pc' = pc
  BY DEF KernelProcesses
<1>4. ServiceStatus[r] = "pending" /\ ServiceStatus' = ServiceStatus
  BY <1>3 DEF ServiceStatus, InFlight, WorkerPoints
<1>5. ServiceOutcome' = ServiceOutcome
  BY <1>2 DEF ServiceOutcome, BufsOf
<1>6. MsgsOf(answered[r]) \subseteq MsgsOf(answered'[r])
  BY <1>0, <1>2, MsgsOfGrows
<1>7. /\ \A q \in Reqs \ {r} : answered'[q] = answered[q]
  BY <1>0, <1>2
<1>8. /\ ServiceAnswers[r] \subseteq ServiceAnswers'[r]
      /\ ServiceAnswers' = [ServiceAnswers EXCEPT ![r] = ServiceAnswers'[r]]
  <2>1. \A q \in Reqs : ServiceAnswers[q] = MsgsOf(answered[q]) /\ ServiceAnswers'[q] = MsgsOf(answered'[q])
    BY DEF ServiceAnswers
  <2>2. \A q \in Reqs \ {r} : ServiceAnswers'[q] = ServiceAnswers[q]
    BY <1>7, <2>1
  <2>3. /\ ServiceAnswers = [q \in Reqs |-> ServiceAnswers[q]]
        /\ ServiceAnswers' = [q \in Reqs |-> ServiceAnswers'[q]]
    BY DEF ServiceAnswers
  <2> QED BY ONLY <1>6, <2>1, <2>2, <2>3, r \in Reqs
<1> QED BY <1>4, <1>5, <1>8 DEF Service!Serve

\* A completion completes: what its callback has without error is what was answered.
LEMMA ServiceCompletes ==
    ASSUME IInv, IInv', PostInv, CalledBackOnce', SendCbInv, OwnReplies', NEW r \in Reqs,
           PostRecvmsg(r)
    PROVE  Service!Complete(r)
<1>0. /\ pc \in [AllReqs -> Points] /\ Reqs \subseteq AllReqs /\ TypeOK /\ TypeOK' /\ r \in AllReqs
      /\ r # Listener /\ r # Env
  BY NamesDistinct DEF IInv, TypeOK, LoopTypes, AllReqs
<1>1. /\ pc[r] = "ready" /\ UNCHANGED <<answered, cbs, post, err>>
      /\ pc'[r] \in {"cb", "done"} /\ \A q \in Reqs \ {r} : pc'[q] = pc[q]
      /\ \A q \in Reqs \ {r} : calls'[q] = calls[q]
  <2>1. \A q \in Reqs \ {r} : calls'[q] = calls[q]
    BY <1>0, PostIs
  <2> QED BY <1>0, <2>1 DEF PostRecvmsg, kernVars, sendVars
<1>2. ServiceStatus[r] = "pending" /\ ServiceStatus' = [ServiceStatus EXCEPT ![r] = "done"]
  BY <1>1 DEF ServiceStatus, InFlight, WorkerPoints
<1>3. ServiceAnswers' = ServiceAnswers /\ ServiceAnswers[r] = MsgsOf(answered'[r])
  BY <1>1 DEF ServiceAnswers, MsgsOf
<1>4. calls'[r] # <<>> /\ DOMAIN calls'[r] = {1}
  <2>1. "send" \in cbs[r] /\ post[r]
    BY <1>1 DEF SendCbInv, InFlight, PostInv
  <2>2. Len(calls'[r]) = 1
    BY <1>1, <2>1 DEF CalledBackOnce
  <2>3. calls'[r] \in Seq(Call)
    BY <1>0 DEF TypeOK, LoopTypes
  <2>4. DOMAIN calls'[r] = 1..1 /\ 1 \in DOMAIN calls'[r]
    BY <2>2, <2>3, LenProperties
  <2> QED BY <2>4
<1>5. \A q \in Reqs \ {r} : ServiceOutcome'[q] = ServiceOutcome[q]
  <2> SUFFICES ASSUME NEW q \in Reqs \ {r} PROVE ServiceOutcome'[q] = ServiceOutcome[q]
    OBVIOUS
  <2>1. calls'[q] = calls[q]
    BY <1>1
  <2>2. BufsOf(q)' = BufsOf(q)
    BY <2>1 DEF BufsOf
  <2> QED BY <2>1, <2>2 DEF ServiceOutcome
<1>6. ServiceOutcome'[r] \in {Service!ErrorOutcome, Service!Replied(ServiceAnswers[r])}
  <2>1. CASE calls'[r][1].err
    BY <1>4, <2>1 DEF ServiceOutcome, Service!ErrorOutcome
  <2>2. CASE ~calls'[r][1].err
    <3> DEFINE bufs == calls'[r][1].bufs
               own == {i \in DOMAIN bufs : bufs[i].src = r}
    <3>1. /\ {bufs[i] : i \in own} = MsgsOf(answered'[r])
          /\ \A i \in DOMAIN bufs \ own : bufs[i].src = Env
      BY <1>4, <2>2 DEF OwnReplies
    <3>2. {m \in BufsOf(r)' : m.src # Env} = {bufs[i] : i \in own}
      <4>1. BufsOf(r)' = {bufs[i] : i \in DOMAIN bufs}
        BY <1>4 DEF BufsOf
      <4> HIDE DEF bufs
      <4> QED BY <1>0, <3>1, <4>1
    <3>3. ServiceOutcome'[r] = Service!Replied({m \in BufsOf(r)' : m.src # Env})
      BY <1>4, <2>2 DEF ServiceOutcome, Service!Replied
    <3> QED BY <1>3, <3>1, <3>2, <3>3
  <2> QED BY <2>1, <2>2
<1>7. ServiceOutcome' = [ServiceOutcome EXCEPT ![r] = ServiceOutcome'[r]]
  BY <1>5 DEF ServiceOutcome
<1> QED BY <1>2, <1>3, <1>6, <1>7 DEF Service!Complete

\* Every step of a socket used one request at a time is a step of the service or none.
LEMMA ServiceStep ==
    ASSUME OneAtATime, SendCallback, IInv, IInv', PostInv, CalledBackOnce', SerialInv, SendCbInv,
           OwnReplies', [Next]_vars, ~overrun'
    PROVE  [Service!Next]_(Service!serviceVars)
<1>0. /\ pc \in [AllReqs -> Points] /\ Reqs \subseteq AllReqs /\ TypeOK /\ ListenInv
      /\ pc[Listener] = "free" /\ Serial /\ Listener \notin Reqs
  BY NamesDistinct DEF IInv, TypeOK, LoopTypes, AllReqs, SerialInv, OneAtATime
<1>1. CASE Create \/ Close \/ UNCHANGED vars
  <2>1. UNCHANGED <<pc, answered, calls>>
    BY <1>1 DEF Create, Close, vars, kernVars, loopVars
  <2> QED BY <2>1, ServiceStutters DEF InFlight
<1>2. CASE EventArrives \/ PeerSends
  <2>1. UNCHANGED <<pc, answered, calls>>
    BY <1>2, EnvironmentFrame DEF loopVars
  <2> QED BY <2>1, ServiceStutters DEF InFlight
<1>3. ASSUME NEW r \in Reqs, JavaScript(r) PROVE [Service!Next]_(Service!serviceVars)
  <2>1. CASE CreateMsgReq(r) \/ AddMsgToReq(r)
    <3>1. /\ UNCHANGED <<answered, calls>> /\ pc[r] \in {"free", "made"} /\ pc'[r] = "made"
          /\ \A q \in Reqs \ {r} : pc'[q] = pc[q]
      BY <1>0, <2>1 DEF CreateMsgReq, AddMsgToReq, kernVars, loopVars
    <3> QED BY <3>1, ServiceStutters DEF InFlight, WorkerPoints
  <2>2. CASE Sendmsg(r)
    BY <1>0, <2>2, ServiceSends DEF Service!Next
  <2> QED BY <1>3, <2>1, <2>2 DEF JavaScript
<1>4. ASSUME NEW r \in Reqs, Worker(r) PROVE [Service!Next]_(Service!serviceVars)
  <2>1. CASE KernelProcesses(r)
    BY <1>0, <2>1, ServiceServes DEF Service!Next
  <2>2. CASE ~KernelProcesses(r)
    <3>1. /\ pc[r] \in WorkerPoints /\ UNCHANGED <<post, calls>>
          /\ pc' \in {[pc EXCEPT ![r] = v] : v \in WorkerPoints \cup {"ready", "done"}}
          /\ pc'[r] \in {"ready", "done"} => pc'[r] = Finished(r)
      BY <1>0, <1>4, WorkerFrame DEF loopVars
    <3>2. post[r]
      BY <1>0, <3>1 DEF PostInv, InFlight
    <3>3. /\ pc'[r] \in WorkerPoints \cup {"ready"} /\ \A q \in Reqs \ {r} : pc'[q] = pc[q]
      BY <1>0, <3>1, <3>2 DEF Finished
    <3>4. UNCHANGED answered
      <4>1. CASE \/ DoSendmsg(r) \/ StampHeader(r) \/ StampLast(r) \/ IncrementSeq(r) \/ SendFails(r)
                 \/ SendReturns(r)
        BY <4>1 DEF DoSendmsg, StampHeader, StampLast, IncrementSeq, SendFails, SendReturns, kernVars
      <4>2. CASE \/ WorkerFcntl(r) \/ WorkerRecvError(r) \/ WorkerRecv(r) \/ WorkerRecvEmpty(r)
                 \/ WorkerWakes(r)
        BY <4>2 DEF WorkerFcntl, WorkerRecvError, WorkerRecv, WorkerRecvEmpty, WorkerWakes,
           WorkerTakes, kernVars
      <4> QED BY <1>4, <2>2, <4>1, <4>2 DEF Worker
    <3> QED BY <3>1, <3>3, <3>4, ServiceStutters DEF InFlight, WorkerPoints
  <2> QED BY <2>1, <2>2
<1>5. ASSUME NEW r \in Reqs, Completion(r) PROVE [Service!Next]_(Service!serviceVars)
  <2>1. CASE PostRecvmsg(r)
    BY <2>1, ServiceCompletes DEF Service!Next
  <2>2. CASE PostReturns(r)
    <3>1. /\ UNCHANGED <<answered, calls>> /\ pc[r] = "cb" /\ pc'[r] = "done"
          /\ \A q \in Reqs \ {r} : pc'[q] = pc[q]
      BY <1>0, <2>2 DEF PostReturns, kernVars
    <3> QED BY <3>1, ServiceStutters DEF InFlight, WorkerPoints
  <2> QED BY <1>5, <2>1, <2>2 DEF Completion
<1> QED BY <1>0, <1>1, <1>2, <1>3, <1>4, <1>5, SerialFrame DEF OneAtATime

\* The socket used one request at a time implements the safety part of RequestService: a
\* request is sent when none is pending, the kernel answers the pending request only, and
\* its completion tells the send callback of an error or of exactly what was answered
\* (sendMsg at netlinksocket.cc:269, do_sendmsg at 403, post_recvmsg at 608).
THEOREM ServiceImplemented ==
    OneAtATime /\ NoBareAnswer /\ SendCallback => (Spec /\ []~overrun => Service!Safety)
<1> SUFFICES ASSUME OneAtATime, NoBareAnswer, SendCallback
             PROVE  Spec /\ []~overrun => Service!Safety
  OBVIOUS
<1>0. AlwaysCallback
  BY DEF AlwaysCallback, SendCallback
<1>1. Init => Service!Init /\ SendCbInv
  <2> SUFFICES ASSUME Init PROVE Service!Init /\ SendCbInv
    OBVIOUS
  <2>1. \A r \in Reqs : pc[r] = "free" /\ calls[r] = <<>> /\ answered[r] = <<>>
    BY DEF Init, AllReqs
  <2>2. ServiceStatus = [r \in Reqs |-> "idle"]
    BY <2>1 DEF ServiceStatus
  <2>3. ServiceOutcome = [r \in Reqs |-> Service!NoOutcome]
    BY <2>1 DEF ServiceOutcome, Service!NoOutcome
  <2>4. ServiceAnswers = [r \in Reqs |-> {}]
    BY <2>1 DEF ServiceAnswers, MsgsOf
  <2>5. SendCbInv
    BY <2>1 DEF SendCbInv, InFlight, WorkerPoints
  <2> QED BY <2>2, <2>3, <2>4, <2>5 DEF Service!Init
<1>2. /\ IInv /\ RepliesAccounted /\ CalledBackOnce /\ OwnInv /\ [Next]_vars /\ ~overrun /\ ~overrun'
      => OwnInv'
  BY <1>0, OwnStep
<1>3. IInv /\ OwnInv /\ SendCbInv /\ [Next]_vars => SendCbInv'
  BY SendCbStep DEF OwnInv, SerialInv, OneAtATime
<1>4. IInv /\ CalledBackOnce /\ OwnInv => OwnReplies
  BY OwnRepliesFrom DEF OwnInv
<1>5. /\ IInv /\ IInv' /\ PostInv /\ CalledBackOnce' /\ OwnInv /\ SendCbInv /\ OwnReplies'
      /\ [Next]_vars /\ ~overrun'
      => [Service!Next]_(Service!serviceVars)
  BY ServiceStep DEF OwnInv
<1>6. Init => PostInv
  BY InitCalls
<1>7. IInv /\ PostInv /\ [Next]_vars => PostInv'
  BY PostStep DEF IInv
<1> QED
  BY Inductive, RepliesAccountedAlways, CalledBackOnceAlways, InitOwn, <1>1, <1>2, <1>3, <1>4, <1>5,
     <1>6, <1>7, PTL DEF Spec, Service!Safety
=============================================================================
