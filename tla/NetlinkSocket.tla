--------------------------- MODULE NetlinkSocket ---------------------------
(***************************************************************************)
(* The native netlink socket of node-netkit (src/netlinksocket.cc, .h).    *)
(*                                                                         *)
(* Three kinds of actor share one socket object:                           *)
(*   - the loop thread: it runs every JavaScript call (create, addMsg,     *)
(*     sendMsg, onRecv, close), the completion post_recvmsg of a request,  *)
(*     and the poll callback on_recvmsg;                                   *)
(*   - one libuv worker per queued request, running do_sendmsg and its     *)
(*     receive loop;                                                       *)
(*   - the kernel (external): it answers each message of a sendmsg call    *)
(*     before the call returns, and queues multicast events and datagrams  *)
(*     of other processes whenever it likes.                               *)
(*                                                                         *)
(* A step is atomic only as far as the code makes it so: the accesses of a *)
(* worker to the unsynchronised counter seq, the fcntl and the recvmsg of  *)
(* do_recvmsg, and the two reads of listening in post_recvmsg are          *)
(* different steps.  JavaScript calls may run between requests and inside  *)
(* a request's callback.                                                   *)
(***************************************************************************)
EXTENDS Naturals, Sequences, FiniteSets

CONSTANTS
    Reqs,       \* the sockMsgReq objects JavaScript creates
    Listener,   \* the sockMsgReq that onRecv creates
    NoReq,      \* the loop thread is between callbacks
    Env,        \* source of a message that answers no request
    SeqSpace,   \* number of sequence numbers (2^32 in the code)
    FirstSeq,   \* time(NULL) when the socket was constructed
    RcvCap,     \* datagrams the kernel keeps for the socket
    MaxMsgs,    \* bound: messages JavaScript adds to one request
    MaxEnv,     \* bound: events and foreign datagrams that arrive
    Shapes,     \* the answers the kernel may give to one message
    CbModes,    \* the callbacks JavaScript may pass to sendMsg
    Faults,     \* which system calls may fail: "create", "send"
    Senders,    \* who else sends to the socket: "kernel", "peer"
    Serial,     \* JavaScript calls sendMsg and onRecv only with no request in flight
    MayListen,  \* JavaScript calls onRecv
    MayClose    \* JavaScript calls close at any time

AllReqs == Reqs \cup {Listener}

Kinds == {"data", "ack", "error", "bare"}

\* A datagram the kernel answers with: the messages that fit in the 16k receive
\* buffer, and whether one more was cut off.
Shape == [kinds: Seq(Kinds), trunc: BOOLEAN]

ASSUME NamesDistinct ==
    /\ Listener \notin Reqs
    /\ NoReq \notin AllReqs
    /\ Env \notin AllReqs
ASSUME ReqsFinite == IsFiniteSet(Reqs)
ASSUME SeqSpaceNat == SeqSpace \in Nat \ {0} /\ FirstSeq \in Nat /\ FirstSeq < SeqSpace
ASSUME BoundsNat == RcvCap \in Nat /\ MaxMsgs \in Nat /\ MaxEnv \in Nat
ASSUME ShapesType == Shapes \subseteq Seq(Shape)
ASSUME CbModesType == CbModes \subseteq SUBSET {"send", "reply"}
ASSUME SwitchesType ==
    /\ Faults \subseteq {"create", "send"}
    /\ Senders \subseteq {"kernel", "peer"}
    /\ Serial \in BOOLEAN
    /\ MayListen \in BOOLEAN
    /\ MayClose \in BOOLEAN

VARIABLES
    \* the NetlinkSocket object
    fd,         \* "none" (0), "open", "bad" (-1), or "closed" (the stale number)
    sockErr,    \* err.hasErr() of the socket
    createCb,   \* how create called its callback: "none", "noerr" or "err"
    seq,        \* next sequence number, shared by the workers
    listening,  \* set by onRecv
    polling,    \* the uv_poll handle is active
    sockRef,    \* Ref() minus Unref() of the socket object
    \* the kernel's side of the socket
    nonblock,   \* O_NONBLOCK of the open file, shared by all threads
    rcvq,       \* receive queue of datagrams
    overrun,    \* ENOBUFS is pending
    envCount,   \* events and foreign datagrams so far
    answered,   \* history: the messages queued in answer to each request
    \* the sockMsgReq objects
    pc,         \* where the request is
    nmsgs,      \* messages in send_queue
    hdrs,       \* sequence numbers written into those messages
    sent,       \* messages the kernel has processed
    firstSeq,   \* first_seq
    lastSeq,    \* last_seq
    incr,       \* the value self->seq++ has read
    replyQ,     \* reply_queue
    replies,    \* replies
    err,        \* err.hasErr() of the request
    cbs,        \* which of onSendCB and onReplyCB are set
    post,       \* post_recvmsg was given to uv_queue_work
    reqRef,     \* Ref() minus Unref() of the request object
    calls,      \* history: the callbacks made
    loop        \* the request whose callback the loop thread is in, or NoReq

sockVars == <<fd, sockErr, createCb, seq, listening, polling, sockRef>>
kernVars == <<nonblock, rcvq, overrun, envCount, answered>>
sendVars == <<nmsgs, hdrs, sent, firstSeq, lastSeq, incr, cbs, post>>
recvVars == <<replyQ, replies, err>>
loopVars == <<reqRef, calls, loop>>
vars == <<sockVars, kernVars, pc, sendVars, recvVars, loopVars>>

SeqNumbers == 0..(SeqSpace - 1)
Message == [src: AllReqs \cup {Env}, n: Nat, d: Nat, k: Nat,
            typ: Kinds, seq: SeqNumbers]
Datagram == [pid: {0, 1}, msgs: Seq(Message), trunc: BOOLEAN]
Reply == [msg: Message, iserr: BOOLEAN]
Call == [cb: {"send", "reply"}, err: BOOLEAN, bufs: Seq(Message)]

\* A request is at one of these points.  "free" .. "made": JavaScript owns it;
\* "queued" .. "blocked": the worker does (for the listener, the poll callback);
\* "ready": the completion is due; "cb": its callback runs; "done": finished;
\* "listen": the listener waits for the socket to become readable.
WorkerPoints == {"queued", "hdr", "last", "inc", "send", "fcntl", "recv", "blocked"}
Points == {"free", "made", "ready", "cb", "done", "listen"} \cup WorkerPoints

InFlight == {r \in Reqs : pc[r] \in WorkerPoints \cup {"ready"}}

\* The worker is inside a system call, which keeps the kernel's socket after close().
InCall(r) == pc[r] = "blocked" \/ (pc[r] = "send" /\ sent[r] > 0)

\* What a call of r leaves of the queue q when it returns: the last call on a closed
\* descriptor takes the socket and its queue with it.
LeftBy(r, q) ==
    IF fd = "closed" /\ ~\E s \in Reqs \ {r} : InCall(s) THEN <<>> ELSE q

\* JavaScript runs between callbacks and inside the callback of a request.
JsRuns == loop = NoReq \/ (loop \in AllReqs /\ pc[loop] = "cb")

-----------------------------------------------------------------------------
(* Calls from JavaScript *)

Init ==
    /\ fd = "none" /\ sockErr = FALSE /\ createCb = "none"
    /\ seq = FirstSeq
    /\ listening = FALSE /\ polling = FALSE
    /\ sockRef = 0
    /\ nonblock = FALSE /\ rcvq = <<>> /\ overrun = FALSE
    /\ envCount = 0
    /\ answered = [r \in AllReqs |-> <<>>]
    /\ pc = [r \in AllReqs |-> "free"]
    /\ nmsgs = [r \in AllReqs |-> 0]
    /\ hdrs = [r \in AllReqs |-> <<>>]
    /\ sent = [r \in AllReqs |-> 0]
    /\ firstSeq = [r \in AllReqs |-> FirstSeq]
    /\ lastSeq = [r \in AllReqs |-> FirstSeq]
    /\ incr = [r \in AllReqs |-> 0]
    /\ replyQ = [r \in AllReqs |-> <<>>]
    /\ replies = [r \in AllReqs |-> 0]
    /\ err = [r \in AllReqs |-> FALSE]
    /\ cbs = [r \in AllReqs |-> {}]
    /\ post = [r \in AllReqs |-> FALSE]
    /\ reqRef = [r \in AllReqs |-> 0]
    /\ calls = [r \in AllReqs |-> <<>>]
    /\ loop = NoReq

\* create(opts, cb): socket() may fail, leaving fd = -1; any later failure leaves
\* the descriptor open.  The error object is never built, so cb gets no argument.
Create ==
    /\ JsRuns
    /\ fd = "none"
    /\ \E failed \in BOOLEAN, failedLater \in BOOLEAN :
          /\ failed \/ failedLater => "create" \in Faults
          /\ fd' = IF failed THEN "bad" ELSE "open"
          /\ sockErr' = (failed \/ failedLater)
    /\ createCb' = "noerr"
    /\ UNCHANGED <<seq, listening, polling, sockRef, kernVars, pc, sendVars,
                   recvVars, loopVars>>

\* createMsgReq(): a fresh request copies the socket's current sequence number.
CreateMsgReq(r) ==
    /\ JsRuns
    /\ pc[r] = "free"
    /\ pc' = [pc EXCEPT ![r] = "made"]
    /\ firstSeq' = [firstSeq EXCEPT ![r] = seq]
    /\ lastSeq' = [lastSeq EXCEPT ![r] = seq]
    /\ UNCHANGED <<sockVars, kernVars, nmsgs, hdrs, sent, incr, cbs, post,
                   recvVars, loopVars>>

AddMsgToReq(r) ==
    /\ JsRuns
    /\ pc[r] = "made"
    /\ nmsgs[r] < MaxMsgs
    /\ nmsgs' = [nmsgs EXCEPT ![r] = @ + 1]
    /\ UNCHANGED <<sockVars, kernVars, pc, hdrs, sent, firstSeq, lastSeq, incr,
                   cbs, post, recvVars, loopVars>>

\* sendMsg(req, sendcb, replycb): the completion is queued only when the socket
\* is not listening at this moment.
Sendmsg(r) ==
    /\ JsRuns
    /\ pc[r] = "made"
    /\ Serial => InFlight = {}
    /\ \E mode \in CbModes : cbs' = [cbs EXCEPT ![r] = mode]
    /\ sockRef' = sockRef + 1
    /\ reqRef' = [reqRef EXCEPT ![r] = @ + 1]
    /\ post' = [post EXCEPT ![r] = ~listening]
    /\ pc' = [pc EXCEPT ![r] = "queued"]
    /\ UNCHANGED <<fd, sockErr, createCb, seq, listening, polling, kernVars,
                   nmsgs, hdrs, sent, firstSeq, lastSeq, incr, recvVars, calls,
                   loop>>

\* onRecv(replycb): references are taken first; polling an fd that is not open
\* fails and throws, keeping them.
OnRecv ==
    /\ MayListen
    /\ JsRuns
    /\ pc[Listener] = "free"
    /\ Serial => InFlight = {}
    /\ sockRef' = sockRef + 1
    /\ reqRef' = [reqRef EXCEPT ![Listener] = @ + 1]
    /\ cbs' = [cbs EXCEPT ![Listener] = {"reply"}]
    /\ firstSeq' = [firstSeq EXCEPT ![Listener] = seq]
    /\ lastSeq' = [lastSeq EXCEPT ![Listener] = seq]
    /\ listening' = (fd = "open")
    /\ polling' = (fd = "open")
    /\ pc' = [pc EXCEPT ![Listener] = IF fd = "open" THEN "listen" ELSE "done"]
    /\ UNCHANGED <<fd, sockErr, createCb, seq, kernVars, nmsgs, hdrs, sent, incr,
                   post, recvVars, calls, loop>>

\* close(): the descriptor is closed, and the kernel discards what waits in the socket
\* unless a call of a worker still holds it; the poll handle, the listening flag and
\* the workers are not told.
Close ==
    /\ MayClose
    /\ JsRuns
    /\ fd = "open"
    /\ fd' = "closed"
    /\ rcvq' = IF \E r \in Reqs : InCall(r) THEN rcvq ELSE <<>>
    /\ UNCHANGED <<sockErr, createCb, seq, listening, polling, sockRef, nonblock, overrun,
                   envCount, answered, pc, sendVars, recvVars, loopVars>>

-----------------------------------------------------------------------------
(* The worker: do_sendmsg *)

\* Variant: the completion is skipped once the socket has been closed.
FinishedUnlessClosed(r) == IF post[r] /\ fd = "open" THEN "ready" ELSE "done"

\* libuv runs post_recvmsg after do_sendmsg only when it was given one.
Finished(r) == IF post[r] THEN "ready" ELSE "done"

Fail(r) ==
    /\ err' = [err EXCEPT ![r] = TRUE]
    /\ pc' = [pc EXCEPT ![r] = Finished(r)]

\* The checks of do_sendmsg: a socket never created and an empty request fail.
DoSendmsg(r) ==
    /\ pc[r] = "queued"
    /\ \/ /\ fd = "none"
          /\ Fail(r)
          /\ UNCHANGED firstSeq
       \/ /\ fd # "none"
          /\ firstSeq' = [firstSeq EXCEPT ![r] = seq]
          /\ \/ nmsgs[r] = 0 /\ Fail(r)
             \/ nmsgs[r] > 0 /\ pc' = [pc EXCEPT ![r] = "hdr"] /\ UNCHANGED err
    /\ UNCHANGED <<sockVars, kernVars, nmsgs, hdrs, sent, lastSeq, incr, cbs, post,
                   replyQ, replies, loopVars>>

\* nlmsg_seq = self->seq
StampHeader(r) ==
    /\ pc[r] = "hdr"
    /\ hdrs' = [hdrs EXCEPT ![r] = Append(@, seq)]
    /\ pc' = [pc EXCEPT ![r] = "last"]
    /\ UNCHANGED <<sockVars, kernVars, nmsgs, sent, firstSeq, lastSeq, incr, cbs,
                   post, recvVars, loopVars>>

\* Variant: last_seq keeps the value the request was created with.
StampLastMissing(r) ==
    /\ pc[r] = "last"
    /\ incr' = [incr EXCEPT ![r] = seq]
    /\ pc' = [pc EXCEPT ![r] = "inc"]
    /\ UNCHANGED <<sockVars, kernVars, nmsgs, hdrs, sent, firstSeq, lastSeq, cbs, post,
                   recvVars, loopVars>>

\* last_seq = self->seq, and the load half of self->seq++
StampLast(r) ==
    /\ pc[r] = "last"
    /\ lastSeq' = [lastSeq EXCEPT ![r] = seq]
    /\ incr' = [incr EXCEPT ![r] = seq]
    /\ pc' = [pc EXCEPT ![r] = "inc"]
    /\ UNCHANGED <<sockVars, kernVars, nmsgs, hdrs, sent, firstSeq, cbs, post,
                   recvVars, loopVars>>

\* The store half of self->seq++ on the 32-bit counter.
IncrementSeq(r) ==
    /\ pc[r] = "inc"
    /\ seq' = (incr[r] + 1) % SeqSpace
    /\ pc' = [pc EXCEPT ![r] = IF Len(hdrs[r]) < nmsgs[r] THEN "hdr" ELSE "send"]
    /\ UNCHANGED <<fd, sockErr, createCb, listening, polling, sockRef, kernVars,
                   sendVars, recvVars, loopVars>>

\* The i-th message of r is answered with these datagrams.
Answer(r, i, shape) ==
    [d \in 1..Len(shape) |->
        [pid |-> 0, trunc |-> shape[d].trunc,
         msgs |-> [k \in 1..Len(shape[d].kinds) |->
                      [src |-> r, n |-> i, d |-> d, k |-> k,
                       typ |-> shape[d].kinds[k], seq |-> hdrs[r][i]]]]]

\* The kernel keeps what fits and reports the rest as an overrun.
Deliver(datagrams) ==
    LET q == rcvq \o datagrams IN
    /\ rcvq' = IF Len(q) <= RcvCap THEN q ELSE SubSeq(q, 1, RcvCap)
    /\ overrun' = (overrun \/ Len(q) > RcvCap)

\* sendmsg() fails as a whole, before any message is processed.
SendFails(r) ==
    /\ pc[r] = "send"
    /\ sent[r] = 0
    /\ fd \in {"bad", "closed"} \/ "send" \in Faults
    /\ Fail(r)
    /\ UNCHANGED <<sockVars, kernVars, sendVars, replyQ, replies, loopVars>>

\* Inside sendmsg() the kernel processes the next message and queues its answer.
KernelProcesses(r) ==
    /\ pc[r] = "send"
    /\ sent[r] < nmsgs[r]
    /\ fd = "open" \/ sent[r] > 0
    /\ \E shape \in Shapes :
          LET dgs == Answer(r, sent[r] + 1, shape) IN
          /\ Deliver(dgs)
          /\ answered' = [answered EXCEPT ![r] = @ \o dgs]
    /\ sent' = [sent EXCEPT ![r] = @ + 1]
    /\ UNCHANGED <<sockVars, nonblock, envCount, pc, nmsgs, hdrs, firstSeq, lastSeq,
                   incr, cbs, post, recvVars, loopVars>>

\* sendmsg() has returned: listening is read again to decide who receives.
SendReturns(r) ==
    /\ pc[r] = "send"
    /\ sent[r] = nmsgs[r]
    /\ pc' = [pc EXCEPT ![r] = IF listening THEN Finished(r) ELSE "fcntl"]
    /\ rcvq' = LeftBy(r, rcvq)
    /\ UNCHANGED <<sockVars, nonblock, overrun, envCount, answered, sendVars, recvVars,
                   loopVars>>

-----------------------------------------------------------------------------
(* do_recvmsg, on a worker and on the loop thread *)

\* Variants: the range test applied to the kernel too, with and without its end.
AcceptsOpenRange(r, dg, m) == firstSeq[r] <= m.seq /\ m.seq < lastSeq[r]
AcceptsInRange(r, dg, m) == firstSeq[r] <= m.seq /\ m.seq <= lastSeq[r]

\* The filter: only a datagram from another process is held against the
\* request's sequence numbers.
Accepts(r, dg, m) ==
    dg.pid = 0 \/ (firstSeq[r] <= m.seq /\ m.seq <= lastSeq[r])

\* A datagram that is a bare header is ignored (the test is > sizeof(nlmsghdr)).
IsBare(dg) == Len(dg.msgs) = 1 /\ dg.msgs[1].typ = "bare" /\ ~dg.trunc

\* The messages of one read that are kept.  A datagram of another process carries one
\* message here, so the filter takes or leaves a datagram as a whole.
Accepted(r, dg) ==
    IF ~IsBare(dg) /\ \A i \in 1..Len(dg.msgs) : Accepts(r, dg, dg.msgs[i])
    THEN dg.msgs ELSE <<>>

Replies(r, dg) ==
    LET ms == Accepted(r, dg) IN
    [i \in 1..Len(ms) |-> [msg |-> ms[i], iserr |-> ms[i].typ = "error"]]

\* Variant: a datagram that was cut off is logged and not marked as an error.
HasErrorRepliesOnly(r, dg) ==
    \E i \in 1..Len(Accepted(r, dg)) : Accepted(r, dg)[i].typ = "error"

HasError(r, dg) ==
    dg.trunc \/ \E i \in 1..Len(Accepted(r, dg)) : Accepted(r, dg)[i].typ = "error"

\* Variant: a read that leaves the datagram queued.
TakePeeking(r) ==
    LET dg == Head(rcvq) IN
    /\ rcvq' = rcvq
    /\ replyQ' = [replyQ EXCEPT ![r] = @ \o Replies(r, dg)]
    /\ replies' = [replies EXCEPT ![r] = @ + Len(Replies(r, dg))]
    /\ err' = [err EXCEPT ![r] = @ \/ HasError(r, dg)]

\* recvmsg() returns the first datagram and do_recvmsg parses it.
TakeDatagram(r) ==
    LET dg == Head(rcvq) IN
    /\ rcvq' = LeftBy(r, Tail(rcvq))
    /\ replyQ' = [replyQ EXCEPT ![r] = @ \o Replies(r, dg)]
    /\ replies' = [replies EXCEPT ![r] = @ + Len(Replies(r, dg))]
    /\ err' = [err EXCEPT ![r] = @ \/ HasError(r, dg)]

\* The worker sets O_NONBLOCK (the mode is called SOCKET_BLOCKING) before each read.
WorkerFcntl(r) ==
    /\ pc[r] = "fcntl"
    /\ \/ /\ fd # "open"
          /\ Fail(r)
          /\ UNCHANGED nonblock
       \/ /\ fd = "open"
          /\ nonblock' = TRUE
          /\ pc' = [pc EXCEPT ![r] = "recv"]
          /\ UNCHANGED err
    /\ UNCHANGED <<sockVars, rcvq, overrun, envCount, answered, sendVars, replyQ,
                   replies, loopVars>>

\* Variant: the worker reads the socket once.
WorkerTakesOnce(r) ==
    /\ TakeDatagram(r)
    /\ pc' = [pc EXCEPT ![r] = Finished(r)]
    /\ UNCHANGED <<sockVars, nonblock, overrun, envCount, answered, sendVars, loopVars>>

\* A worker goes round its receive loop again unless the datagram was cut off.
WorkerTakes(r) ==
    /\ TakeDatagram(r)
    /\ pc' = [pc EXCEPT ![r] = IF Head(rcvq).trunc THEN Finished(r) ELSE "fcntl"]
    /\ UNCHANGED <<sockVars, nonblock, overrun, envCount, answered, sendVars, loopVars>>

WorkerRecvError(r) ==
    /\ \/ pc[r] = "recv" /\ (fd # "open" \/ overrun)
       \/ pc[r] = "blocked" /\ overrun
    /\ Fail(r)
    /\ overrun' = (overrun /\ pc[r] = "recv" /\ fd # "open")
    /\ rcvq' = LeftBy(r, rcvq)
    /\ UNCHANGED <<sockVars, nonblock, envCount, answered, sendVars, replyQ, replies,
                   loopVars>>

WorkerRecv(r) ==
    /\ pc[r] = "recv"
    /\ fd = "open" /\ ~overrun
    /\ rcvq # <<>>
    /\ WorkerTakes(r)

\* Nothing to read: EAGAIN ends the loop; if another thread has cleared
\* O_NONBLOCK since the fcntl, the call sleeps instead.
WorkerRecvEmpty(r) ==
    /\ pc[r] = "recv"
    /\ fd = "open" /\ ~overrun
    /\ rcvq = <<>>
    /\ pc' = [pc EXCEPT ![r] = IF nonblock THEN Finished(r) ELSE "blocked"]
    /\ UNCHANGED <<sockVars, kernVars, sendVars, recvVars, loopVars>>

WorkerWakes(r) ==
    /\ pc[r] = "blocked"
    /\ rcvq # <<>> /\ ~overrun
    /\ WorkerTakes(r)

-----------------------------------------------------------------------------
(* The loop thread: completion of a request *)

\* The callback post_recvmsg chooses for a request without error.
ReplyCall(r) ==
    LET bufs == [i \in 1..Len(replyQ[r]) |-> replyQ[r][i].msg]
        nlError == \E i \in 1..Len(replyQ[r]) : replyQ[r][i].iserr
    IN  IF "reply" \in cbs[r]
        THEN <<[cb |-> "reply", err |-> nlError, bufs |-> bufs]>>
        ELSE IF "send" \in cbs[r]
        THEN <<[cb |-> "send", err |-> nlError,
                bufs |-> IF nlError THEN <<>> ELSE bufs]>>
        ELSE <<>>

\* Variant: a request that failed is not reported.
NoErrorCall(r) == <<>>

\* With an error on the request only onSendCB is considered.
ErrorCall(r) ==
    IF "send" \in cbs[r] THEN <<[cb |-> "send", err |-> TRUE, bufs |-> <<>>]>> ELSE <<>>

\* Variants: references released always, never, and twice.
ReleasedAlways(refs) == refs - 1
ReleasedNever(refs) == refs
ReleasedTwice(refs) == IF listening THEN refs ELSE refs - 2

\* Both Unref() calls of post_recvmsg are skipped while the socket listens.
Released(refs) == IF listening THEN refs ELSE refs - 1

\* post_recvmsg up to and including the start of the callback.  Without a
\* callback it runs to its end at once.
PostRecvmsg(r) ==
    LET call == IF err[r] THEN ErrorCall(r) ELSE ReplyCall(r) IN
    /\ pc[r] = "ready"
    /\ loop = IF r = Listener THEN Listener ELSE NoReq
    /\ sockRef' = Released(sockRef)
    /\ calls' = [calls EXCEPT ![r] = @ \o call]
    /\ IF err[r]
       THEN UNCHANGED <<replyQ, replies>>
       ELSE /\ replyQ' = [replyQ EXCEPT ![r] = <<>>]
            /\ replies' = [replies EXCEPT ![r] = 0]
    /\ IF call # <<>>
       THEN /\ loop' = r
            /\ pc' = [pc EXCEPT ![r] = "cb"]
            /\ UNCHANGED reqRef
       ELSE /\ loop' = NoReq
            /\ pc' = [pc EXCEPT ![r] = IF r = Listener THEN "listen" ELSE "done"]
            /\ reqRef' = [reqRef EXCEPT ![r] = Released(@)]
    /\ UNCHANGED <<fd, sockErr, createCb, seq, listening, polling, kernVars,
                   sendVars, err>>

\* The callback has returned: listening is read a second time.
PostReturns(r) ==
    /\ loop = r
    /\ pc[r] = "cb"
    /\ loop' = NoReq
    /\ pc' = [pc EXCEPT ![r] = IF r = Listener THEN "listen" ELSE "done"]
    /\ reqRef' = [reqRef EXCEPT ![r] = Released(@)]
    /\ UNCHANGED <<sockVars, kernVars, sendVars, recvVars, calls>>

-----------------------------------------------------------------------------
(* The loop thread: the poll callback on_recvmsg *)

\* A pending socket error: libuv stops the handle and on_recvmsg only logs.
PollError ==
    /\ loop = NoReq
    /\ polling /\ fd = "open" /\ overrun
    /\ polling' = FALSE
    /\ UNCHANGED <<fd, sockErr, createCb, seq, listening, sockRef, kernVars, pc,
                   sendVars, recvVars, loopVars>>

\* Readable: do_recvmsg clears O_NONBLOCK (the mode is called SOCKET_NONBLOCKING).
PollReadable ==
    /\ loop = NoReq
    /\ polling /\ fd = "open" /\ ~overrun
    /\ rcvq # <<>>
    /\ nonblock' = FALSE
    /\ loop' = Listener
    /\ pc' = [pc EXCEPT ![Listener] = "recv"]
    /\ UNCHANGED <<sockVars, rcvq, overrun, envCount, answered, sendVars, recvVars,
                   reqRef, calls>>

\* Variant: on_recvmsg reads until EAGAIN, as its comment says.
ReadAgain == "recv"

\* In this mode do_recvmsg returns false after a read, so on_recvmsg does not loop.
AfterPollRead == "ready"

\* One read, whatever it returns; on_recvmsg then calls post_recvmsg.
PollRecv ==
    /\ loop = Listener
    /\ pc[Listener] \in {"recv", "blocked"}
    /\ rcvq # <<>> /\ ~overrun
    /\ TakeDatagram(Listener)
    /\ pc' = [pc EXCEPT ![Listener] = AfterPollRead]
    /\ UNCHANGED <<sockVars, nonblock, overrun, envCount, answered, sendVars, loopVars>>

PollRecvError ==
    /\ loop = Listener
    /\ pc[Listener] \in {"recv", "blocked"}
    /\ overrun
    /\ overrun' = FALSE
    /\ err' = [err EXCEPT ![Listener] = TRUE]
    /\ pc' = [pc EXCEPT ![Listener] = "ready"]
    /\ UNCHANGED <<sockVars, nonblock, rcvq, envCount, answered, sendVars, replyQ,
                   replies, loopVars>>

\* A worker has taken the datagram in the meantime.
PollRecvEmpty ==
    /\ loop = Listener
    /\ pc[Listener] = "recv"
    /\ ~overrun
    /\ rcvq = <<>>
    /\ pc' = [pc EXCEPT ![Listener] = IF nonblock THEN "ready" ELSE "blocked"]
    /\ UNCHANGED <<sockVars, kernVars, sendVars, recvVars, loopVars>>

-----------------------------------------------------------------------------
(* The environment *)

\* A multicast event of the kernel, or a datagram of another process.
Arrives(pid, typ, s) ==
    /\ fd = "open" \/ \E r \in Reqs : InCall(r)
    /\ envCount < MaxEnv
    /\ envCount' = envCount + 1
    /\ Deliver(<<[pid |-> pid, trunc |-> FALSE,
                  msgs |-> <<[src |-> Env, n |-> envCount + 1, d |-> 1, k |-> 1,
                              typ |-> typ, seq |-> s]>>]>>)
    /\ UNCHANGED <<sockVars, nonblock, answered, pc, sendVars, recvVars, loopVars>>

EventArrives == "kernel" \in Senders /\ Arrives(0, "data", 0)

PeerSends ==
    /\ "peer" \in Senders
    /\ \E s \in {0, FirstSeq}, typ \in {"data", "bare"} : Arrives(1, typ, s)

-----------------------------------------------------------------------------

\* Everything sent is finished and the loop thread is free: the process may idle.
Quiescent ==
    /\ loop = NoReq
    /\ \A r \in Reqs : pc[r] \in {"free", "made", "done"}
    /\ UNCHANGED vars

JavaScript(r) == CreateMsgReq(r) \/ AddMsgToReq(r) \/ Sendmsg(r)

Worker(r) ==
    \/ DoSendmsg(r) \/ StampHeader(r) \/ StampLast(r) \/ IncrementSeq(r)
    \/ SendFails(r) \/ KernelProcesses(r) \/ SendReturns(r)
    \/ WorkerFcntl(r) \/ WorkerRecvError(r) \/ WorkerRecv(r)
    \/ WorkerRecvEmpty(r) \/ WorkerWakes(r)

Completion(r) == PostRecvmsg(r) \/ PostReturns(r)

Poll == PollError \/ PollReadable \/ PollRecv \/ PollRecvError \/ PollRecvEmpty

Next ==
    \/ Create \/ OnRecv \/ Close
    \/ \E r \in Reqs : JavaScript(r) \/ Worker(r)
    \/ \E r \in AllReqs : Completion(r)
    \/ Poll
    \/ EventArrives \/ PeerSends
    \/ Quiescent

Spec == Init /\ [][Next]_vars

\* libuv keeps its workers and its loop running; JavaScript, other processes and
\* the network need not do anything.
Fairness ==
    /\ \A r \in Reqs : WF_vars(Worker(r))
    /\ \A r \in AllReqs : WF_vars(Completion(r))
    /\ WF_vars(Poll)

FairSpec == Spec /\ Fairness

-----------------------------------------------------------------------------
(* Properties *)

SockTypes ==
    /\ fd \in {"none", "open", "bad", "closed"}
    /\ sockErr \in BOOLEAN /\ createCb \in {"none", "noerr", "err"}
    /\ seq \in SeqNumbers
    /\ listening \in BOOLEAN /\ polling \in BOOLEAN
    /\ sockRef \in Nat

KernTypes ==
    /\ nonblock \in BOOLEAN /\ overrun \in BOOLEAN
    /\ rcvq \in Seq(Datagram)
    /\ envCount \in Nat
    /\ answered \in [AllReqs -> Seq(Datagram)]

SendTypes ==
    /\ nmsgs \in [AllReqs -> Nat]
    /\ hdrs \in [AllReqs -> Seq(SeqNumbers)]
    /\ sent \in [AllReqs -> Nat]
    /\ firstSeq \in [AllReqs -> SeqNumbers]
    /\ lastSeq \in [AllReqs -> SeqNumbers]
    /\ incr \in [AllReqs -> SeqNumbers]
    /\ cbs \in [AllReqs -> SUBSET {"send", "reply"}]
    /\ post \in [AllReqs -> BOOLEAN]

RecvTypes ==
    /\ replyQ \in [AllReqs -> Seq(Reply)]
    /\ replies \in [AllReqs -> Nat]
    /\ err \in [AllReqs -> BOOLEAN]

LoopTypes ==
    /\ pc \in [AllReqs -> Points]
    /\ reqRef \in [AllReqs -> Nat]
    /\ calls \in [AllReqs -> Seq(Call)]
    /\ loop \in AllReqs \cup {NoReq}

\* Every variable has its type; in particular no Unref goes below zero.
TypeOK == SockTypes /\ KernTypes /\ SendTypes /\ RecvTypes /\ LoopTypes

MsgsOf(dgs) == UNION {{dgs[i].msgs[k] : k \in DOMAIN dgs[i].msgs} : i \in DOMAIN dgs}
Queued(r) == {replyQ[r][i].msg : i \in DOMAIN replyQ[r]}
BufsOf(r) == UNION {{calls[r][c].bufs[i] : i \in DOMAIN calls[r][c].bufs} :
                       c \in DOMAIN calls[r]}

\* A worker, a pending completion and an active poll handle use objects that are
\* still referenced: neither the socket nor the request can be collected under them,
\* whenever onRecv flips listening (Ref at 281-282, 326, 333; Unref at 623, 675).
RefsHeld ==
    /\ \A r \in InFlight : reqRef[r] >= 1
    /\ sockRef >= Cardinality(InFlight)
    /\ listening => sockRef > Cardinality(InFlight) /\ reqRef[Listener] >= 1

\* Until onRecv is called nothing leaks: the socket has one reference per request in
\* flight, and a finished request has none.
RefsBalanced ==
    pc[Listener] = "free" =>
        /\ sockRef = Cardinality(InFlight)
        /\ \A r \in Reqs : reqRef[r] = IF r \in InFlight \/ pc[r] = "cb" THEN 1 ELSE 0

\* A request whose completion was queued and that has a send callback is called back
\* exactly once, with or without an error, and never before its completion runs.
CalledBackOnce ==
    \A r \in Reqs :
        Len(calls[r]) = IF /\ post[r] /\ pc[r] \in {"cb", "done"}
                           /\ "send" \in cbs[r] \/ ("reply" \in cbs[r] /\ ~err[r])
                        THEN 1 ELSE 0

Before(a, b) ==
    \/ a.n < b.n
    \/ a.n = b.n /\ a.d < b.d
    \/ a.n = b.n /\ a.d = b.d /\ a.k < b.k

\* One request at a time: a callback without error gets every message the kernel
\* answered to this request, in the order it was queued, and nothing else but
\* datagrams of other processes that carry one of the request's sequence numbers.
OwnReplies ==
    \A r \in Reqs : \A c \in DOMAIN calls[r] : ~calls[r][c].err =>
        LET bufs == calls[r][c].bufs
            own == {i \in DOMAIN bufs : bufs[i].src = r}
        IN  /\ {bufs[i] : i \in own} = MsgsOf(answered[r])
            /\ \A i, j \in own : i < j => Before(bufs[i], bufs[j])
            /\ \A i \in DOMAIN bufs \ own :
                  bufs[i].src = Env /\ bufs[i].seq \in firstSeq[r]..lastSeq[r]

\* One request at a time: the messages of a request carry consecutive sequence
\* numbers from first_seq to last_seq, and no other request shares one of them.
SeqRangesDisjoint ==
    \A r \in Reqs : pc[r] \in {"fcntl", "recv", "ready", "cb", "done"} /\ hdrs[r] # <<>> =>
        /\ \A i \in DOMAIN hdrs[r] : hdrs[r][i] = firstSeq[r] + i - 1
        /\ lastSeq[r] = firstSeq[r] + Len(hdrs[r]) - 1
        /\ \A q \in Reqs \ {r} : \A i \in DOMAIN hdrs[q] :
              hdrs[q][i] \notin firstSeq[r]..lastSeq[r]

\* Every place a message is held: the kernel's queue, a reply queue, a callback.
InKernel(m) ==
    UNION {{<<Env, i, k>> : k \in {x \in DOMAIN rcvq[i].msgs : rcvq[i].msgs[x] = m}} :
              i \in DOMAIN rcvq}
InReplies(r, m) == {<<r, 0, i>> : i \in {x \in DOMAIN replyQ[r] : replyQ[r][x].msg = m}}
InCalls(r, m) ==
    UNION {{<<r, c, i>> : i \in {x \in DOMAIN calls[r][c].bufs : calls[r][c].bufs[x] = m}} :
              c \in DOMAIN calls[r]}
Holders(m) == InKernel(m) \cup UNION {InReplies(r, m) \cup InCalls(r, m) : r \in AllReqs}

\* A request that has not collected all its answers and will not do so in silence: its
\* worker still reads, or it has an error; or the socket went to a listener.
Awaits(r) ==
    pc[r] \in {"send", "fcntl", "recv", "blocked"} \/ err[r] \/ pc[Listener] # "free"

\* However workers race for the socket, an answer of the kernel is never in two places,
\* and it is lost only when close() discards the queue.  A request with an answer that
\* was lost, or that still waits in the kernel (behind a truncated read, for instance),
\* does not end without an error: success leaves nothing behind.  Which request has
\* read an answer is not said here: workers take each other's answers.
KeptOrFailed ==
    \A r \in Reqs : \A m \in MsgsOf(answered[r]) :
        /\ Cardinality(Holders(m)) <= 1
        /\ Holders(m) = {} => fd = "closed"
        /\ Holders(m) \subseteq InKernel(m) => Awaits(r)

\* The listener gets events in the order the kernel queued them, none twice.
EventsInOrder ==
    \A c1, c2 \in DOMAIN calls[Listener] :
        \A i \in DOMAIN calls[Listener][c1].bufs, j \in DOMAIN calls[Listener][c2].bufs :
            LET a == calls[Listener][c1].bufs[i]
                b == calls[Listener][c2].bufs[j]
            IN  (a.src = Env /\ b.src = Env /\ (c1 < c2 \/ (c1 = c2 /\ i < j)))
                    => a.n < b.n

\* The requests in flight that were sent before onRecv: their workers read the socket
\* while the poll callback does.
Rivals == {r \in InFlight : post[r]}

\* on_recvmsg:590 calls its read "non-blocking read on sock": the loop thread sleeps in
\* recvmsg only where a rival can have taken the datagram that made the socket readable.
LoopNeverBlocks == pc[Listener] = "blocked" => Rivals # {}

\* A sent request with a send callback is eventually called back.
SendCalledBack ==
    \A r \in Reqs : (pc[r] = "queued" /\ "send" \in cbs[r]) ~> calls[r] # <<>>

EventWaits(n) == listening /\ \E m \in MsgsOf(rcvq) : m.src = Env /\ m.n = n
EventDelivered(n) == \E r \in AllReqs : \E m \in BufsOf(r) : m.src = Env /\ m.n = n
ListenerStopped == err[Listener] \/ ~polling \/ fd = "closed"

\* While the socket listens and has no rival, an event the kernel has queued is
\* delivered to a callback, unless a read of the listener fails or brings an error, an
\* overrun stops the poll handle, or the socket is closed (on_recvmsg, post_recvmsg).
EventHeardUnlessStopped ==
    \A n \in 1..MaxEnv :
        (EventWaits(n) /\ Rivals = {}) ~> (EventDelivered(n) \/ ListenerStopped)

\* netlinksocket.cc:316-317: the reply callback of onRecv "will be called if a reply
\* is recieved(error or no error)".
EventHeard == \A n \in 1..MaxEnv : EventWaits(n) ~> EventDelivered(n)

\* The socket used one request at a time implements the service of RequestService.
ServiceStatus == [r \in Reqs |->
    IF pc[r] \in {"free", "made"} THEN "idle"
    ELSE IF r \in InFlight THEN "pending" ELSE "done"]
ServiceOutcome == [r \in Reqs |->
    IF calls[r] = <<>> THEN [kind |-> "none", msgs |-> {}]
    ELSE IF calls[r][1].err THEN [kind |-> "error", msgs |-> {}]
    ELSE [kind |-> "replies", msgs |-> {m \in BufsOf(r) : m.src # Env}]]
ServiceAnswers == [r \in Reqs |-> MsgsOf(answered[r])]
Service == INSTANCE RequestService WITH
    status <- ServiceStatus,
    answers <- ServiceAnswers,
    outcome <- ServiceOutcome
ImplementsService == Service!Spec
=============================================================================
