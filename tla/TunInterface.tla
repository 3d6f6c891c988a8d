---------------------------- MODULE TunInterface ----------------------------
(***************************************************************************)
(* The native TUN/TAP interface of node-netkit (src/tuninterface.cc, .h)   *)
(* and the stream over it (lib/node-netkit.js).                            *)
(*                                                                         *)
(* JavaScript creates, opens and closes the interface and queues reads and *)
(* writes; libuv workers run do_read and do_write, a read sleeping in a    *)
(* worker until a packet arrives; the loop thread runs the completions in  *)
(* the order in which the workers finished.  The kernel (external) keeps   *)
(* the process's descriptor table, in which other code of the process      *)
(* opens files, and the packets of the device.                             *)
(***************************************************************************)
EXTENDS Naturals, Sequences, FiniteSets, FiniteSetsExt

CONSTANTS
    Reads,       \* read jobs (readReq)
    Writes,      \* write jobs (writeReq)
    Threads,     \* size of libuv's pool
    MaxFd,       \* bound: largest descriptor number
    MaxPackets,  \* bound: packets that arrive
    BufLen,      \* length of a buffer given to _sendData
    MaxPartial,  \* bound: write() calls of a job that take less than asked
    MaxCreates,  \* bound: calls of create()
    Faults,      \* what may fail: "open", "ioctl", "write"
    MayClose,    \* JavaScript calls close()
    MayOpenFiles,\* other code of the process opens a file
    RawJobs,     \* the jobs JavaScript may queue with _getData and _sendData itself
    NoJob        \* the stream has no read outstanding

Jobs == Reads \cup Writes

ASSUME JobsDisjoint == Reads \cap Writes = {} /\ NoJob \notin Jobs
ASSUME TunBoundsNat ==
    /\ Threads \in Nat /\ MaxFd \in Nat /\ MaxPackets \in Nat /\ BufLen \in Nat
    /\ MaxPartial \in Nat /\ MaxCreates \in Nat
ASSUME TunSwitchesType ==
    /\ Faults \subseteq {"open", "ioctl", "write"}
    /\ MayClose \in BOOLEAN /\ MayOpenFiles \in BOOLEAN /\ RawJobs \subseteq Jobs

VARIABLES
    files,     \* kernel: what each descriptor of the process refers to
    ifFd,      \* _if_fd
    hasErr,    \* err.hasErr()
    creates,   \* calls of create() so far
    dev,       \* kernel: packets waiting in the device
    arrived,   \* packets that have arrived so far
    queue,     \* libuv: jobs waiting for a worker
    doneq,     \* libuv: finished jobs waiting for the loop thread
    jpc,       \* where a job is
    jerr,      \* _errno of the job
    got,       \* what a read job has put in its buffer
    written,   \* written of do_write
    boff,      \* buf - _backing of do_write
    partial,   \* write() calls of the job that were partial
    out,       \* history: buffer offsets handed to the device, in order
    stray,     \* history: a file that is not the device was written, read or closed
    failCb,    \* onSendFailureCB of a write is not empty
    told,      \* history: what the callback of a job was given
    stream,    \* the TunInterfaceStream exists
    reading,   \* the read job the stream waits for, or NoJob
    pushed,    \* packets pushed into the stream
    threw      \* the read callback threw

devVars == <<files, dev, arrived>>
ifVars == <<ifFd, hasErr, creates>>
poolVars == <<queue, doneq>>
jobVars == <<jerr, got, written, boff, partial, out>>
jsVars == <<failCb, told, stream, reading, pushed, threw>>
tunVars == <<devVars, ifVars, poolVars, jpc, jobVars, stray, jsVars>>

Descriptors == 0..MaxFd
Nothing == 0       \* a read that took no packet
Garbage == MaxPackets + 1   \* bytes that no read() put there
Untold == [len |-> 0, data |-> Nothing, err |-> FALSE, made |-> FALSE]

FreeFds == {f \in Descriptors : files[f] = "free"}
Running == {j \in Jobs : jpc[j] \in {"running", "checked", "reading"}}
Sleeping == {j \in Reads : jpc[j] = "reading"}
DeviceExists == (\E f \in Descriptors : files[f] = "tun") \/ Sleeping # {}

\* The device and its packets go away with the last reference to its file.
DeviceAfter(fs, sleepers, packets) ==
    IF (\E f \in Descriptors : fs[f] = "tun") \/ sleepers # {} THEN packets ELSE <<>>

-----------------------------------------------------------------------------
(* JavaScript *)

Init ==
    /\ files = [f \in Descriptors |-> IF f = 0 THEN "std" ELSE "free"]
    /\ ifFd = 0 /\ hasErr = FALSE /\ creates = 0
    /\ dev = <<>> /\ arrived = 0
    /\ queue = <<>> /\ doneq = <<>>
    /\ jpc = [j \in Jobs |-> "idle"]
    /\ jerr = [j \in Jobs |-> FALSE]
    /\ got = [j \in Reads |-> Nothing]
    /\ written = [j \in Writes |-> 0]
    /\ boff = [j \in Writes |-> 0]
    /\ partial = [j \in Writes |-> 0]
    /\ out = [j \in Writes |-> <<>>]
    /\ stray = FALSE
    /\ failCb = [j \in Writes |-> TRUE]
    /\ told = [j \in Jobs |-> Untold]
    /\ stream = FALSE /\ reading = NoJob /\ pushed = <<>> /\ threw = FALSE

\* create() with open() failing.
CreateOpenFails ==
    /\ "open" \in Faults
    /\ ifFd' = 0
    /\ hasErr' = TRUE
    /\ UNCHANGED <<files, dev, stray>>

\* create() with TUNSETIFF failing, as it does while the named device exists: _if_fd
\* is reset before it is closed, so descriptor 0 is closed and the new one is lost.
CreateIoctlFails ==
    /\ FreeFds # {}
    /\ DeviceExists \/ "ioctl" \in Faults
    /\ files' = [files EXCEPT ![Min(FreeFds)] = "clone", ![0] = "free"]
    /\ dev' = DeviceAfter(files', Sleeping, dev)
    /\ stray' = (stray \/ files[0] \in {"std", "other"})
    /\ ifFd' = 0
    /\ hasErr' = TRUE

CreateSucceeds ==
    /\ FreeFds # {}
    /\ ~DeviceExists
    /\ files' = [files EXCEPT ![Min(FreeFds)] = "tun"]
    /\ ifFd' = Min(FreeFds)
    /\ hasErr' = FALSE
    /\ UNCHANGED <<dev, stray>>

Create ==
    /\ creates < MaxCreates
    /\ creates' = creates + 1
    /\ CreateOpenFails \/ CreateIoctlFails \/ CreateSucceeds
    /\ UNCHANGED <<arrived, poolVars, jpc, jobVars, jsVars>>

\* open(): _if_fd > 0 is all that is asked.
Open ==
    /\ ifFd > 0
    /\ ~stream
    /\ stream' = TRUE
    /\ UNCHANGED <<devVars, ifVars, poolVars, jpc, jobVars, stray, failCb, told, reading,
                   pushed, threw>>

\* close(): _if_fd keeps its value.
Close ==
    /\ MayClose
    /\ \/ /\ ifFd > 0
          /\ files' = [files EXCEPT ![ifFd] = "free"]
          /\ dev' = DeviceAfter(files', Sleeping, dev)
          /\ stray' = (stray \/ files[ifFd] = "other")
          /\ UNCHANGED hasErr
       \/ /\ ifFd = 0
          /\ hasErr' = TRUE
          /\ UNCHANGED <<files, dev, stray>>
    /\ UNCHANGED <<ifFd, creates, arrived, poolVars, jpc, jobVars, jsVars>>

Enqueue(j) ==
    /\ jpc[j] = "idle"
    /\ jpc' = [jpc EXCEPT ![j] = "queued"]
    /\ queue' = Append(queue, j)
    /\ UNCHANGED <<devVars, ifVars, doneq, jobVars, stray, told, stream, pushed, threw>>

\* _getData called by JavaScript itself.
GetData(j) ==
    /\ j \in RawJobs
    /\ Enqueue(j)
    /\ UNCHANGED <<failCb, reading>>

\* _read: Readable asks again only when the last chunk has been pushed.
StreamRead(j) ==
    /\ stream /\ reading = NoJob
    /\ Enqueue(j)
    /\ reading' = j
    /\ UNCHANGED failCb

\* _sendData.  The stream's _write passes a failure callback; JavaScript itself may
\* pass as third parameter something that is not a function.
SendData(j) ==
    /\ Enqueue(j)
    /\ \/ stream /\ failCb' = [failCb EXCEPT ![j] = TRUE]
       \/ j \in RawJobs /\ \E b \in BOOLEAN : failCb' = [failCb EXCEPT ![j] = b]
    /\ UNCHANGED reading

-----------------------------------------------------------------------------
(* libuv's workers *)

\* A free worker takes the oldest job.
WorkerStarts ==
    /\ queue # <<>>
    /\ Cardinality(Running) < Threads
    /\ jpc' = [jpc EXCEPT ![Head(queue)] = "running"]
    /\ queue' = Tail(queue)
    /\ UNCHANGED <<devVars, ifVars, doneq, jobVars, stray, jsVars>>

Finish(j) ==
    /\ jpc' = [jpc EXCEPT ![j] = "posted"]
    /\ doneq' = Append(doneq, j)

\* do_read without an interface: the job keeps the length that was asked for, and
\* whatever malloc left in the buffer.
DoReadUnopened(j) ==
    /\ jpc[j] = "running"
    /\ ifFd = 0
    /\ got' = [got EXCEPT ![j] = Garbage]
    /\ Finish(j)
    /\ UNCHANGED <<devVars, ifVars, queue, jerr, written, boff, partial, out, stray, jsVars>>

\* do_read has seen a descriptor; read() loads it again.
DoReadChecks(j) ==
    /\ jpc[j] = "running"
    /\ ifFd > 0
    /\ jpc' = [jpc EXCEPT ![j] = "checked"]
    /\ UNCHANGED <<devVars, ifVars, poolVars, jobVars, stray, jsVars>>

\* read() on the device sleeps until there is a packet.
DoRead(j) ==
    /\ jpc[j] = "checked"
    /\ files[ifFd] = "tun"
    /\ jpc' = [jpc EXCEPT ![j] = "reading"]
    /\ UNCHANGED <<devVars, ifVars, poolVars, jobVars, stray, jsVars>>

\* The number is by now that of a closed descriptor, or of another file.
DoReadStale(j) ==
    LET foreign == files[ifFd] \in {"other", "std"} IN
    /\ jpc[j] = "checked"
    /\ files[ifFd] # "tun"
    /\ jerr' = [jerr EXCEPT ![j] = ~foreign]
    /\ got' = [got EXCEPT ![j] = IF foreign THEN Garbage ELSE Nothing]
    /\ stray' = (stray \/ foreign)
    /\ Finish(j)
    /\ UNCHANGED <<devVars, ifVars, queue, written, boff, partial, out, jsVars>>

\* Variant: the reads in flight share one buffer.
ReadReturnsShared(j) ==
    /\ jpc[j] = "reading"
    /\ dev # <<>>
    /\ got' = [i \in Reads |-> IF i \in Sleeping THEN Head(dev) ELSE got[i]]
    /\ dev' = DeviceAfter(files, Sleeping \ {j}, Tail(dev))
    /\ Finish(j)
    /\ UNCHANGED <<files, arrived, ifVars, queue, jerr, written, boff, partial, out, stray,
                   jsVars>>

\* read() returns the oldest packet.
ReadReturns(j) ==
    /\ jpc[j] = "reading"
    /\ dev # <<>>
    /\ got' = [got EXCEPT ![j] = Head(dev)]
    /\ dev' = DeviceAfter(files, Sleeping \ {j}, Tail(dev))
    /\ Finish(j)
    /\ UNCHANGED <<files, arrived, ifVars, queue, jerr, written, boff, partial, out, stray,
                   jsVars>>

\* Variant: the pointer does not advance.
AdvanceNot(j, n) == boff[j]

\* buf += written, after written += ret.
Advance(j, n) == boff[j] + written[j] + n

\* do_write has seen a descriptor and enters its loop.
DoWriteChecks(j) ==
    /\ jpc[j] = "running"
    /\ ifFd > 0
    /\ jpc' = [jpc EXCEPT ![j] = "checked"]
    /\ UNCHANGED <<devVars, ifVars, poolVars, jobVars, stray, jsVars>>

\* One write() of the loop, on the descriptor _if_fd has now, takes n bytes.
DoWrite(j, n) ==
    /\ jpc[j] = "checked"
    /\ written[j] < BufLen
    /\ files[ifFd] \in {"tun", "other", "std"}
    /\ n \in 1..(BufLen - written[j])
    /\ n < BufLen - written[j] => partial[j] < MaxPartial
    /\ partial' = [partial EXCEPT ![j] = IF n < BufLen - written[j] THEN @ + 1 ELSE @]
    /\ IF files[ifFd] = "tun"
       THEN /\ out' = [out EXCEPT ![j] = @ \o [i \in 1..n |-> boff[j] + i]]
            /\ UNCHANGED stray
       ELSE stray' = TRUE /\ UNCHANGED out
    /\ written' = [written EXCEPT ![j] = @ + n]
    /\ boff' = [boff EXCEPT ![j] = Advance(j, n)]
    /\ UNCHANGED <<devVars, ifVars, poolVars, jpc, jerr, got, jsVars>>

DoWriteFails(j) ==
    /\ jpc[j] = "checked"
    /\ written[j] < BufLen
    /\ files[ifFd] \in {"free", "clone"} \/ "write" \in Faults
    /\ jerr' = [jerr EXCEPT ![j] = TRUE]
    /\ Finish(j)
    /\ UNCHANGED <<devVars, ifVars, queue, got, written, boff, partial, out, stray, jsVars>>

\* Without an interface do_write does nothing and the job keeps its full length.
DoWriteEnds(j) ==
    /\ \/ jpc[j] = "running" /\ ifFd = 0
       \/ jpc[j] = "checked" /\ written[j] = BufLen
    /\ Finish(j)
    /\ UNCHANGED <<devVars, ifVars, queue, jobVars, stray, jsVars>>

-----------------------------------------------------------------------------
(* Completions on the loop thread *)

\* Variant: a chunk that push() declined is pushed again.
PushedTwice(j) == IF got[j] = Nothing THEN <<>> ELSE <<got[j], got[j]>>

\* buf.slice(0, readsize), when something was read.
Pushed(j) == IF got[j] = Nothing THEN <<>> ELSE <<got[j]>>

\* post_read and the callback of _doRead: an error calls the error object, which is
\* not a function.
PostRead(j) ==
    /\ doneq # <<>> /\ Head(doneq) = j
    /\ doneq' = Tail(doneq)
    /\ jpc' = [jpc EXCEPT ![j] = "done"]
    /\ told' = [told EXCEPT ![j] = [len |-> IF got[j] = Nothing THEN 0 ELSE 1,
                                    data |-> got[j], err |-> jerr[j], made |-> TRUE]]
    /\ IF reading = j /\ Pushed(j) # <<>>
       THEN pushed' = pushed \o Pushed(j) /\ reading' = NoJob
       ELSE UNCHANGED <<pushed, reading>>
    /\ threw' = (threw \/ (reading = j /\ jerr[j]))
    /\ UNCHANGED <<devVars, ifVars, queue, jobVars, stray, failCb, stream>>

\* Variant: the length asked for is reported whatever write() took.
WholeLength(j) == BufLen

\* job->len: the bytes counted, or the whole length when do_write did nothing.
ReportedLength(j) == IF written[j] = 0 /\ ~jerr[j] THEN BufLen ELSE written[j]

\* Variant: a failure is not reported.
PostWriteSuccessOnly(j) ==
    /\ doneq # <<>> /\ Head(doneq) = j
    /\ doneq' = Tail(doneq)
    /\ jpc' = [jpc EXCEPT ![j] = "done"]
    /\ told' = [told EXCEPT ![j] = [len |-> ReportedLength(j), data |-> Nothing,
                                    err |-> FALSE, made |-> ~jerr[j]]]
    /\ UNCHANGED <<devVars, ifVars, queue, jobVars, stray, failCb, stream, reading, pushed,
                   threw>>

\* A write that failed and has no failure callback.
Unheard(j) == jerr[j] /\ ~failCb[j]

\* post_write: the success or the failure callback, with the amount written; nothing
\* is called when the failure callback is empty.
PostWrite(j) ==
    /\ doneq # <<>> /\ Head(doneq) = j
    /\ doneq' = Tail(doneq)
    /\ jpc' = [jpc EXCEPT ![j] = "done"]
    /\ told' = [told EXCEPT ![j] = [len |-> ReportedLength(j), data |-> Nothing,
                                    err |-> jerr[j], made |-> ~Unheard(j)]]
    /\ UNCHANGED <<devVars, ifVars, queue, jobVars, stray, failCb, stream, reading, pushed,
                   threw>>

-----------------------------------------------------------------------------
(* The environment *)

PacketArrives ==
    /\ DeviceExists
    /\ arrived < MaxPackets
    /\ arrived' = arrived + 1
    /\ dev' = Append(dev, arrived + 1)
    /\ UNCHANGED <<files, ifVars, poolVars, jpc, jobVars, stray, jsVars>>

\* Other code of the process opens a file and gets the lowest free descriptor.
OtherOpens ==
    /\ MayOpenFiles
    /\ FreeFds # {}
    /\ \A f \in Descriptors : files[f] # "other"
    /\ files' = [files EXCEPT ![Min(FreeFds)] = "other"]
    /\ UNCHANGED <<dev, arrived, ifVars, poolVars, jpc, jobVars, stray, jsVars>>

-----------------------------------------------------------------------------

ReadWorker(j) ==
    DoReadUnopened(j) \/ DoReadChecks(j) \/ DoRead(j) \/ DoReadStale(j) \/ ReadReturns(j)
WriteWorker(j) ==
    \/ DoWriteChecks(j) \/ DoWriteFails(j) \/ DoWriteEnds(j)
    \/ \E n \in 1..BufLen : DoWrite(j, n)
TunLoop == (\E j \in Reads : PostRead(j)) \/ (\E j \in Writes : PostWrite(j))

Next ==
    \/ Create \/ Open \/ Close
    \/ \E j \in Reads : GetData(j) \/ StreamRead(j) \/ ReadWorker(j)
    \/ \E j \in Writes : SendData(j) \/ WriteWorker(j)
    \/ WorkerStarts \/ TunLoop
    \/ PacketArrives \/ OtherOpens

TunSpec == Init /\ [][Next]_tunVars

\* The pool and the loop keep running; packets need not arrive.
TunFairness ==
    /\ WF_tunVars(WorkerStarts)
    /\ WF_tunVars(TunLoop)
    /\ \A j \in Reads : WF_tunVars(ReadWorker(j))
    /\ \A j \in Writes : WF_tunVars(WriteWorker(j))

TunFairSpec == TunSpec /\ TunFairness

-----------------------------------------------------------------------------
(* Properties *)

\* What the stream has pushed, what its read job holds and what waits in the device are
\* packets in the order of their arrival, whatever other reads, close and create do
\* (do_read, post_read, _doRead).
StreamInOrder ==
    LET held == IF reading # NoJob /\ got[reading] # Nothing THEN <<got[reading]>> ELSE <<>>
        all == pushed \o held \o dev
    IN  \A i, k \in DOMAIN all :
           i < k /\ all[i] # Garbage /\ all[k] # Garbage => all[i] < all[k]

\* Two reads in flight never get the same packet, and as long as the first device
\* exists every packet that has arrived waits in it or was got by one read.
PacketOnce ==
    \A p \in 1..arrived :
        LET n == Cardinality({j \in Reads : got[j] = p})
                   + Cardinality({i \in DOMAIN dev : dev[i] = p})
        IN  n <= 1 /\ (creates = 1 /\ DeviceExists => n = 1)

\* tuninterface.cc:375: "record number of bytes written": while a job has had at most
\* one partial write(), what do_write hands to the device are the first bytes of the
\* buffer, in order.
OutIsBuffer ==
    \A j \in Writes : ~stray /\ partial[j] <= 1 => out[j] = [i \in 1..Len(out[j]) |-> i]

\* tuninterface.cc:393: "first param to call back is always amount of bytes written",
\* unless do_write found no descriptor and did nothing.
ReportedIsWritten ==
    \A j \in Writes :
        told[j].made /\ ~stray /\ (written[j] > 0 \/ jerr[j]) => told[j].len = Len(out[j])

\* A write that was queued is eventually reported, although a read of the same interface
\* may sleep in a worker for ever, unless reads sleep in all of them; only a failed write
\* that was given no failure callback is not (_sendData, do_write, post_write).
WriteReported ==
    \A j \in Writes :
        jpc[j] = "queued" ~> (told[j].made \/ Unheard(j) \/ Cardinality(Sleeping) = Threads)
=============================================================================
