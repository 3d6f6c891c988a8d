# node-netkit in TLA+

TLA+ modules, TLC runs and TLAPS proofs for node-netkit, a Node.js library that
configures and watches Linux networking: a native addon (`src/*.cc`) with a netlink
socket, a TUN/TAP interface and ioctl based configuration, and JavaScript on top of it
(`ip/`, `nl/`, `nf/`, `proc/`, `lib/`). Paths in this file are relative to the
repository; `PROJECT.json` has the map from every definition to its lines.

## 1. Inventory

| Part | State | Operations | What makes it correct |
|---|---|---|---|
| Netlink socket, `src/netlinksocket.cc` | descriptor, sequence counter, `listening`, poll handle, reference counts; per request its messages, sequence range, reply queue, error, callbacks | `create`, `createMsgReq`, `addMsg`, `sendMsg`, `onRecv`, `close`; worker `do_sendmsg`/`do_recvmsg`; completion `post_recvmsg`; poll callback `on_recvmsg` | each request is called back once, with its own answers; objects in use stay referenced; events reach the listener in order |
| TUN/TAP interface, `src/tuninterface.cc`, stream in `lib/node-netkit.js` | `_if_fd`, error; per job buffer, length, errno | `create`, `open`, `close`, `_getData`, `_sendData`; `do_read`, `do_write`, `post_read`, `post_write`; `_read`, `_write` | packets once and in order, the bytes given are the bytes written, writes are reported |
| ip commands, `ip/*.js` | one socket per command, one per inquiry, the countdown of flush | `getLinks`, `getAddresses`, `getRoutes`, `address`, `route`, `neighbor`, `link`, `addrlabel`, `addIPv6Neighbor` | one callback per call, sockets closed, lists complete, flush empties |
| Monitors, `ip/netevent.js`, `proc/nlprocess.js` | subscribed socket, array of links | `onNetworkChange`, `onProcessChange` | no event lost when a request becomes a listener, names right |
| Interface configuration, `src/network.cc` | sticky error, interface index, flags read | `assignAddress`, `assignRoute`, `initIfFlags`, `setIfFlags`, `unsetIfFlags` | success means everything was done, the addresses of a call go to one interface, the interface is not left down |
| rtnetlink messages, `nl/rtnetlink.js` | buffer and offset | `buildRtattrBuf`, `parseRtattributes`, `parseAttrs` | the parser reads lengths at headers only and finds what was put in |
| netfilter commands, `nf/nfcommand.js`, `nf/nlnetfilter.js`, `nl/nfnetlink.js` | one socket and request per command | `command`, `netfilterSend`, `sendNetfilterCommand`, `generateNetfilterResponse` | one callback, socket closed, the kernel does what the name says |
| netfilter language, `nf/node-netfilter.js` (generated from `.pegjs`), `nf/nftables.js` | `payload_len`, `ipfamily` of the parser | the `peg$parse` functions and their actions; tables of offsets and attributes | no alternative hides the one that was meant; a rule is compiled to expressions that mean what is written |
| netfilter attributes, `nf/nfattributes.js`, `nf/nfattr.js`, reading half of `nl/nfnetlink.js` | attribute array | `parseNfAttrs`, `updateNestHdrLen`, `setBuffer`, `writeAttributes`, `parseAttrs` | nest lengths cover exactly what is inside; a listed rule comes back |
| netlink requests, `nl/netlink.js` | none of its own | `sendNetlinkCommand`, `sendNetlinkRequest` | part of the callers' actions |
| packing, colours, logging, error texts | none | conversions | not modelled, see section 7 |

How they interact: every JavaScript layer makes a `NetlinkSocket`, calls `create`,
builds a message (`rtnetlink`, `nfattributes`), sends it and gets one callback on the
loop thread. The monitors then turn the same socket into a listener with `onRecv`. The
TUN stream shares libuv's pool with everything else. Interface configuration is
synchronous and shares only the kernel with the rest.

What is hard here: worker threads and the loop thread use one socket object without a
lock; `listening` is read in four places while `onRecv` may change it; answers, events
and datagrams of other processes share one receive queue; a read holds a pool thread
until a packet comes; the kernel changes between two requests of one call; some error
paths go on after they have reported. `PROJECT.json` lists these hazards by line.

## 2. Modules

`NetlinkSocket` is the core. Its variables are the fields of `NetlinkSocket` and
`sockMsgReq`, the kernel's receive queue and histories of answers and callbacks. `pc[r]`
is where request `r` is: `made`, in a worker (`queued` ... `recv`, `blocked`), `ready`
for its completion, in its callback (`cb`), `done`. Steps are split where another thread
can see the difference: the load and the store of `seq`, the `fcntl` and the `recvmsg` of
`do_recvmsg`, the two reads of `listening` in `post_recvmsg`, the body of a JavaScript
callback. The kernel (external) answers a message before `sendmsg` returns, and may drop
what does not fit its queue (`overrun`).

`RequestService` is what the JavaScript layers rely on: a request sent alone completes
once, with an error or with exactly the answers to it. `NetlinkSocket!ImplementsService`
instantiates it with a refinement mapping: the points of `pc` become three states, the
answers a set, the first callback an outcome.

`TunInterface` has the interface, its jobs, libuv's queue and pool, and the stream. The
kernel's part is the descriptor table of the process (other code opens files in it) and
the device's packets. A buffer is a sequence of offsets, so that `out` shows which bytes
were handed over.

`IpCommands` has calls made concurrently. A request is what `RequestService` promises of
it. The forEach of `flush` is the only JavaScript step that is split, because each of its
commands looks the interface up in the kernel.

`NetEvent` has one monitor of any kind: the request, the collecting worker, the hand-over
to `onRecv`, and the deliveries.

`InterfaceConfig` turns a call into its program of system calls; other processes may act
between any two.

`RtAttributes` builds a message attribute by attribute and then parses it, by offsets.

`NfCommand` has commands from the parsed text to the callback, with tables, chains and
rules of each family in the kernel.

Four modules follow the text of one command. `NfTables` is the part of `nf/nftables.js`
that commands use. `NfGrammar` keeps the grammar as data, one definition per rule
(`family`, `number`, `rule_expression`, ...); `Match` interprets it as PEG.js does, with
ordered choice, greedy repetition and actions that run even if an outer rule fails later,
and `Value` has the semantic actions. `NfAttributes` turns the parameters into the
attribute array. `NfRule` composes them: a command the caller means is spelled (tight,
with wide spacing, or with one lexeme missing), parsed, sent, read by the kernel along
the length fields, run on packets, and listed back through `parseAttrs`. A text is a
sequence of lexemes, not of characters.

`MCNetlinkSocket`, `MCIpCommands`, `MCInterfaceConfig`, `MCNfCommand` and `MCNfRule` hold
constants for TLC. Eight modules hold the proofs: `NetlinkSocketProofs`,
`NetlinkQueueProofs` (on top of it), `TunInterfaceProofs`, `IpCommandsProofs`,
`InterfaceConfigProofs`, `RtAttributesProofs`, `NetEventProofs` and `NfCommandProofs`.
Definitions marked "Variant" are plausible slips of the code next to the definition they
would replace; the `mutants` of `PROJECT.json` use them to show that each property can
fail.

## 3. Runs

| Run | Shows |
|---|---|
| `NL_serial` | Two requests one after the other, up to two messages each, with send errors, a datagram of another process and requests with one or both callbacks. `OwnReplies`, `SeqRangesDisjoint`, and the refinement `ImplementsService`. |
| `NL_concurrent` | Two requests racing on one socket, a truncated dump, a failed create, close at any moment. No answer is in two places, none is lost before `close` discards the queue, and a request with an answer that was lost or left behind has an error (`KeptOrFailed`); references balance, every request is called back once (`CalledBackOnce`, `SendCalledBack`). |
| `NL_listen` | `onRecv` at any moment, with a request in flight or sent later, error replies, overruns, close. `RefsHeld`, `EventsInOrder`, and, without a worker that still reads the socket (`Rivals`), the loop thread never sleeps in `recvmsg` and delivers every event until the listener stops. |
| `NLV_event_heard` | Violation. After one error reply no event reaches the listener. |
| `TUN_interface` | `create`, `open`, `close`, the stream and direct calls in any order, failing calls, writes with and without a failure callback, reused descriptor numbers, two workers. `StreamInOrder`, `PacketOnce`, `OutIsBuffer`, `ReportedIsWritten`, `WriteReported`. |
| `IP_calls` | Two concurrent calls of every function while the kernel changes, with arguments that are refused early, late or by an exception. `OneCallback`, `SocketsClosed`, `Answered` for orderly calls; `ListComplete` and `FlushEmpties` for what reports success. |
| `IF_config` | Jobs of every function, also with parts the code passes over, every refused system call and changes by another process. `SuccessIsComplete`, `OneInterface` (all the addresses of a call go to one interface, although another may get its name in between), `StaysUp`. |
| `RT_parse` | Every message type `parseRtattributes` supports but the two below, up to three attributes, data of 0 to 7 bytes. |
| `RTV_delneigh` | Violation. A `RTM_DELNEIGH` message is parsed from four bytes before its first attribute. |
| `EV_monitor` | Every kind of monitor, three changes at any time of its start. `NoneMissed` asks for every event the caller wanted (`Wanted`, the name), not for those that pass the code's filter; what the code overlooks is named by `Overlooked`. `LinkAccounted`, `NameAsLabeled`, `MonitorListens`. |
| `NF_commands` | Two commands at once, every pair of operation and type, both families, every consistent kernel. `OverIsClean`, `EffectAsNamed` (the kernel holds exactly what the name of the command says, `Meant`, but for the two commands of `Misnamed`), `NfAnswered`. |
| `NF_rule` | About 4000 texts: every operation, hook and family, rules of one and two criteria, well formed and with one lexeme missing. The ordered choice hides no reading of a text (`ChoiceLosesNothing`), the kernel finds what was written (`KernelReadsCommand`), a rule gives each packet the verdict its text promises (`RuleMeansAsWritten`), a listed rule comes back whole (`ListedBack`). |

**Bounds.** Two requests are what a race needs; the invariants that must hold for more
are proved for any number. `SeqSpace = 8` with `FirstSeq = 3` holds every number the
requests use without wrapping; the counter starts at the time of day, so a wrap of 2^32
is out of reach of a process. `RcvCap = 2` in `NL_listen` makes overruns happen, three
events then suffice for a loss between two others. One listening request keeps the
liveness check small; `RefsHeld` for several is a theorem. Two pool threads, two reads
and one write let reads fill the pool. Three descriptors (0, the device, one other) are
enough to reuse a number. Two addresses are what the countdown of `flush` needs, one
change is enough to take the interface away inside its forEach. Three attributes let one
be first, inner and last; lengths 0, 1, 4 and 7 cover the residues that padding tells
apart at both ends. One table in each of two families is
what a wrong family needs. Names of two, three and four letters give each amount of
padding but one, and a list with user data of 4 or 5 bytes, or none, ends with and without
padding. Two criteria are enough for the first to leave `payload_len` behind for the
second. The criteria have values at the limits of their fields, prefixes of 0, 8, 23 and
32 bits and, apart from these, values the compiler gets wrong; the packets lie on both
sides of every well formed criterion. A sum such as `updateNestHdrLen`'s sees nests that
follow, enclose and are enclosed in each rule.

`CHECK_DEADLOCK FALSE` is set where the system may stop: an application that has made its
calls, a listener with no events, a read that waits for a packet, a finished parse.

**Fairness.** `NetlinkSocket`: weak fairness of each worker, each completion and the poll
callback, because libuv runs queued work and its loop; nothing is assumed of JavaScript,
of other processes or of events. `TunInterface`: the pool starts jobs, workers and the
loop go on; packets need not arrive. `IpCommands`: the kernel answers requests and
callbacks run, which is what `RequestService` promises. `NetEvent`, `NfCommand`,
`RtAttributes`: the one thread of each goes on. `InterfaceConfig` and `NfRule` have no
liveness property and no fairness.

## 4. Proofs

Every theorem holds for all values of the constants that satisfy the named assumptions of
the component's module (names apart, finite sets, types of the constants) and for any
number of steps. A row that needs more says so. Each proof has one inductive invariant,
one lemma per group of actions, and frame lemmas for the actions that leave a conjunct
alone.

### The netlink socket

| Theorem | States | Needs |
|---|---|---|
| `TypeCorrect` | `Spec => []TypeOK`; with `Nat` reference counts, no `Unref` goes below zero | |
| `RefsHeldAlways` | objects used by a worker, a completion or the poll handle are referenced, whenever `onRecv` flips `listening` | |
| `RefsBalancedAlways` | until `onRecv`, exactly one reference per request in flight | |
| `CalledBackOnceAlways` | a request with a completion is called back exactly once | |
| `LoopNeverBlocksAlways` | the loop thread sleeps in `recvmsg` only while a request sent before `onRecv` is in flight | |
| `EventsInOrderAlways` | the listener gets events in order and none twice, overruns included | |
| `KeptOrFailedAlways` | an answer is in at most one of the queue, the reply queues and the callbacks; it is lost only on a closed socket; a request with an answer that was lost or still waits reads on or has an error, unless a listener took the socket over | `NoBareAnswer`, `AlwaysCallback`, `[]~overrun` |
| `SeqRangesDisjointAlways` | a request has consecutive numbers that no other request shares | `Serial`, `[]NoWrap` |
| `OwnRepliesAlways` | a callback without error has every answer to its request, in order, and besides only datagrams of other processes under one of the request's numbers | `OneAtATime`, `NoBareAnswer`, `AlwaysCallback`, `[]~overrun` |
| `ServiceImplemented` | the socket implements `RequestService!Safety`: each step is a `Send`, a `Serve`, a `Complete` or a stutter | `OneAtATime`, `NoBareAnswer`, `SendCallback`, `[]~overrun` |

`TypeOK` is not inductive: that a reference count stays natural needs that the object is
referenced before it is released. The invariant is
`IInv == TypeOK /\ ListenInv /\ SendInv /\ RefInv`. `ListenInv`: the listener request is
active exactly while the socket listens. `SendInv`: headers are stamped one by one, and
only stamped messages reach the kernel, so that an answer has a sequence number. `RefInv`:
`RefsHeld`, and a request in its callback still has its own reference, which the second
reading of `listening` then releases or keeps. `CalledBackOnce` and `RefsBalanced` need
`PostInv` too: what is ready or in a callback had a completion queued.

`NetlinkQueueProofs` follows a message from the kernel to a callback. Its base is
`QueueFrame`, the five ways in which a step can touch a message, and one lemma about what
each of them does to positions (`DeliverIs`, `TakeIs`, `PostIs`, `AnswerIs`,
`ArrivesIs`). `RivalInv`: a worker that receives was sent before `onRecv`, and what
empties the queue under the poll callback is such a worker. `EventOrder`: events are
numbered as they come; the queue, the reply queue of the listener and its calls keep that
order, and each of the three is older than the one before it. `KeptInv`: an answer has
at most one place (`OnePlace`), and exactly one until the socket is closed (`Kept`), no
place has an answer to a message the kernel has not processed, and `do_recvmsg` drops no
datagram with an answer. `ReadOrAwaited`: an answer has been read by some request, or the
request it answers still reads, has an error, or shares the socket with a listener; a
read loop ends without an error only on an empty queue. The three hypotheses are
the ways in which the code does drop answers: a bare header, a request without a
callback, a queue that overflows. `SeqInv`: at most one request is in flight, its numbers
follow each other up to the counter, all others are older. `NoWrap` says that the 32-bit
counter, which starts at the time of day, is not incremented past its end.

`OwnReplies` is about a socket as the JavaScript layers use it. `OneAtATime` collects what
that means: `sendMsg` only with no request in flight, no `onRecv`, no multicast group
(`"kernel" \notin Senders`), and no answer that is cut off (`NoTrunc`). The last two are
needed because `do_recvmsg` takes whatever the kernel sends for its own: after a truncated
read the rest of the answer stays queued and the next request would get it. `close` and
failing system calls are allowed at any time. The property itself is not inductive; it
follows from `OwnInv`, whose parts are

- `KeptInv`: no answer is lost while the socket is open;
- `AnswerOrder`: two answers to one request are in the order the kernel gave them, within
  a buffer, within the queue, and between what was read and what still waits (`Earlier`);
- `Traced`: what is held of a request was answered to it;
- `SerialInv`: one request is in flight, one that has not sent has read nothing, a worker's
  read does not sleep, and a request with a callback without error has no error and no
  replies left;
- `QueueOwned`: the queue has answers only to a request that will still read it, or to one
  that failed on a socket that is closed for good. This is what makes the next request
  start with a clean queue;
- `Owned`: what a request has read is its own, or came from another process under one of
  its numbers; these do not change once it has read something (`RangeFrame`).

`ServiceImplemented` uses `OwnReplies` in the state after a completion: the buffers without
the foreign datagrams are then the abstract `answers[r]`. A request must have a send
callback (`SendCallback`), because a request with only a reply callback hears nothing of an
error. That a pending request completes is the other half of `RequestService!Spec`
(`Completes`) and is checked by TLC.

### The other components

| Theorem | States | Needs |
|---|---|---|
| `OutIsBufferAlways`, `ReportedIsWrittenAlways` | a write hands over the bytes of its buffer in order and reports as many as it handed over, with the exceptions of section 5 | |
| `StreamInOrderAlways` | the stream pushes packets in the order of arrival, whatever else reads, closes and creates | |
| `PacketOnceAlways` | a packet is got by at most one read, and by one or none yet while the first device exists | |
| `OneCallbackAlways`, `SocketsClosedAlways` | an orderly call is called back once, when it is over, and leaves no socket open | `AddressCreates` |
| `ListCompleteAlways` | a list that reports success has every matching object that existed throughout and that `ip/ipparse.js` can package (`Listable`) | |
| `FlushEmptiesAlways` | after a successful flush only refused deletes and newcomers are left | |
| `OneInterfaceAlways` | the addresses one call adds and removes are those of one interface | |
| `StaysUpAlways` | `assignAddress` leaves an interface up that was up | |
| `SuccessIsCompleteAlways` | a call that reports success, was not disturbed and has no part that is passed over has done all it was asked to do and nothing else | |
| `RtTypeCorrect`, `HeadersOnlyAlways`, `FoundSoFarAlways` | the parser stands on headers and has stored what it has passed, the last of each type | `NoNeighDel` (the last two) |
| `NoneMissedAlways` | an event after the hand-over that the caller asked for waits or is reported, unless it is `Overlooked` | |
| `LinkAccountedAlways` | a listening monitor of links knows every link or has an event for it | |
| `NameAsLabeledAlways` | an event is reported under the name its interface had, if it was not renamed | |
| `OverIsCleanAlways` | a netfilter command that is over has closed its socket and called back once | |
| `EffectAsNamedAlways` | an accepted command other than `del table` and `flush chain` changes what the kernel holds exactly as it is called; those two touch nothing but the named table of the named family | |

`TunInterfaceProofs`. `Pool` says which jobs are where. `WriteInv` adds `Bytes`: `out` is
as long as `written` and, after at most one partial write, the start of the buffer, since
`boff` is then where the next byte lies. `OrderInv` adds `DevOrder` (what waits in the
device is in order and came after all that was taken), `GotOnce` (two reads never have the
same packet) and `PushOrder` (what was pushed is in order and older than what the stream's
read holds). `Origin` says that while the first device exists every packet waits or was
got.

`IpCommandsProofs`. `CourseInv`: an inquiry and a command have one request at a time, and
the countdown `togo` of a flush is the number of addresses still to come in its forEach
plus the deletes under way, which is why the last of them, and only that, calls back.
`SeenInv`: what existed throughout is in what the kernel has answered so far. `EndsInv`:
the two properties, and which socket is open for which request. `AddressCreates` leaves out a failed create in
`address` and its flush, which then goes on after it has reported (`ip/addr.js:47`); the
native `create` never reports an error, and the run `IP_calls` has the same restriction.

`InterfaceConfigProofs`. `KernRecord` gives the kernel its fields; `UpInv` says that while
an `assignAddress` has the interface down, it has not returned and its program still has
the step that raises the interface, also after an error. `DoneInv` says that a call
without error is still going to do what it was asked to: what is left of the program leads
from the interface as it is to `Asked(job, base)`. `Achieves` puts that by position: an
address or a route is wanted exactly if a step that is left adds it, or it is there and no
step that is left drops it. `MacFlags` and `SetFlags` follow the flags between the step
that reads them and the one that writes them; `ProgInv` has the order of these steps. The
assumptions `JobNames`, `AddressJobs`, `RouteJobs` and `FlagJobs` of `InterfaceConfig` give
the types of the fields of a job; the lists in it may have any length. An entry of a list
that is passed over is a step `pass` that does nothing; `UnderstoodAsAsked` says that what the code
reads of a job without such parts (`Understood`) is `Asked`. `HitInv`: once an address was
changed the number in use is the one it was changed under, and no step that forgets it is
left, because `MtuSteps`, the only one to do so, comes first (`ForgetFirst`).

`RtAttributesProofs`. The invariant adds `Layout`: attributes lie back to back from the
struct to the end, and no header lies between a header and its end. `NoNeighDel` leaves
out message types 29 and 30, for which the table `payload_sizes` is wrong;
`RTV_delneigh` shows what happens there.

`NetEventProofs`. `EventInv`: what waits or was collected is the answer or an event of the
log, and nothing but events is left once the answer is in. `MissInv` adds `Handled`: an
event of the subscribed groups waits, or was reported exactly if it passes the code's
filter (`Applies`). `NoneMissed` follows with `AnswerKnown` (the links array has the
interfaces of the answer) and the names of `LabelInv`: an event for the caller that is not
`Overlooked` is subscribed to and passes the filter. `AccountInv` adds `Awaited`: while the answer is read, every link is in a message that
was or will be collected, or that waits for `onRecv`. `LabelInv` adds `Consistent`: all
that is said of an interface that was not renamed, in the log, in answers and in the array
of links, is one name.

`NfCommandProofs`. The invariant says that the request under way is that of the command
that was given, that nothing is called back before the answer, and `OverIsClean`.
`BatchEffect` then compares the one object a batch adds or deletes with `Meant`.

### Only model-checked

- What happens eventually (`SendCalledBack`, `EventHeardUnlessStopped`, `WriteReported`,
  `Answered`, `MonitorListens`, `ParseTerminates`, `NfAnswered`): fairness is beyond the
  prover.
- Of the refinement `ImplementsService`, that a pending request completes (`Completes`),
  for the same reason; its safety part is `ServiceImplemented`.
- The netfilter language: it is recursive (`Match`, `Ends`, `parseNfAttrs`, `ReadAttrs`,
  `parseAttrs`), which is beyond the prover. `NfRule` checks it against reference
  definitions (`Derivable`, `Meaning`) over bounded texts.

## 5. Findings

Two disagreements have a run of their own:

- `NLV_event_heard` (`src/netlinksocket.cc:630`): the error of the listener request is
  never cleared. `netlinksocket.cc:316` promises the reply callback "error or no error".
- `RTV_delneigh` (`nl/rtnetlink.js:597`): `payload_sizes` has no entries for the gaps in
  the type numbers, so `RTM_DELNEIGH` gets the size of another type.

The model follows the code in these as well, and the properties name the exception:

| Where | What the code does | How the model treats it |
|---|---|---|
| `netlinksocket.cc:563`, 667 | an error reply calls the send callback although a reply callback was given; the comment at 260-262 says that the reply callback is used | `HasError`, `ErrorCall`; `CalledBackOnce` asks for one callback, whichever |
| `netlinksocket.cc:387` | `close` discards answers that no worker has read yet; the request ends with an error | `Close`, `LeftBy`; `fd = "closed"` in `KeptOrFailed` |
| `netlinksocket.cc:292` | `sendMsg` on a listening socket never calls back | `post[r]` in `CalledBackOnce`, `Finished` |
| `netlinksocket.cc:546` | the sequence filter never applies to the kernel, so a worker takes answers of other requests | `Accepts`; `OwnReplies` is for one request at a time, and `KeptOrFailed` does not say which request has read an answer |
| `netlinksocket.cc:425` | two workers may read the same `seq` | `StampHeader`, `IncrementSeq`; `SeqRangesDisjoint` is for one request at a time |
| `netlinksocket.cc:507` | the blocking modes are inverted, the loop thread can sleep when a worker takes its datagram | `Rivals` in `LoopNeverBlocks` |
| `netlinksocket.cc:209` | `create` never passes an error | `Create`; the next request fails |
| `netlinksocket.cc:387` | `close` does not release requests sent while listening | `RefsBalanced` is for sockets that do not listen |
| `tuninterface.cc:377` | after a second partial write the buffer pointer is off (`buf += written`) | `Advance`; `partial[j] <= 1` in `OutIsBuffer` |
| `tuninterface.cc:368` | with descriptor 0 a write does nothing and reports its full length | `ReportedLength`; exception in `ReportedIsWritten` |
| `tuninterface.cc:346`, 401 | a write whose third parameter is not a function reports success only: when it fails nothing is called | `failCb`; `Unheard` in `WriteReported` |
| `tuninterface.cc:428`, 53 | `close` keeps the number; a failed `create` closes descriptor 0 | `stray` |
| `ip/ipparse.js:225`, 116 | a route without `RTA_OIF` throws while it is packaged; the exception is logged and the route is missing from the list or the events | `packageInfo`, `Packaged`; `Listable`, `Overlooked` |
| `ip/ipparse.js:241` | a neighbour in state `noarp` is not listed or reported | `packageInfo`, `Packaged`; `Listable`, `Overlooked` |
| `ip/route.js:218`, 245; `ip/neighbor.js:288`; `libs/common.js:55` | an `inetdest` or `inetsrc` that is null, missing or not a string is a TypeError: no callback, and past the creation of the socket the socket stays open | `NoBytes`, `BuilderThrows`, `isaddressThrows`; not `Orderly` |
| `ip/addr.js:154` | `flush` drops the errors of its deletes | `refused[o]` in `FlushEmpties` |
| `ip/addr.js:47` | `address` goes on after a failed create | `CreateReport`; `CreateFails` leaves `address` out |
| `ip/neighbor.js:193`, 220 | an accepted `addIPv6Neighbor` is never called back and keeps its socket | not `Orderly` |
| `ip/addrlabel.js:177`, `ip/route.js:120` | `addrlabel` throws; an unknown operation is not answered | not `Orderly` |
| `src/network.cc:502` | a `via_network` with a mask is refused | `maskedgw` fails |
| `src/network.cc:773-797` | the description has `inet4`, `addr_add`, `addr_remove` and null for removal; the code reads none of them and reports success | `unread`; `PassedOver` in `SuccessIsComplete` |
| `src/network.cc:920` | an `inet6.addr` of up to four characters (`::1`) is ignored with success | `Short`; `PassedOver` |
| `src/network.cc:975-1050` | an element of `add_addr` or `remove_addr` that is not a string is passed over with success | `NoAddr` in a list; `PassedOver` |
| `src/network.cc:1165-1201` | a route without `dest`, metric or a way to go, or without Uint32 flags unless it is deleted, is passed over with success | `Complete`; `PassedOver` |
| `ip/netevent.js:88` | the links array is never updated: addresses, routes and neighbours of a link that is newer than the answer, or that was renamed, are dropped or reported under the old name | `renamed` in `NameAsLabeled`; `Overlooked` in `NoneMissed` |
| `proc/nlprocess.js:62` | of the process events only fork, exec, exit and uid are reported | `Applies`; `Overlooked` |
| `ip/netevent.js:51` | `rt.RTNLGRP_IPV4_ROUTE` is undefined: IPv4 routes are not heard | `Groups` against `Wanted`; `Overlooked` |
| `nf/nfcommand.js:52` | "del table" runs on into "flush" and deletes the rules of the table, not the table | `SetCmd`; `Misnamed` in `EffectAsNamed` |
| `nf/nfcommand.js:58` | "flush chain" is sent as `NFT_MSG_DELCHAIN`: the chain is deleted, and one with rules is refused | `SetCmd`; `Misnamed` in `EffectAsNamed` |
| `nf/node-netfilter.js:417` | a hexadecimal number keeps its first digit only (`join` puts commas between) | `HexValue`; `AsWritten` asks for one digit |
| `nf/node-netfilter.js` (`prot`) | the IP protocol is looked for in the transport header | `transport_header`; not `AsWritten` |
| `nf/node-netfilter.js` (`ipfamily`) | no text changes `ipfamily`: a rule for `ip6` is compiled with IPv4 offsets, an IPv6 address and an address without a prefix throw | `ipfamily`, `Action`; `cmd.fam # "ip6"` in `RuleMeansAsWritten`, `HasBuffer` |
| `nf/node-netfilter.js` (`cidr`) | a network with host bits is compared unmasked and never matches | `RuleParams`; not `AsWritten` |
| `nf/nfattr.js:145` | a number wider than its field is sent as bytes that were never written | `GenericBytes` with any garbage; not `HasBuffer` |
| `nf/nfattr.js` (64 bit numbers) | `val << 32` is `val`: both halves are the same | `NumberBytes`; no command sends one |
| `nl/nfnetlink.js:289` | an attribute that fills the rest of the message is returned as its header | `parseAttrs`; `ListedBack` |
| `nl/nfnetlink.js:226` | the answer to "list table" is a TypeError | `ResponseThrows`; `thrown` in `NfAnswered` |

## 6. Plan

Done, in this order: `NetlinkSocket` with `RequestService`, its proofs, `TunInterface`,
`IpCommands`, `InterfaceConfig`, `RtAttributes` with its proofs, `NetEvent`, `NfCommand`,
then the netfilter language: `NfTables`, `NfGrammar`, `NfAttributes`, `NfRule`, and
families in `NfCommand`.

The invariants and action properties of all components but the netfilter language then got
their proofs, `SuccessIsComplete`, `OwnReplies` and the refinement of `RequestService` last.

What would come next: `NetEvent` composed with the socket of `NetlinkSocket` in place of its
queue, and a form of the netfilter grammar without recursive operators, about which more
could be proved.

## 7. Not modelled

- `NetlinkSocket`: `stopRecv` (always throws), a second `onRecv` (undefined in libuv),
  the size of libuv's pool, reuse of the descriptor number after `close`, garbage
  collection itself (the reference counts are there), datagrams with a broken tail.
- `TunInterface`: the property accessors. A read error makes the callback of `_doRead`
  throw; in the model the stream then waits for ever.
- `IpCommands`: an address without `IFA_ADDRESS`, which the kernel does not send; the text of results; `show` of `link` has the control of a list.
- `InterfaceConfig`: a socket that cannot be created is a refused first ioctl. Changing
  flags is read-modify-write and can lose another process's change, which is allowed.
- `NetEvent`: the answer to `GETLINK` is one datagram; an unknown event type returns
  silently; a neighbour message is one whose attributes parse: the broken parsing of
  `delNeighbor` is left to `RtAttributes`. What changed before the monitor subscribed is in
  the initial state.
- `NfCommand`: one chain and one rule per table.
- `NfGrammar`: names with characters that are in no lexeme; `sport`, which no rule of the
  grammar reaches; the positions and texts of syntax errors. The model is of the generated
  parser: `node-netfilter.pegjs` has since diverged from it (a parser generated anew would
  throw on `familiy` and on the missing `cmn.dbg`).
- `NfAttributes`: a nest beyond 65535 bytes throws in `writeUInt16LE`; attributes that no
  command has (counters, logs, sets, ...), which are tables only.
- `NfRule`: what `parseAttrs` makes of the inside of the expressions.
- Stateless or third-party code: the tables of constants of `nf/nftables.js` that no
  command uses, `libs/bufferpack.js` and `libs/colors.js`, `nl/netutils.js`, error texts, name
  and index lookups, the vendored logging client.
