------------------------------ MODULE NetEvent ------------------------------
(***************************************************************************)
(* The monitors of node-netkit: onNetworkChange (ip/netevent.js) and       *)
(* onProcessChange (proc/nlprocess.js).                                    *)
(*                                                                         *)
(* A monitor creates a socket that is subscribed to event groups, sends    *)
(* one request on it (RTM_GETLINK, or PROC_CN_MCAST_LISTEN), and calls     *)
(* onRecv in the callback of that request.  Events arrive on the socket    *)
(* from the moment it exists, so the worker thread that collects the       *)
(* answer also collects the events that come before it returns, and the    *)
(* callback takes them for links.                                          *)
(*                                                                         *)
(* The socket is a queue of datagrams, one message each; what reading it   *)
(* does is the subject of NetlinkSocket.  The kernel is external.          *)
(***************************************************************************)
EXTENDS Naturals, Sequences, FiniteSets, SequencesExt

CONSTANTS
    Idx,         \* interface numbers; a number is never used again
    Names,       \* interface names
    NoName,      \* no interface has this number
    AnyName,         \* no ifname given to onNetworkChange
    EventTypes,  \* the monitors that may be started
    CreateFails, \* the socket may not be created
    MaxEvents    \* bound: changes the kernel announces

\* Routes: IPv6, IPv4, and IPv6 without RTA_OIF.  Neighbours: any, and in state noarp.
Kinds == {"newLink", "delLink", "address", "route6", "route4", "noOif", "neigh", "noarp",
          "proc", "procOther"}
LinkKinds == {"newLink", "delLink"}
ProcKinds == {"proc", "procOther"}

ASSUME NamesOK == NoName \notin Names /\ AnyName \notin Names /\ AnyName # NoName
ASSUME MonitorsOK ==
    EventTypes \subseteq {"all", "link", "address", "route", "neigh", "process"}
ASSUME BoundsOK == MaxEvents \in Nat /\ CreateFails \in BOOLEAN

VARIABLES
    \* the kernel
    links,     \* name of every interface number, NoName when it does not exist
    old,       \* interface numbers that have existed
    renamed,   \* interface numbers whose name has changed
    log,       \* every change so far
    \* the monitor
    kind,      \* event_type, or "process"
    ifname,    \* the filter
    phase,     \* "start", "asked", "reading", "replied", "listening" or "failed"
    queue,     \* messages waiting in the socket
    absorbed,  \* messages the worker collected with the answer
    known,     \* the links array: the name each of its entries has for a number, or NoName
    from,      \* length of log when the monitor began to listen
    reported,  \* callbacks with an event
    errors     \* callbacks with an error

vars == <<links, old, renamed, log, kind, ifname, phase, queue, absorbed, known, from, reported, errors>>
kernel == <<links, old, renamed, log>>

\* make_group(undefined) is 1 << NaN, which is 1: a group name that rtnetlink.js
\* does not define subscribes to RTN_GRP_LINK.  RTNLGRP_IPV4_ROUTE is one.
Groups(t) ==
    CASE t = "all"     -> LinkKinds \cup {"address", "route6", "noOif", "neigh", "noarp"}
      [] t = "link"    -> LinkKinds
      [] t = "address" -> {"address"}
      [] t = "route"   -> LinkKinds \cup {"route6", "noOif"}
      [] t = "neigh"   -> LinkKinds \cup {"neigh", "noarp"}
      [] t = "process" -> ProcKinds

\* The events that the caller of a monitor asked for, by its event_type.
Wanted(t) ==
    CASE t = "all"     -> LinkKinds \cup {"address", "route6", "route4", "noOif", "neigh", "noarp"}
      [] t = "link"    -> LinkKinds
      [] t = "address" -> {"address"}
      [] t = "route"   -> {"route6", "route4", "noOif"}
      [] t = "neigh"   -> {"neigh", "noarp"}
      [] t = "process" -> ProcKinds

Exists(i) == links[i] # NoName
Subscribed == phase \notin {"start", "failed"}

Init ==
    /\ links \in {f \in [Idx -> Names \cup {NoName}] :
                    \A i, j \in Idx : f[i] = f[j] => i = j \/ f[i] = NoName}
    /\ old = {i \in Idx : links[i] # NoName}
    /\ renamed = {}
    /\ log = <<>>
    /\ kind \in EventTypes
    /\ ifname \in (IF kind = "process" THEN {AnyName} ELSE Names \cup {AnyName})
    /\ phase = "start"
    /\ queue = <<>> /\ absorbed = <<>> /\ known = <<>>
    /\ from = 0
    /\ reported = <<>>
    /\ errors = 0

-----------------------------------------------------------------------------
(* The kernel. *)

\* A change is announced to the sockets of its group.  What changed before the monitor
\* was started is in the initial state.
Announce(k, i, n) ==
    LET e == [id |-> Len(log) + 1, kind |-> k, idx |-> i, name |-> n]
    IN  /\ Subscribed /\ Len(log) < MaxEvents
        /\ log' = Append(log, e)
        /\ queue' = IF k \in Groups(kind) THEN Append(queue, e) ELSE queue
        /\ UNCHANGED <<kind, ifname, phase, absorbed, known, from, reported, errors>>

LinkAdded(i, n) ==
    /\ i \notin old /\ \A j \in Idx : links[j] # n
    /\ links' = [links EXCEPT ![i] = n]
    /\ old' = old \cup {i}
    /\ UNCHANGED renamed
    /\ Announce("newLink", i, n)

LinkRenamed(i, n) ==
    /\ Exists(i) /\ \A j \in Idx : links[j] # n
    /\ links' = [links EXCEPT ![i] = n]
    /\ renamed' = renamed \cup {i}
    /\ UNCHANGED old
    /\ Announce("newLink", i, n)

LinkRemoved(i) ==
    /\ Exists(i)
    /\ links' = [links EXCEPT ![i] = NoName]
    /\ UNCHANGED <<old, renamed>>
    /\ Announce("delLink", i, links[i])

\* An address, route or neighbour of an interface, or a process.
Changed(k, i) ==
    /\ Exists(i) \/ k \in ProcKinds
    /\ k \in Wanted(kind)
    /\ UNCHANGED <<links, old, renamed>>
    /\ Announce(k, i, links[i])

-----------------------------------------------------------------------------
(* The monitor. *)

\* socket.create() and the request, handed to a worker.  A socket that could
\* not be created is not reported as such: the request on it fails.
Start ==
    /\ phase = "start"
    /\ phase' = "asked"
    /\ UNCHANGED <<kernel, kind, ifname, queue, absorbed, known, from, reported, errors>>

\* The request fails: the caller is told.
Fail ==
    /\ phase = "asked" /\ CreateFails
    /\ phase' = "failed"
    /\ errors' = errors + 1
    /\ queue' = <<>>
    /\ UNCHANGED <<kernel, kind, ifname, absorbed, known, from, reported>>

\* The kernel answers inside sendmsg, behind the events that are queued.
Ask ==
    /\ phase = "asked"
    /\ phase' = "reading"
    /\ queue' = Append(queue, [id |-> 0, kind |-> "reply", dump |-> links])
    /\ UNCHANGED <<kernel, kind, ifname, absorbed, known, from, reported, errors>>

\* The worker reads until the socket would block.
Collect ==
    /\ phase = "reading" /\ queue # <<>>
    /\ absorbed' = Append(absorbed, Head(queue))
    /\ queue' = Tail(queue)
    /\ UNCHANGED <<kernel, kind, ifname, phase, known, from, reported, errors>>

Collected ==
    /\ phase = "reading" /\ queue = <<>>
    /\ phase' = "replied"
    /\ UNCHANGED <<kernel, kind, ifname, queue, absorbed, known, from, reported, errors>>

\* Only the answer to GETLINK is parsed.
EntriesOfReply(m) == IF m.kind = "reply" THEN m.dump ELSE [i \in Idx |-> NoName]

\* links[i] = parseRtattributes(bufs[i]): the name of every number that a message has,
\* whether it belongs to the answer or is the event of a link.
Entries(m) ==
    IF m.kind = "reply" THEN m.dump
    ELSE [i \in Idx |-> IF m.kind \in LinkKinds /\ i = m.idx THEN m.name ELSE NoName]

\* The callback of the request: the links are remembered and onRecv is called.
Listen ==
    /\ phase = "replied"
    /\ known' = [j \in 1..Len(absorbed) |-> Entries(absorbed[j])]
    /\ phase' = "listening"
    /\ from' = Len(log)
    /\ UNCHANGED <<kernel, kind, ifname, queue, absorbed, reported, errors>>

\* The comparison of the numbers is left out.
LinkNameFirst(i) ==
    LET f == known[SelectInSeq(known, LAMBDA g : \E k \in Idx : g[k] # NoName)]
    IN  f[CHOOSE k \in Idx : f[k] # NoName]

\* getLinkFromIndex: the first entry with that number, or undefined.
HasLink(i) == \E j \in 1..Len(known) : known[j][i] # NoName
LinkName(i) == known[SelectInSeq(known, LAMBDA f : f[i] # NoName)][i]

\* The name under which an event is packaged.  A link event carries its own.
NameOf(e) == IF e.kind \in LinkKinds THEN e.name ELSE LinkName(e.idx)

\* packageInfoRoute throws without RTA_OIF, packageInfo* on an unknown link, and the
\* error is swallowed; packageInfoNeighbor returns nothing for noarp.
Packaged(e) == e.kind \in LinkKinds \/ (e.kind \notin {"noOif", "noarp"} /\ HasLink(e.idx))

\* parseAttributes with the ifname filter, or processProcEvent.
Applies(e) ==
    IF kind = "process" THEN e.kind = "proc"
    ELSE Packaged(e) /\ (ifname = AnyName \/ ifname = NameOf(e))

CallbackOf(e) ==
    [id |-> e.id, name |-> IF kind = "process" THEN NoName ELSE NameOf(e)]

\* The socket is read until it would block and only the first buffer is parsed.
DeliverDrained ==
    /\ phase = "listening" /\ queue # <<>>
    /\ queue' = <<>>
    /\ reported' = IF Applies(Head(queue)) THEN Append(reported, CallbackOf(Head(queue))) ELSE reported
    /\ UNCHANGED <<kernel, kind, ifname, phase, absorbed, known, from, errors>>

\* The socket is not watched again after the first event.
DeliverOnce ==
    /\ phase = "listening" /\ queue # <<>> /\ reported = <<>>
    /\ queue' = Tail(queue)
    /\ reported' = IF Applies(Head(queue)) THEN Append(reported, CallbackOf(Head(queue))) ELSE reported
    /\ UNCHANGED <<kernel, kind, ifname, phase, absorbed, known, from, errors>>

\* The callback of onRecv: one datagram for each time the socket is readable.
Deliver ==
    /\ phase = "listening" /\ queue # <<>>
    /\ queue' = Tail(queue)
    /\ reported' = IF Applies(Head(queue)) THEN Append(reported, CallbackOf(Head(queue))) ELSE reported
    /\ UNCHANGED <<kernel, kind, ifname, phase, absorbed, known, from, errors>>

Monitor == Start \/ Fail \/ Ask \/ Collect \/ Collected \/ Listen \/ Deliver

Kernel ==
    \/ \E i \in Idx, n \in Names : LinkAdded(i, n) \/ LinkRenamed(i, n)
    \/ \E i \in Idx : LinkRemoved(i)
    \/ \E i \in Idx, k \in Kinds \ LinkKinds : Changed(k, i)

Next == Monitor \/ Kernel

\* The event loop and the worker keep running.
Spec == Init /\ [][Next]_vars /\ WF_vars(Monitor)

-----------------------------------------------------------------------------
Events == UNION {{log[j]} : j \in 1..Len(log)}
WasReported(e) == \E j \in 1..Len(reported) : reported[j].id = e.id
IsQueued(e) == \E j \in 1..Len(queue) : queue[j] = e
WasAbsorbed(e) == \E j \in 1..Len(absorbed) : absorbed[j] = e

\* The kernel's answer to GETLINK had the interface i.
Answered(i) ==
    \E j \in 1..Len(absorbed) : absorbed[j].kind = "reply" /\ absorbed[j].dump[i] # NoName

\* An event the caller asked for: of the type, and of the interface that has the name.
ForCaller(e) == e.kind \in Wanted(kind) /\ ifname \in {AnyName, e.name}

\* The events that are not reported although they are for the caller (README, section 5):
\* IPv4 routes, routes without RTA_OIF, neighbours in state noarp and process events
\* other than fork, exec, exit and uid; and the addresses, routes and neighbours of an
\* interface that is newer than the answer to GETLINK, or was renamed.
Overlooked(e) ==
    \/ e.kind \in {"route4", "noOif", "noarp", "procOther"}
    \/ e.kind \in {"address", "route6", "neigh"} /\ (~Answered(e.idx) \/ e.idx \in renamed)

\* Once a monitor listens, an event for its caller is in the socket or has been
\* reported, unless it is of those that are overlooked: the hand-over from the request
\* to onRecv loses nothing that comes after it, and each readable socket is answered
\* by one read (onNetworkChange, onProcessChange).
NoneMissed ==
    phase = "listening" =>
      \A e \in Events :
        e.id > from /\ ForCaller(e) /\ ~Overlooked(e) => IsQueued(e) \/ WasReported(e)

\* A monitor of link events knows every link that exists, or its caller has
\* been or will be told of it: a link that appears while the GETLINK request
\* is under way is not lost between the answer and onRecv (onNetworkChange).
LinkAccounted ==
    phase = "listening" /\ LinkKinds \subseteq Groups(kind) =>
      \A i \in Idx : Exists(i) =>
         \/ HasLink(i)
         \/ \E e \in Events : /\ e.kind = "newLink" /\ e.idx = i
                              /\ IsQueued(e) \/ WasReported(e) \/ ~Applies(e)

\* An event is reported under the name that its interface had when it
\* happened, as long as the interface keeps the name it had when the links were
\* collected (packageInfoAddress, packageInfoRoute, packageInfoNeighbor).
NameAsLabeled ==
    \A j \in 1..Len(reported) :
       LET e == log[reported[j].id]
       IN  kind # "process" /\ e.idx \notin renamed => reported[j].name = e.name

\* A monitor that is started comes to listen or reports one error, and then
\* empties its socket whenever the kernel is quiet: no event waits for ever
\* (onNetworkChange, onProcessChange).
MonitorListens ==
    <>[]((phase = "failed" /\ errors = 1) \/ (phase = "listening" /\ queue = <<>>))
=============================================================================
