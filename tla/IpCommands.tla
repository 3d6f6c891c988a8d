----------------------------- MODULE IpCommands -----------------------------
(***************************************************************************)
(* The ip commands of node-netkit (ip/ipcommand.js, addr.js, addrlabel.js, *)
(* route.js, neighbor.js, link.js) as calls that an application has open   *)
(* at the same time.                                                       *)
(*                                                                         *)
(* JavaScript runs one step at a time: the body of a call up to its first  *)
(* request, or the callback of one request.  The only step that is split   *)
(* is the forEach of flush, because each of its commands asks the kernel   *)
(* for the interface and the interface may go away in between.  A netlink  *)
(* request is what RequestService promises of it: it completes once, with  *)
(* an error or with the kernel's answer.                                   *)
(*                                                                         *)
(* The kernel (external) holds links <<i, Link>> and addresses <<i, a>>.   *)
(* Routes and neighbours are listed in the same way as addresses, so that  *)
(* for a call about them <<i, a>> is a route or a neighbour; those of      *)
(* Unpacked are the ones ip/ipparse.js cannot package.  The commands that  *)
(* set them only differ in whether the kernel accepts them.                *)
(***************************************************************************)
EXTENDS Naturals, Sequences, FiniteSets

CONSTANTS
    Ops,          \* the calls the application makes
    Ifs,          \* interfaces
    Addrs,        \* addresses (or routes, neighbours) of an interface
    Unpacked,     \* the routes without RTA_OIF and the neighbours in state 'noarp'
    Link,         \* second component of the object that is the link itself
    AnyIf,        \* no interface given: list everything
    Idle,         \* no call is inside its forEach
    NoCall,       \* the call has not been made
    Calls,        \* the functions and argument classes the application uses
    CreateFails,  \* the functions whose socket.create() may call back with an error
    Refusals,     \* the requests the kernel or the socket may fail
    MaxChanges    \* bound: changes to the kernel's tables by others

Fns == {"getLinks", "list", "listRoutes", "show", "flush",
        "route", "neighbor", "link", "address", "addIPv6Neighbor", "addrlabel"}

\* Argument classes.  "bad": rejected before a socket exists.  "unsupported":
\* the operation is not known.  "late": address() finds its addr missing after
\* it has created the socket.  "badaddr": the command cannot be built.
\* "notstring": the address is something else than a string.  "noaddr": route()
\* and neighbor() are given no inetdest, or route() an inetsrc without bytes.
Args == {"good", "bad", "unsupported", "late", "badaddr", "notstring", "noaddr"}

Cmds == {"getlink", "get", "set", "del"}
Objects == Ifs \X (Addrs \cup {Link})

ASSUME NamesApart == Link \notin Addrs /\ AnyIf \notin Ifs /\ Idle \notin Ops
ASSUME FiniteTables == IsFiniteSet(Ifs) /\ IsFiniteSet(Addrs) /\ Unpacked \subseteq Addrs
ASSUME CallsType == Calls \subseteq [fn: Fns, arg: Args] /\ NoCall \notin [fn: Fns, arg: Args]
ASSUME SwitchType == CreateFails \subseteq Fns /\ Refusals \subseteq Cmds /\ MaxChanges \in Nat

VARIABLES
    \* the kernel
    kern,     \* links and addresses that exist
    changes,  \* changes made by others so far
    \* one call of the application
    call,     \* the function called and its argument class
    iface,    \* the ifname argument
    own,      \* the socket of the command: "none", "open", "failed" or "closed"
    inq,      \* the socket of sendInquiry
    reqs,     \* its requests that have not called back
    snap,     \* the links the kernel answered to its GETLINK
    dump,     \* the objects the kernel answered to its second request
    found,    \* what the inquiry reported
    todo,     \* flush: the keys forEach has not come to
    togo,     \* flush: keysToGo
    cbs,      \* the calls of the application's callback
    thrown,   \* an exception left the library
    js,       \* the call whose forEach is running, or Idle
    \* history
    kept,     \* objects that have existed all the time since the call
    fresh,    \* objects that appeared since the call
    refused   \* flush: the keys whose command failed

kernVars == <<kern, changes, kept, fresh>>
callVars == <<call, iface>>
flushVars == <<todo, togo, js, refused>>
vars == <<kern, changes, call, iface, own, inq, reqs, snap, dump, found,
          todo, togo, cbs, thrown, js, kept, fresh, refused>>

Request == [cmd: Cmds, key: Objects \cup {NoCall}, st: {"sent", "ok", "err"}]
SockStates == {"none", "open", "failed", "closed"}
Exists(i) == <<i, Link>> \in kern
Outstanding(o) == reqs[o] # {} \/ js = o
Ask(cmd, key) == [cmd |-> cmd, key |-> key, st |-> "sent"]

-----------------------------------------------------------------------------
(* The application calls *)

Init ==
    /\ kern \in {ks \in SUBSET Objects : \A x \in ks : <<x[1], Link>> \in ks}
    /\ changes = 0
    /\ call = [o \in Ops |-> NoCall]
    /\ iface = [o \in Ops |-> AnyIf]
    /\ own = [o \in Ops |-> "none"]
    /\ inq = [o \in Ops |-> "none"]
    /\ reqs = [o \in Ops |-> {}]
    /\ snap = [o \in Ops |-> {}]
    /\ dump = [o \in Ops |-> {}]
    /\ found = [o \in Ops |-> {}]
    /\ todo = [o \in Ops |-> {}]
    /\ togo = [o \in Ops |-> 0]
    /\ cbs = [o \in Ops |-> <<>>]
    /\ thrown = [o \in Ops |-> FALSE]
    /\ js = Idle
    /\ kept = [o \in Ops |-> {}]
    /\ fresh = [o \in Ops |-> {}]
    /\ refused = [o \in Ops |-> {}]

\* What every call does first.
Called(o, c, i) ==
    /\ js = Idle
    /\ call[o] = NoCall
    /\ call' = [call EXCEPT ![o] = c]
    /\ iface' = [iface EXCEPT ![o] = i]
    /\ kept' = [kept EXCEPT ![o] = kern]
    /\ UNCHANGED <<kern, changes, fresh, snap, dump, found, flushVars>>

Callback(o, outcomes) == cbs' = [cbs EXCEPT ![o] = @ \o outcomes]

\* Whether create() calls back with an error.
CreateErrors(c) == IF c.fn \in CreateFails THEN BOOLEAN ELSE {FALSE}

\* address and addrlabel report an error of create and go on all the same.
OwnSocket(bad) == IF bad THEN "failed" ELSE "open"
CreateReport(bad) == IF bad THEN <<"err">> ELSE <<>>

\* Arguments rejected before a socket is made.
RejectCall(o, c, i) ==
    /\ c.fn \in {"route", "neighbor", "link", "address", "flush", "addIPv6Neighbor"}
    /\ c.arg = "bad"
    /\ Called(o, c, i)
    /\ Callback(o, <<"err">>)
    /\ UNCHANGED <<own, inq, reqs, thrown>>

\* An unknown operation is logged and nothing else happens; address and
\* addrlabel have created their socket by then.
UnsupportedCall(o, c, i) ==
    /\ c.fn \in {"route", "neighbor", "link", "address", "addrlabel"}
    /\ c.arg = "unsupported"
    /\ Called(o, c, i)
    /\ \/ /\ c.fn \in {"route", "neighbor", "link"}
          /\ UNCHANGED <<own, cbs>>
       \/ /\ c.fn \in {"address", "addrlabel"}
          /\ \E bad \in CreateErrors(c) :
                /\ own' = [own EXCEPT ![o] = OwnSocket(bad)]
                /\ Callback(o, CreateReport(bad))
    /\ UNCHANGED <<inq, reqs, thrown>>

\* address and addrlabel look for a missing argument after they have created
\* the socket.
LateRejectCall(o, c, i) ==
    /\ c.fn \in {"address", "show", "addrlabel"} /\ c.arg = "late"
    /\ Called(o, c, i)
    /\ \E bad \in CreateErrors(c) :
          /\ own' = [own EXCEPT ![o] = OwnSocket(bad)]
          /\ Callback(o, CreateReport(bad) \o <<"err">>)
    /\ UNCHANGED <<inq, reqs, thrown>>

\* sendInquiry: a socket of its own, closed at once when create reports an error.
OpenInquiry(o, bad) ==
    /\ inq' = [inq EXCEPT ![o] = IF bad THEN "closed" ELSE "open"]
    /\ reqs' = [reqs EXCEPT ![o] = IF bad THEN {} ELSE {Ask("getlink", NoCall)}]

\* getLinks, getAddresses and the show of link; getRoutes and the show of route
\* and neighbor ("listRoutes").
InquiryCall(o, c, i) ==
    /\ c.fn \in {"getLinks", "list", "listRoutes"} /\ c.arg = "good"
    /\ Called(o, c, i)
    /\ \E bad \in CreateErrors(c) :
          /\ OpenInquiry(o, bad)
          /\ Callback(o, CreateReport(bad))
    /\ UNCHANGED <<own, thrown>>

\* The show and the flush of address(): it creates a socket, goes on even when
\* that reported an error, and then makes an inquiry.  A failed inquiry closes
\* the socket of flush, nothing closes that of show.
AddressInquiryCall(o, c, i) ==
    /\ c.fn \in {"show", "flush"} /\ c.arg = "good"
    /\ i # AnyIf
    /\ Called(o, c, i)
    /\ \E bad1 \in CreateErrors(c), bad2 \in CreateErrors(c) :
          /\ OpenInquiry(o, bad2)
          /\ own' = [own EXCEPT ![o] =
                IF c.fn = "flush" /\ bad2 THEN "closed" ELSE OwnSocket(bad1)]
          /\ Callback(o, CreateReport(bad1) \o CreateReport(bad2))
    /\ UNCHANGED thrown

\* The command builders look the interface up and convert the addresses; each
\* calls back with an error instead of sending when it cannot.
netlinkRouteCommand(c, i) == Exists(i) /\ c.arg = "good"
netlinkNeighCommand(c, i) == Exists(i) /\ c.arg = "good"
netlinkLinkCommand(c, i) == Exists(i) /\ c.arg # "badaddr"
netlinkAddrCommand(c, i) == Exists(i) /\ c.arg \notin {"badaddr", "notstring"}

\* One command on one socket.  The callback for it closes the socket and calls
\* the application back, also when the command could not be built.
OneCommand(o, built) ==
    /\ \/ /\ built
          /\ own' = [own EXCEPT ![o] = "open"]
          /\ reqs' = [reqs EXCEPT ![o] = {Ask("set", NoCall)}]
          /\ UNCHANGED cbs
       \/ /\ ~built
          /\ own' = [own EXCEPT ![o] = "closed"]
          /\ Callback(o, <<"err">>)
          /\ UNCHANGED reqs
    /\ UNCHANGED <<inq, thrown>>

\* create reports an error: the call ends there.
CreateFailed(o, c, sock) ==
    /\ c.fn \in CreateFails
    /\ own' = [own EXCEPT ![o] = sock]
    /\ Callback(o, <<"err">>)
    /\ UNCHANGED <<inq, reqs, thrown>>

CommandArgs(c, i) == c.arg \in {"good", "badaddr"} /\ i # AnyIf

\* The builders of route and neighbor take the bytes of an address that is not
\* there: a TypeError leaves the callback of create, the socket stays open and
\* nobody is called back.
NoBytes(c, i) == c.arg = "noaddr" /\ Exists(i)

BuilderThrows(o) ==
    /\ own' = [own EXCEPT ![o] = "open"]
    /\ thrown' = [thrown EXCEPT ![o] = TRUE]
    /\ UNCHANGED <<inq, reqs, cbs>>

RouteCall(o, c, i) ==
    /\ c.fn = "route" /\ c.arg \in {"good", "badaddr", "noaddr"} /\ i # AnyIf
    /\ Called(o, c, i)
    /\ \/ CreateFailed(o, c, "failed")
       \/ ~NoBytes(c, i) /\ OneCommand(o, netlinkRouteCommand(c, i))
       \/ NoBytes(c, i) /\ BuilderThrows(o)

NeighborCall(o, c, i) ==
    /\ c.fn = "neighbor" /\ c.arg \in {"good", "badaddr", "noaddr"} /\ i # AnyIf
    /\ Called(o, c, i)
    /\ \/ CreateFailed(o, c, "failed")
       \/ ~NoBytes(c, i) /\ OneCommand(o, netlinkNeighCommand(c, i))
       \/ NoBytes(c, i) /\ BuilderThrows(o)

\* isaddress matches an inetdest that is not a string, before there is a socket.
isaddressThrows(o, c, i) ==
    /\ c.fn \in {"route", "neighbor"} /\ c.arg = "notstring"
    /\ Called(o, c, i)
    /\ thrown' = [thrown EXCEPT ![o] = TRUE]
    /\ UNCHANGED <<own, inq, reqs, cbs>>

\* Only link closes the socket that could not be created.
LinkCall(o, c, i) ==
    /\ c.fn = "link" /\ CommandArgs(c, i)
    /\ Called(o, c, i)
    /\ CreateFailed(o, c, "closed") \/ OneCommand(o, netlinkLinkCommand(c, i))

\* address add, change and delete: goes on after an error of create; an addr
\* that is not a string is reported and then used, which throws.
AddressCall(o, c, i) ==
    /\ c.fn = "address" /\ c.arg \in {"good", "badaddr", "notstring"}
    /\ i # AnyIf
    /\ Called(o, c, i)
    /\ \E bad \in CreateErrors(c) :
          \/ /\ netlinkAddrCommand(c, i)
             /\ own' = [own EXCEPT ![o] = OwnSocket(bad)]
             /\ reqs' = [reqs EXCEPT ![o] = {Ask("set", NoCall)}]
             /\ Callback(o, CreateReport(bad))
          \/ /\ ~netlinkAddrCommand(c, i)
             /\ own' = [own EXCEPT ![o] = "closed"]
             /\ Callback(o, CreateReport(bad) \o <<"err">>)
             /\ UNCHANGED reqs
    /\ thrown' = [thrown EXCEPT ![o] = c.arg = "notstring" /\ Exists(i)]
    /\ UNCHANGED inq

\* addIPv6Neighbor: an unknown interface runs into a misspelt variable; other
\* bad arguments are reported.  Its socket is never closed.
AddIPv6NeighborCall(o, c, i) ==
    /\ c.fn = "addIPv6Neighbor" /\ c.arg \in {"good", "badaddr"}
    /\ i # AnyIf
    /\ Called(o, c, i)
    /\ \/ /\ ~Exists(i)
          /\ thrown' = [thrown EXCEPT ![o] = TRUE]
          /\ UNCHANGED <<own, reqs, cbs>>
       \/ /\ Exists(i) /\ c.arg = "badaddr"
          /\ Callback(o, <<"err">>)
          /\ UNCHANGED <<own, reqs, thrown>>
       \/ /\ Exists(i) /\ c.arg = "good" /\ c.fn \in CreateFails
          /\ own' = [own EXCEPT ![o] = "failed"]
          /\ Callback(o, <<"err">>)
          /\ UNCHANGED <<reqs, thrown>>
       \/ /\ Exists(i) /\ c.arg = "good"
          /\ own' = [own EXCEPT ![o] = "open"]
          /\ reqs' = [reqs EXCEPT ![o] = {Ask("set", NoCall)}]
          /\ UNCHANGED <<cbs, thrown>>
    /\ UNCHANGED inq

\* addrlabel: list and flush use the module ipcommand, which is not required;
\* add and delete use rt.buildIfAddrlblMsg, which does not exist.  An unknown
\* interface is reported by add and delete before that.
AddrLabelCall(o, c, i) ==
    /\ c.fn = "addrlabel" /\ c.arg = "good"
    /\ i # AnyIf
    /\ Called(o, c, i)
    /\ \E bad \in CreateErrors(c) :
          /\ own' = [own EXCEPT ![o] = OwnSocket(bad)]
          /\ \/ /\ thrown' = [thrown EXCEPT ![o] = TRUE]
                /\ Callback(o, CreateReport(bad))
             \/ /\ ~Exists(i)
                /\ Callback(o, CreateReport(bad) \o <<"err">>)
                /\ UNCHANGED thrown
    /\ UNCHANGED <<inq, reqs>>

-----------------------------------------------------------------------------
(* The kernel and the socket *)

Settle(o, q, st) == reqs' = [reqs EXCEPT ![o] = (@ \ {q}) \cup {[q EXCEPT !.st = st]}]

\* The request is carried out.  A DELADDR of an address that is not there fails.
Serve(o, q) ==
    /\ q \in reqs[o] /\ q.st = "sent"
    /\ Settle(o, q, IF q.cmd = "del" /\ q.key \notin kern THEN "err" ELSE "ok")
    /\ snap' = IF q.cmd = "getlink"
               THEN [snap EXCEPT ![o] = {i \in Ifs : Exists(i)}] ELSE snap
    /\ dump' = IF q.cmd = "get" THEN [dump EXCEPT ![o] = kern] ELSE dump
    /\ kern' = IF q.cmd = "del" THEN kern \ {q.key} ELSE kern
    /\ kept' = [p \in Ops |-> kept[p] \cap kern']
    /\ UNCHANGED <<changes, fresh, callVars, own, inq, found, flushVars, cbs, thrown>>

\* The kernel refuses it, or the socket fails it.
Refuse(o, q) ==
    /\ q \in reqs[o] /\ q.st = "sent" /\ q.cmd \in Refusals
    /\ Settle(o, q, "err")
    /\ UNCHANGED <<kernVars, callVars, own, inq, snap, dump, found, flushVars, cbs, thrown>>

\* Another process changes the tables.
Change(ks) ==
    /\ changes < MaxChanges
    /\ changes' = changes + 1
    /\ kern' = ks
    /\ kept' = [o \in Ops |-> kept[o] \cap ks]
    /\ fresh' = [o \in Ops |-> IF call[o] = NoCall THEN {} ELSE fresh[o] \cup (ks \ kern)]
    /\ UNCHANGED <<callVars, own, inq, reqs, snap, dump, found, flushVars, cbs, thrown>>

ObjectAppears(x) ==
    /\ x \notin kern
    /\ x[2] = Link \/ Exists(x[1])
    /\ Change(kern \cup {x})

LinkGoes(i) ==
    /\ Exists(i)
    /\ Change({x \in kern : x[1] # i})

-----------------------------------------------------------------------------
(* The callbacks of the requests *)

Replied(o, q) == js = Idle /\ q \in reqs[o] /\ q.st # "sent"

Matches(o, x) == iface[o] \in {AnyIf, x[1]}

\* Variant: only the first message of the answer is parsed.
ParsedFirst(o) ==
    LET all == {x \in dump[o] \cup {<<i, Link>> : i \in snap[o]} :
                   x[1] \in snap[o] /\ Matches(o, x) /\ (x[2] = Link <=> call[o].fn = "getLinks")}
    IN {x \in all : x = CHOOSE y \in all : TRUE}

\* The entries that can be named: their link is among those of the first request.
getLinkFromIndex(o, i) == i \in snap[o]

\* What the packageInfo functions make an object of.  packageInfoRoute throws for
\* a route without RTA_OIF, which parseAttributes catches and logs, and
\* packageInfoNeighbor returns nothing for a neighbour in state 'noarp'.
packageInfo(o, x) == call[o].fn = "listRoutes" => x[2] \notin Unpacked

\* parseAttributes: the name of the interface comes from the links of the first
\* request; an entry whose link is not among them is dropped, and so is one that
\* cannot be packaged.
Parsed(o) ==
    IF call[o].fn = "getLinks"
    THEN {<<i, Link>> : i \in snap[o]} \cap {x \in Objects : Matches(o, x)}
    ELSE {x \in dump[o] :
             x[2] # Link /\ packageInfo(o, x) /\ getLinkFromIndex(o, x[1]) /\ Matches(o, x)}

\* The second request of show names an interface, which must exist then.
netlinkInfoCommand(o) == call[o].fn = "show" => Exists(iface[o])

\* Variant: a missing return, so that a failed GETLINK is reported and the
\* inquiry goes on.
InquiryFailsGoesOn(o, q) ==
    /\ Replied(o, q)
    /\ q.cmd \in {"getlink", "get"} /\ q.st = "err"
    /\ reqs' = [reqs EXCEPT ![o] = IF q.cmd = "getlink" THEN {Ask("get", NoCall)} ELSE {}]
    /\ inq' = [inq EXCEPT ![o] = IF q.cmd = "getlink" THEN @ ELSE "closed"]
    /\ Callback(o, <<"err">>)
    /\ UNCHANGED <<kernVars, callVars, own, snap, dump, found, flushVars, thrown>>

\* sendInquiry calls its callback back with an error, having closed its socket;
\* flush then closes its own.
InquiryFails(o, q) ==
    /\ Replied(o, q)
    /\ \/ q.cmd \in {"getlink", "get"} /\ q.st = "err"
       \/ q.cmd = "getlink" /\ q.st = "ok" /\ ~netlinkInfoCommand(o)
    /\ reqs' = [reqs EXCEPT ![o] = {}]
    /\ inq' = [inq EXCEPT ![o] = "closed"]
    /\ own' = IF call[o].fn = "flush" THEN [own EXCEPT ![o] = "closed"] ELSE own
    /\ Callback(o, <<"err">>)
    /\ UNCHANGED <<kernVars, callVars, snap, dump, found, flushVars, thrown>>

\* The links are known: the inquiry goes on with its second request.
LinksReplied(o, q) ==
    /\ Replied(o, q)
    /\ q.cmd = "getlink" /\ q.st = "ok" /\ call[o].fn # "getLinks"
    /\ netlinkInfoCommand(o)
    /\ reqs' = [reqs EXCEPT ![o] = {Ask("get", NoCall)}]
    /\ UNCHANGED <<kernVars, callVars, own, inq, snap, dump, found, flushVars, cbs, thrown>>

\* The last answer of an inquiry: close, and hand over what was parsed.
InquiryReplied(o, q) ==
    /\ Replied(o, q)
    /\ q.cmd = (IF call[o].fn = "getLinks" THEN "getlink" ELSE "get") /\ q.st = "ok"
    /\ inq' = [inq EXCEPT ![o] = "closed"]
    /\ reqs' = [reqs EXCEPT ![o] = {}]
    /\ found' = [found EXCEPT ![o] = Parsed(o)]

InquiryDone(o, q) ==
    /\ call[o].fn # "flush"
    /\ InquiryReplied(o, q)
    /\ Callback(o, <<"ok">>)
    /\ UNCHANGED <<kernVars, callVars, own, snap, dump, flushVars, thrown>>

\* onComplete of flush.
FlushComplete(o) ==
    /\ own' = [own EXCEPT ![o] = "closed"]
    /\ Callback(o, <<"ok">>)

\* flush has its addresses: none, or one command for each.
FlushBegins(o, q) ==
    /\ call[o].fn = "flush"
    /\ InquiryReplied(o, q)
    /\ todo' = [todo EXCEPT ![o] = Parsed(o)]
    /\ togo' = [togo EXCEPT ![o] = Cardinality(Parsed(o))]
    /\ \/ /\ Parsed(o) = {}
          /\ FlushComplete(o)
          /\ UNCHANGED js
       \/ /\ Parsed(o) # {}
          /\ js' = o
          /\ UNCHANGED <<own, cbs>>
    /\ UNCHANGED <<kernVars, callVars, snap, dump, refused, thrown>>

\* Variants: the first command that calls back completes the flush; the test for
\* the last one is off by one.
CountDownFirst(o) ==
    /\ togo' = [togo EXCEPT ![o] = @ - 1]
    /\ IF cbs[o] = <<>> THEN FlushComplete(o) ELSE UNCHANGED <<own, cbs>>

CountDownLate(o) ==
    /\ togo' = [togo EXCEPT ![o] = @ - 1]
    /\ IF togo[o] = 0 THEN FlushComplete(o) ELSE UNCHANGED <<own, cbs>>

\* One command of flush has called back: its error is dropped, and the last one
\* completes the flush.
CountDown(o) ==
    /\ togo' = [togo EXCEPT ![o] = @ - 1]
    /\ IF togo[o] = 1 THEN FlushComplete(o) ELSE UNCHANGED <<own, cbs>>

\* Variant: the socket is closed at the end of the loop, as addrlabel() does.
FlushKeyCloses(o, x) ==
    /\ js = o
    /\ x \in todo[o]
    /\ todo' = [todo EXCEPT ![o] = @ \ {x}]
    /\ js' = IF todo[o] = {x} THEN Idle ELSE o
    /\ reqs' = [reqs EXCEPT ![o] = @ \cup {Ask("del", x)}]
    /\ own' = IF todo[o] = {x} THEN [own EXCEPT ![o] = "closed"] ELSE own
    /\ UNCHANGED <<kernVars, callVars, inq, snap, dump, found, thrown, togo, cbs, refused>>

\* The command for one key.  When the interface is gone it calls back at once,
\* inside the forEach.
FlushKey(o, x) ==
    /\ js = o
    /\ x \in todo[o]
    /\ todo' = [todo EXCEPT ![o] = @ \ {x}]
    /\ js' = IF todo[o] = {x} THEN Idle ELSE o
    /\ \/ /\ Exists(iface[o])
          /\ reqs' = [reqs EXCEPT ![o] = @ \cup {Ask("del", x)}]
          /\ UNCHANGED <<togo, own, cbs, refused>>
       \/ /\ ~Exists(iface[o])
          /\ CountDown(o)
          /\ refused' = [refused EXCEPT ![o] = @ \cup {x}]
          /\ UNCHANGED reqs
    /\ UNCHANGED <<kernVars, callVars, inq, snap, dump, found, thrown>>

FlushReplied(o, q) ==
    /\ Replied(o, q) /\ q.cmd = "del"
    /\ reqs' = [reqs EXCEPT ![o] = @ \ {q}]
    /\ refused' = [refused EXCEPT ![o] = IF q.st = "err" THEN @ \cup {q.key} ELSE @]
    /\ CountDown(o)
    /\ UNCHANGED <<kernVars, callVars, inq, snap, dump, found, todo, js, thrown>>

\* The command of route, neighbor, link and address: close and call back.
CommandReplied(o, q) ==
    /\ Replied(o, q) /\ q.cmd = "set" /\ call[o].fn # "addIPv6Neighbor"
    /\ reqs' = [reqs EXCEPT ![o] = {}]
    /\ own' = [own EXCEPT ![o] = "closed"]
    /\ Callback(o, <<q.st>>)
    /\ UNCHANGED <<kernVars, callVars, inq, snap, dump, found, flushVars, thrown>>

\* addIPv6Neighbor passes a reply callback too, so its send callback, which
\* calls the application back, runs only after an error.
AddIPv6NeighborReplied(o, q) ==
    /\ Replied(o, q) /\ q.cmd = "set" /\ call[o].fn = "addIPv6Neighbor"
    /\ reqs' = [reqs EXCEPT ![o] = {}]
    /\ Callback(o, IF q.st = "err" THEN <<"err">> ELSE <<>>)
    /\ UNCHANGED <<kernVars, callVars, own, inq, snap, dump, found, flushVars, thrown>>

-----------------------------------------------------------------------------
Start(o, c, i) ==
    \/ RejectCall(o, c, i) \/ UnsupportedCall(o, c, i) \/ LateRejectCall(o, c, i)
    \/ InquiryCall(o, c, i) \/ AddressInquiryCall(o, c, i)
    \/ RouteCall(o, c, i) \/ NeighborCall(o, c, i) \/ LinkCall(o, c, i)
    \/ isaddressThrows(o, c, i) \/ AddressCall(o, c, i)
    \/ AddIPv6NeighborCall(o, c, i) \/ AddrLabelCall(o, c, i)

Reply(o, q) ==
    \/ InquiryFails(o, q) \/ LinksReplied(o, q) \/ InquiryDone(o, q)
    \/ FlushBegins(o, q) \/ FlushReplied(o, q)
    \/ CommandReplied(o, q) \/ AddIPv6NeighborReplied(o, q)

ForEach(o) == \E x \in todo[o] : FlushKey(o, x)
Replies(o) == \E q \in reqs[o] : Reply(o, q)
Serves(o) == \E q \in reqs[o] : Serve(o, q) \/ Refuse(o, q)

Next ==
    \/ \E o \in Ops, c \in Calls, i \in Ifs \cup {AnyIf} : Start(o, c, i)
    \/ \E o \in Ops : ForEach(o) \/ Replies(o) \/ Serves(o)
    \/ \E x \in Objects : ObjectAppears(x)
    \/ \E i \in Ifs : LinkGoes(i)

Spec == Init /\ [][Next]_vars

\* The kernel answers every request, libuv runs every completion, and a forEach
\* goes on.
FairSpec ==
    /\ Spec
    /\ \A o \in Ops : WF_vars(ForEach(o)) /\ WF_vars(Replies(o)) /\ WF_vars(Serves(o))

-----------------------------------------------------------------------------
(* Properties *)

\* The calls that are expected to see their work through.  The others are the ones
\* the code leaves unanswered, answers twice or throws from: addIPv6Neighbor,
\* addrlabel, the show of address(), an unknown operation, the arguments that
\* address() finds wrong after it has created its socket, and those that route()
\* and neighbor() throw for.
Orderly(o) ==
    /\ call[o] # NoCall
    /\ call[o].fn \in {"getLinks", "list", "listRoutes", "flush", "route", "neighbor", "link", "address"}
    /\ call[o].arg \in {"good", "bad", "badaddr"}

\* An orderly call calls back exactly once, and when it has, it has nothing
\* outstanding: no request of it still runs and flush is not in the middle of its
\* forEach (every `return cb(...)` and the countdown keysToGo in ip/*.js).
OneCallback ==
    \A o \in Ops : Orderly(o) => Len(cbs[o]) = (IF Outstanding(o) THEN 0 ELSE 1)

\* Every socket an orderly call opened is closed when the call has nothing
\* outstanding, and no call closes one under a request that still uses it.
SocketsClosed ==
    \A o \in Ops :
       /\ Orderly(o) /\ ~Outstanding(o) => own[o] # "open" /\ inq[o] # "open"
       /\ \A q \in reqs[o] :
             IF q.cmd \in {"getlink", "get"} THEN inq[o] = "open" ELSE own[o] = "open"
       /\ js = o => own[o] = "open"

\* The objects a list of call o should have: those of the kind it asks for, on
\* the interface it asks for, less the two the code cannot list (see README,
\* section 5): a route without RTA_OIF and a neighbour in state 'noarp'.
Listable(o, x) ==
    /\ Matches(o, x)
    /\ x[2] = Link <=> call[o].fn = "getLinks"
    /\ ~(call[o].fn = "listRoutes" /\ x[2] \in Unpacked)

\* A list that succeeds has every listable object that existed all the time from
\* the call on, although sendInquiry takes the links and the objects with two
\* requests, and drops what it cannot name by the links of the first.
ListComplete ==
    \A o \in Ops :
       /\ call[o] # NoCall /\ call[o].fn \in {"getLinks", "list", "listRoutes", "show"}
       /\ cbs[o] = <<"ok">>
       => {x \in kept[o] : Listable(o, x)} \subseteq found[o]

\* After a flush that succeeded the only addresses left on its interface are
\* those whose command failed and those that appeared after the call.
FlushEmpties ==
    \A o \in Ops :
       call[o] # NoCall /\ call[o].fn = "flush" /\ cbs[o] = <<"ok">> =>
          {x \in kern : x[1] = iface[o] /\ x[2] # Link} \subseteq refused[o] \cup fresh[o]

\* Every orderly call is answered.
Answered == \A o \in Ops : Orderly(o) ~> cbs[o] # <<>>
=============================================================================
