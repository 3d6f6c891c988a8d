-------------------------- MODULE IpCommandsProofs --------------------------
(***************************************************************************)
(* Proofs about IpCommands, for any calls in any interleaving, any finite  *)
(* tables of the kernel and any number of changes to them by others.       *)
(***************************************************************************)
EXTENDS IpCommands, FiniteSetTheorems, SequenceTheorems, TLAPS

ListFns == {"getLinks", "list", "listRoutes", "show"}
Outcomes == {"ok", "err"}
OrderlyFns == {"getLinks", "list", "listRoutes", "flush", "route", "neighbor", "link", "address"}
SetFns == {"route", "neighbor", "link", "address", "addIPv6Neighbor"}

\* No address, route or neighbour without its link.
Linked(ks) == \A x \in ks : <<x[1], Link>> \in ks

IpTypes ==
    /\ kern \subseteq Objects /\ Linked(kern)
    /\ js \in Ops \cup {Idle}
    /\ DOMAIN call = Ops /\ DOMAIN iface = Ops /\ DOMAIN own = Ops /\ DOMAIN inq = Ops
    /\ DOMAIN reqs = Ops /\ DOMAIN snap = Ops /\ DOMAIN dump = Ops /\ DOMAIN found = Ops
    /\ DOMAIN todo = Ops /\ DOMAIN togo = Ops /\ DOMAIN cbs = Ops /\ DOMAIN thrown = Ops
    /\ DOMAIN kept = Ops /\ DOMAIN fresh = Ops /\ DOMAIN refused = Ops

\* A request belongs to the function that sends it.
SentBy(fn, q) ==
    CASE q.cmd = "getlink" -> fn \in {"getLinks", "list", "listRoutes", "show", "flush"}
      [] q.cmd = "get" -> fn \in {"list", "listRoutes", "show", "flush"}
      [] q.cmd = "set" -> fn \in SetFns
      [] q.cmd = "del" -> fn = "flush" /\ q.key \in Objects /\ q.key[2] # Link

\* The forEach of flush or the commands it sent are not over.
Flushing(o) == todo[o] # {} \/ \E q \in reqs[o] : q.cmd = "del"

\* The course of one call: an inquiry and a command have one request at a time;
\* keysToGo counts the keys that have not called back, each of them either still
\* to come in the forEach or under way.
Course(o) ==
    /\ reqs[o] \subseteq Request /\ dump[o] \subseteq Objects /\ todo[o] \subseteq Objects
    /\ togo[o] \in Int /\ cbs[o] \in Seq(Outcomes)
    /\ call[o] = NoCall => /\ reqs[o] = {} /\ todo[o] = {} /\ cbs[o] = <<>>
                           /\ own[o] = "none" /\ inq[o] = "none"
    /\ call[o] # NoCall => call[o] \in [fn: Fns, arg: Args]
    /\ js = o <=> todo[o] # {}
    /\ \A q \in reqs[o] :
         /\ SentBy(call[o].fn, q)
         /\ q.cmd # "del" => reqs[o] = {q} /\ todo[o] = {}
         /\ q.key \notin todo[o]
         /\ \A r \in reqs[o] : q.key = r.key => q = r
    /\ todo[o] # {} => call[o].fn = "flush"
    /\ \A x \in todo[o] : x[2] # Link
    /\ IsFiniteSet(todo[o]) /\ IsFiniteSet(reqs[o])
    /\ Flushing(o) => togo[o] = Cardinality(todo[o]) + Cardinality(reqs[o])
    /\ Outstanding(o) => cbs[o] = <<>> \/ cbs[o] = <<"err">>

\* What the kernel has answered covers what has been there since the call.
LinksKnown(o) == \E q \in reqs[o] : q.cmd = "get" \/ (q.cmd = "getlink" /\ q.st = "ok")
ObjectsKnown(o) == \E q \in reqs[o] : q.cmd = "get" /\ q.st = "ok"
Wanted(o) == {x \in kept[o] : x[1] = iface[o] /\ x[2] # Link}
Pending(o) == {q.key : q \in {r \in reqs[o] : r.st # "ok"}}

Seen(o) ==
    /\ kept[o] \subseteq kern /\ Linked(kept[o])
    /\ call[o] # NoCall => kern \subseteq kept[o] \cup fresh[o]
    /\ LinksKnown(o) => \A i \in Ifs : <<i, Link>> \in kept[o] => i \in snap[o]
    /\ ObjectsKnown(o) => kept[o] \subseteq dump[o]
    /\ Flushing(o) => Wanted(o) \subseteq todo[o] \cup Pending(o) \cup refused[o]
    /\ call[o] # NoCall /\ call[o].fn \in ListFns /\ cbs[o] = <<"ok">> =>
         {x \in kept[o] : Listable(o, x)} \subseteq found[o]
    /\ call[o] # NoCall /\ call[o].fn = "flush" /\ cbs[o] = <<"ok">> => Wanted(o) \subseteq refused[o]

\* The sockets of address() and of its flush are created.
AddressCreates == CreateFails \cap {"address", "flush"} = {}

\* Callbacks and sockets of one call.
Ends(o) ==
    /\ Orderly(o) => Len(cbs[o]) = (IF Outstanding(o) THEN 0 ELSE 1)
    /\ Orderly(o) /\ ~Outstanding(o) => own[o] # "open" /\ inq[o] # "open"
    /\ call[o] # NoCall /\ call[o].fn \in SetFns => inq[o] = "none"
    /\ call[o] # NoCall /\ call[o].fn \in {"getLinks", "list", "listRoutes"} => own[o] = "none"
    /\ call[o] # NoCall /\ call[o].fn = "flush" /\ Outstanding(o) => own[o] = "open"
    /\ \A q \in reqs[o] : IF q.cmd \in {"getlink", "get"} THEN inq[o] = "open"
                          ELSE own[o] = "open" /\ inq[o] # "open"
    /\ js = o => own[o] = "open" /\ inq[o] # "open"

CourseInv == IpTypes /\ \A o \in Ops : Course(o)
SeenInv == \A o \in Ops : Seen(o)
EndsInv == \A o \in Ops : Ends(o)

-----------------------------------------------------------------------------
(* Callbacks *)

\* The first outcomes a call reports are all it has reported.
LEMMA FirstOutcomes ==
    ASSUME NEW o \in Ops, DOMAIN cbs = Ops, cbs[o] = <<>>,
           NEW s \in Seq(Outcomes), Callback(o, s)
    PROVE  cbs' = [cbs EXCEPT ![o] = s]
<1>1. <<>> \o s = s
  BY ConcatEmptySeq
<1> QED
  BY <1>1 DEF Callback

\* What the error of create() makes of a report.
LEMMA Reports ==
    ASSUME NEW bad \in BOOLEAN
    PROVE  /\ CreateReport(bad) = (IF bad THEN <<"err">> ELSE <<>>)
           /\ CreateReport(bad) \in Seq(Outcomes)
           /\ CreateReport(bad) \o <<"err">> = (IF bad THEN <<"err", "err">> ELSE <<"err">>)
           /\ CreateReport(bad) \o <<"err">> \in Seq(Outcomes)
           /\ <<"err">> \in Seq(Outcomes)
           /\ \A worse \in BOOLEAN :
                /\ CreateReport(bad) \o CreateReport(worse) =
                      (IF bad /\ worse THEN <<"err", "err">> ELSE
                       IF bad \/ worse THEN <<"err">> ELSE <<>>)
                /\ CreateReport(bad) \o CreateReport(worse) \in Seq(Outcomes)
<1>1. <<"err">> \in Seq(Outcomes) /\ <<>> \in Seq(Outcomes) /\ <<"err", "err">> \in Seq(Outcomes)
  BY DEF Outcomes
<1>2. <<"err">> \o <<"err">> = <<"err", "err">>
  <2> DEFINE s == <<"err">> \o <<"err">>
  <2>1. Len(<<"err">>) = 1 /\ Len(<<"err", "err">>) = 2
    OBVIOUS
  <2>2. /\ s \in Seq(Outcomes) /\ Len(s) = 2
        /\ \A i \in 1..2 : s[i] = IF i <= 1 THEN <<"err">>[i] ELSE <<"err">>[i - 1]
    BY <1>1, <2>1, ConcatProperties
  <2>3. \A i \in 1..2 : s[i] = <<"err", "err">>[i]
    BY <2>2
  <2> HIDE DEF s
  <2>4. s = <<"err", "err">>
    BY <1>1, <2>1, <2>2, <2>3, SeqEqual
  <2> QED BY <2>4 DEF s
<1>3. /\ <<"err">> \o <<>> = <<"err">> /\ <<>> \o <<"err">> = <<"err">>
      /\ <<>> \o <<>> = <<>>
  BY <1>1, ConcatEmptySeq
<1> QED
  BY <1>1, <1>2, <1>3 DEF CreateReport

-----------------------------------------------------------------------------
(* The application calls *)

\* f changes to g at o only.
OnlyAt(f, g, o) == DOMAIN g = Ops /\ \A p \in Ops \ {o} : g[p] = f[p]

\* What every call does to the bookkeeping, whatever its function.
Started(o, c, i) ==
    /\ Called(o, c, i)
    /\ OnlyAt(own, own', o) /\ OnlyAt(inq, inq', o) /\ OnlyAt(reqs, reqs', o)
    /\ OnlyAt(cbs, cbs', o) /\ OnlyAt(thrown, thrown', o)
    /\ \/ reqs'[o] = {}
       \/ /\ reqs'[o] = {Ask("getlink", NoCall)} /\ c.fn \in {"getLinks", "list", "listRoutes", "show", "flush"}
          /\ cbs'[o] = <<>> \/ cbs'[o] = <<"err">>
       \/ /\ reqs'[o] = {Ask("set", NoCall)} /\ c.fn \in SetFns
          /\ cbs'[o] = <<>> \/ cbs'[o] = <<"err">>
    /\ cbs'[o] \in Seq(Outcomes) /\ cbs'[o] # <<"ok">>

\* How a call leaves its callbacks and sockets.
StartedEnds(o, c) ==
    /\ c.fn \in OrderlyFns /\ c.arg \in {"good", "bad", "badaddr"} =>
         IF reqs'[o] = {} THEN Len(cbs'[o]) = 1 /\ own'[o] # "open" /\ inq'[o] # "open"
         ELSE cbs'[o] = <<>>
    /\ \A q \in reqs'[o] : IF q.cmd = "getlink" THEN inq'[o] = "open" ELSE own'[o] = "open"
    /\ c.fn \in SetFns => inq'[o] = "none"
    /\ c.fn \in {"getLinks", "list", "listRoutes"} => own'[o] = "none"
    /\ c.fn = "flush" /\ reqs'[o] # {} => own'[o] = "open"

\* Before a call is made.
Unused(o) ==
    /\ o \in Ops /\ IpTypes
    /\ reqs[o] = {} /\ cbs[o] = <<>> /\ own[o] = "none" /\ inq[o] = "none"

\* A call that has not been made has no request, callback or socket.
LEMMA BeforeStart ==
    ASSUME CourseInv, NEW o \in Ops, NEW c, NEW i, Called(o, c, i)
    PROVE  Unused(o)
BY DEF Called, Unused, CourseInv, Course

\* The reports a call can begin with.
LEMMA ShortReports ==
    /\ <<>> \in Seq(Outcomes) /\ <<"err">> \in Seq(Outcomes) /\ <<"err", "err">> \in Seq(Outcomes)
    /\ <<>> # <<"ok">> /\ <<"err">> # <<"ok">> /\ <<"err", "err">> # <<"ok">>
    /\ Len(<<>>) = 0 /\ Len(<<"err">>) = 1
<1>1. Len(<<"err", "err">>) = 2 /\ Len(<<"ok">>) = 1
  OBVIOUS
<1> QED
  BY <1>1 DEF Outcomes

\* A call refused for its arguments reports once and opens nothing.
LEMMA RejectStarts ==
    ASSUME CourseInv, NEW o \in Ops, NEW c, NEW i, RejectCall(o, c, i)
    PROVE  Started(o, c, i) /\ StartedEnds(o, c)
<1>1. Called(o, c, i) /\ Unused(o)
  BY BeforeStart DEF RejectCall
<1>2. cbs' = [cbs EXCEPT ![o] = <<"err">>]
  BY <1>1, ShortReports, FirstOutcomes DEF RejectCall, Unused, IpTypes
<1>3. UNCHANGED <<own, inq, reqs, thrown>>
  BY DEF RejectCall
<1> QED
  BY <1>1, <1>2, <1>3, ShortReports DEF Started, StartedEnds, OnlyAt, Unused, IpTypes, RejectCall

\* A call with an operation the function does not know: the socket it may leave
\* open and the callback it may not run are of calls that are not Orderly.
LEMMA UnsupportedStarts ==
    ASSUME CourseInv, NEW o \in Ops, NEW c, NEW i, UnsupportedCall(o, c, i)
    PROVE  Started(o, c, i) /\ StartedEnds(o, c)
<1>1. Called(o, c, i) /\ Unused(o)
  BY BeforeStart DEF UnsupportedCall
<1>2. c.arg = "unsupported" /\ c.fn \in {"route", "neighbor", "link", "address", "addrlabel"}
      /\ UNCHANGED <<inq, reqs, thrown>>
  BY DEF UnsupportedCall
<1>3. /\ OnlyAt(cbs, cbs', o) /\ OnlyAt(own, own', o)
      /\ cbs'[o] = <<>> \/ cbs'[o] = <<"err">>
  <2>1. CASE UNCHANGED <<own, cbs>>
    BY <1>1, <2>1 DEF OnlyAt, Unused, IpTypes
  <2>2. ASSUME NEW bad \in CreateErrors(c), own' = [own EXCEPT ![o] = OwnSocket(bad)],
               Callback(o, CreateReport(bad))
        PROVE  <1>3!1 /\ <1>3!2
    <3>1. bad \in BOOLEAN
      BY DEF CreateErrors
    <3>2. cbs' = [cbs EXCEPT ![o] = CreateReport(bad)]
      BY <1>1, <2>2, <3>1, Reports, FirstOutcomes DEF Unused, IpTypes
    <3> QED
      BY <1>1, <2>2, <3>1, <3>2, Reports DEF OnlyAt, Unused, IpTypes
  <2> QED BY <2>1, <2>2 DEF UnsupportedCall
<1> QED
  BY <1>1, <1>2, <1>3, ShortReports DEF Started, StartedEnds, OnlyAt, Unused, IpTypes, SetFns

\* A call refused after create() reports and keeps its socket: not Orderly.
LEMMA LateRejectStarts ==
    ASSUME CourseInv, NEW o \in Ops, NEW c, NEW i, LateRejectCall(o, c, i)
    PROVE  Started(o, c, i) /\ StartedEnds(o, c)
<1>1. Called(o, c, i) /\ Unused(o)
  BY BeforeStart DEF LateRejectCall
<1>2. PICK bad \in CreateErrors(c) :
          /\ own' = [own EXCEPT ![o] = OwnSocket(bad)]
          /\ Callback(o, CreateReport(bad) \o <<"err">>)
  BY DEF LateRejectCall
<1>3. bad \in BOOLEAN
  BY DEF CreateErrors
<1>4. cbs' = [cbs EXCEPT ![o] = CreateReport(bad) \o <<"err">>]
  BY <1>1, <1>2, <1>3, Reports, FirstOutcomes DEF Unused, IpTypes
<1>5. cbs'[o] = <<"err">> \/ cbs'[o] = <<"err", "err">>
  BY <1>1, <1>3, <1>4, Reports DEF Unused, IpTypes
<1> QED
  BY <1>1, <1>2, <1>4, <1>5, ShortReports
  DEF Started, StartedEnds, OnlyAt, Unused, IpTypes, LateRejectCall, SetFns

\* sendInquiry has its socket and its first request, or has closed the socket.
OpenedInquiry(o, bad) ==
    /\ OnlyAt(inq, inq', o) /\ inq'[o] = (IF bad THEN "closed" ELSE "open")
    /\ OnlyAt(reqs, reqs', o) /\ reqs'[o] = (IF bad THEN {} ELSE {Ask("getlink", NoCall)})
    /\ Ask("getlink", NoCall).cmd = "getlink"

\* What opening an inquiry socket does, by field.
LEMMA InquiryOpens ==
    ASSUME NEW o \in Ops, Unused(o), NEW bad \in BOOLEAN, OpenInquiry(o, bad)
    PROVE  OpenedInquiry(o, bad)
BY DEF OpenInquiry, OpenedInquiry, OnlyAt, Unused, IpTypes, Ask

\* A list: either its request is out on an open socket, or create() failed and
\* that was reported.
LEMMA InquiryStarts ==
    ASSUME CourseInv, NEW o \in Ops, NEW c, NEW i, InquiryCall(o, c, i)
    PROVE  Started(o, c, i) /\ StartedEnds(o, c)
<1>1. Called(o, c, i) /\ Unused(o)
  BY BeforeStart DEF InquiryCall
<1>2. PICK bad \in CreateErrors(c) : OpenInquiry(o, bad) /\ Callback(o, CreateReport(bad))
  BY DEF InquiryCall
<1>3. bad \in BOOLEAN
  BY DEF CreateErrors
<1>4. cbs' = [cbs EXCEPT ![o] = CreateReport(bad)]
  BY <1>1, <1>2, <1>3, Reports, FirstOutcomes DEF Unused, IpTypes
<1>5. cbs'[o] = IF bad THEN <<"err">> ELSE <<>>
  BY <1>1, <1>3, <1>4, Reports DEF Unused, IpTypes
<1>6. c.fn \in {"getLinks", "list", "listRoutes"} /\ UNCHANGED <<own, thrown>>
  BY DEF InquiryCall
<1>7. OnlyAt(cbs, cbs', o) /\ OnlyAt(own, own', o) /\ OnlyAt(thrown, thrown', o) /\ own'[o] = "none"
  BY <1>1, <1>4, <1>6 DEF OnlyAt, Unused, IpTypes
<1>8. OpenedInquiry(o, bad)
  BY <1>1, <1>2, <1>3, InquiryOpens
<1>9. Started(o, c, i)
  BY <1>1, <1>3, <1>5, <1>6, <1>7, <1>8, ShortReports DEF Started, OpenedInquiry
<1>10. StartedEnds(o, c)
  BY <1>3, <1>5, <1>6, <1>7, <1>8, ShortReports DEF StartedEnds, OpenedInquiry, SetFns
<1> QED
  BY <1>9, <1>10

\* A list or flush of address(), which has a socket of its own beside the one of
\* the inquiry. Without AddressCreates both creates may report (addr.js:47).
LEMMA AddressInquiryStarts ==
    ASSUME CourseInv, NEW o \in Ops, NEW c, NEW i, AddressInquiryCall(o, c, i)
    PROVE  Started(o, c, i) /\ (AddressCreates => StartedEnds(o, c))
<1>1. Called(o, c, i) /\ Unused(o)
  BY BeforeStart DEF AddressInquiryCall
<1>2. PICK bad1 \in CreateErrors(c), bad2 \in CreateErrors(c) :
          /\ OpenInquiry(o, bad2)
          /\ own' = [own EXCEPT ![o] =
                IF c.fn = "flush" /\ bad2 THEN "closed" ELSE OwnSocket(bad1)]
          /\ Callback(o, CreateReport(bad1) \o CreateReport(bad2))
  BY DEF AddressInquiryCall
<1>3. bad1 \in BOOLEAN /\ bad2 \in BOOLEAN
  BY DEF CreateErrors
<1>4. cbs' = [cbs EXCEPT ![o] = CreateReport(bad1) \o CreateReport(bad2)]
  BY <1>1, <1>2, <1>3, Reports, FirstOutcomes DEF Unused, IpTypes
<1>5. cbs'[o] = IF bad1 /\ bad2 THEN <<"err", "err">> ELSE
                IF bad1 \/ bad2 THEN <<"err">> ELSE <<>>
  BY <1>1, <1>3, <1>4, Reports DEF Unused, IpTypes
<1>6. c.fn \in {"show", "flush"} /\ UNCHANGED thrown
  BY DEF AddressInquiryCall
<1>7. OnlyAt(cbs, cbs', o) /\ OnlyAt(own, own', o) /\ OnlyAt(thrown, thrown', o)
  BY <1>1, <1>2, <1>4, <1>6 DEF OnlyAt, Unused, IpTypes
<1>8. OpenedInquiry(o, bad2)
  BY <1>1, <1>2, <1>3, InquiryOpens
<1>9. Started(o, c, i)
  BY <1>1, <1>3, <1>5, <1>6, <1>7, <1>8, ShortReports DEF Started, OpenedInquiry
<1>10. ASSUME AddressCreates PROVE StartedEnds(o, c)
  <2>1. c.fn = "flush" => ~bad1 /\ ~bad2
    BY <1>10 DEF AddressCreates, CreateErrors
  <2>2. c.fn = "flush" => own'[o] = "open"
    BY <1>1, <1>2, <2>1 DEF OwnSocket, Unused, IpTypes
  <2> QED
    BY <1>3, <1>5, <1>6, <1>8, <2>1, <2>2, ShortReports DEF StartedEnds, OpenedInquiry, SetFns, OrderlyFns
<1> QED
  BY <1>9, <1>10

\* route, neighbor and link.
LEMMA CommandStarts ==
    ASSUME CourseInv, NEW o \in Ops, NEW c, NEW i,
           RouteCall(o, c, i) \/ NeighborCall(o, c, i) \/ LinkCall(o, c, i)
    PROVE  Started(o, c, i) /\ StartedEnds(o, c)
<1>1. Called(o, c, i) /\ Unused(o)
  BY BeforeStart DEF RouteCall, NeighborCall, LinkCall
<1>2. c.fn \in {"route", "neighbor", "link"}
  BY DEF RouteCall, NeighborCall, LinkCall
<1>3. \/ \E sock \in {"failed", "closed"} : CreateFailed(o, c, sock)
      \/ \E built \in BOOLEAN : OneCommand(o, built)
      \/ c.arg = "noaddr" /\ BuilderThrows(o)
  <2>1. /\ netlinkRouteCommand(c, i) \in BOOLEAN /\ netlinkNeighCommand(c, i) \in BOOLEAN
        /\ netlinkLinkCommand(c, i) \in BOOLEAN
    BY DEF netlinkRouteCommand, netlinkNeighCommand, netlinkLinkCommand
  <2>2. RouteCall(o, c, i) => \/ CreateFailed(o, c, "failed") \/ OneCommand(o, netlinkRouteCommand(c, i))
                              \/ c.arg = "noaddr" /\ BuilderThrows(o)
    BY DEF RouteCall, NoBytes
  <2>3. NeighborCall(o, c, i) => \/ CreateFailed(o, c, "failed") \/ OneCommand(o, netlinkNeighCommand(c, i))
                                 \/ c.arg = "noaddr" /\ BuilderThrows(o)
    BY DEF NeighborCall, NoBytes
  <2>4. LinkCall(o, c, i) => CreateFailed(o, c, "closed") \/ OneCommand(o, netlinkLinkCommand(c, i))
    BY DEF LinkCall
  <2> QED BY <2>1, <2>2, <2>3, <2>4, Zenon
<1>4. UNCHANGED inq /\ OnlyAt(thrown, thrown', o)
  BY <1>1, <1>3 DEF CreateFailed, OneCommand, BuilderThrows, OnlyAt, Unused, IpTypes
<1>5. \/ /\ UNCHANGED reqs /\ Callback(o, <<"err">>)
         /\ \E sock \in {"failed", "closed"} : own' = [own EXCEPT ![o] = sock]
      \/ /\ reqs' = [reqs EXCEPT ![o] = {Ask("set", NoCall)}] /\ UNCHANGED cbs
         /\ own' = [own EXCEPT ![o] = "open"]
      \/ c.arg = "noaddr" /\ own' = [own EXCEPT ![o] = "open"] /\ UNCHANGED <<reqs, cbs>>
  BY <1>3 DEF CreateFailed, OneCommand, BuilderThrows
<1>6. CASE /\ UNCHANGED reqs /\ Callback(o, <<"err">>)
           /\ \E sock \in {"failed", "closed"} : own' = [own EXCEPT ![o] = sock]
  <2>1. cbs' = [cbs EXCEPT ![o] = <<"err">>]
    BY <1>1, <1>6, ShortReports, FirstOutcomes DEF Unused, IpTypes
  <2> QED
    BY <1>1, <1>2, <1>4, <1>6, <2>1, ShortReports
    DEF Started, StartedEnds, OnlyAt, Unused, IpTypes
<1>7. CASE /\ reqs' = [reqs EXCEPT ![o] = {Ask("set", NoCall)}] /\ UNCHANGED cbs
           /\ own' = [own EXCEPT ![o] = "open"]
  <2>1. Ask("set", NoCall).cmd = "set"
    BY DEF Ask
  <2> QED
    BY <1>1, <1>2, <1>4, <1>7, <2>1, ShortReports
    DEF Started, StartedEnds, OnlyAt, Unused, IpTypes, SetFns
<1>8. CASE c.arg = "noaddr" /\ own' = [own EXCEPT ![o] = "open"] /\ UNCHANGED <<reqs, cbs>>
  BY <1>1, <1>2, <1>4, <1>8, ShortReports
  DEF Started, StartedEnds, OnlyAt, Unused, IpTypes
<1> QED
  BY <1>5, <1>6, <1>7, <1>8

\* An inetdest that is not a string throws before there is a socket.
LEMMA ThrowStarts ==
    ASSUME CourseInv, NEW o \in Ops, NEW c, NEW i, isaddressThrows(o, c, i)
    PROVE  Started(o, c, i) /\ StartedEnds(o, c)
<1>1. Called(o, c, i) /\ Unused(o)
  BY BeforeStart DEF isaddressThrows
<1>2. c.fn \in {"route", "neighbor"} /\ c.arg = "notstring" /\ UNCHANGED <<own, inq, reqs, cbs>>
      /\ OnlyAt(thrown, thrown', o)
  BY <1>1 DEF isaddressThrows, OnlyAt, Unused, IpTypes
<1> QED
  BY <1>1, <1>2, ShortReports DEF Started, StartedEnds, OnlyAt, Unused, IpTypes

\* add and delete of address().
LEMMA AddressStarts ==
    ASSUME CourseInv, NEW o \in Ops, NEW c, NEW i, AddressCall(o, c, i)
    PROVE  Started(o, c, i) /\ (AddressCreates => StartedEnds(o, c))
<1>1. Called(o, c, i) /\ Unused(o)
  BY BeforeStart DEF AddressCall
<1>2. PICK bad \in CreateErrors(c) :
          \/ /\ own' = [own EXCEPT ![o] = OwnSocket(bad)]
             /\ reqs' = [reqs EXCEPT ![o] = {Ask("set", NoCall)}]
             /\ Callback(o, CreateReport(bad))
          \/ /\ own' = [own EXCEPT ![o] = "closed"]
             /\ Callback(o, CreateReport(bad) \o <<"err">>)
             /\ UNCHANGED reqs
  BY DEF AddressCall
<1>3. bad \in BOOLEAN
  BY DEF CreateErrors
<1>4. c.fn = "address" /\ UNCHANGED inq /\ OnlyAt(thrown, thrown', o)
  BY <1>1 DEF AddressCall, OnlyAt, Unused, IpTypes
<1>5. AddressCreates => ~bad
  BY <1>4 DEF AddressCreates, CreateErrors
<1>6. CASE /\ own' = [own EXCEPT ![o] = OwnSocket(bad)]
           /\ reqs' = [reqs EXCEPT ![o] = {Ask("set", NoCall)}]
           /\ Callback(o, CreateReport(bad))
  <2>1. cbs' = [cbs EXCEPT ![o] = CreateReport(bad)]
    BY <1>1, <1>3, <1>6, Reports, FirstOutcomes DEF Unused, IpTypes
  <2>2. cbs'[o] = IF bad THEN <<"err">> ELSE <<>>
    BY <1>1, <1>3, <2>1, Reports DEF Unused, IpTypes
  <2>3. Ask("set", NoCall).cmd = "set"
    BY DEF Ask
  <2>4. AddressCreates => own'[o] = "open"
    BY <1>1, <1>5, <1>6 DEF OwnSocket, Unused, IpTypes
  <2> QED
    BY <1>1, <1>4, <1>5, <1>6, <2>1, <2>2, <2>3, <2>4, ShortReports
    DEF Started, StartedEnds, OnlyAt, Unused, IpTypes, SetFns
<1>7. CASE /\ own' = [own EXCEPT ![o] = "closed"]
           /\ Callback(o, CreateReport(bad) \o <<"err">>)
           /\ UNCHANGED reqs
  <2>1. cbs' = [cbs EXCEPT ![o] = CreateReport(bad) \o <<"err">>]
    BY <1>1, <1>3, <1>7, Reports, FirstOutcomes DEF Unused, IpTypes
  <2>2. cbs'[o] = IF bad THEN <<"err", "err">> ELSE <<"err">>
    BY <1>1, <1>3, <2>1, Reports DEF Unused, IpTypes
  <2> QED
    BY <1>1, <1>3, <1>4, <1>5, <1>7, <2>1, <2>2, ShortReports
    DEF Started, StartedEnds, OnlyAt, Unused, IpTypes, SetFns
<1> QED
  BY <1>2, <1>6, <1>7

\* addIPv6Neighbor throws, reports an error, or sends its command.
LEMMA AddIPv6NeighborStarts ==
    ASSUME CourseInv, NEW o \in Ops, NEW c, NEW i, AddIPv6NeighborCall(o, c, i)
    PROVE  Started(o, c, i) /\ StartedEnds(o, c)
<1>1. Called(o, c, i) /\ Unused(o)
  BY BeforeStart DEF AddIPv6NeighborCall
<1>2. c.fn = "addIPv6Neighbor" /\ UNCHANGED inq /\ OnlyAt(thrown, thrown', o)
  BY <1>1 DEF AddIPv6NeighborCall, OnlyAt, Unused, IpTypes
<1>3. Callback(o, <<"err">>) => cbs' = [cbs EXCEPT ![o] = <<"err">>]
  BY <1>1, ShortReports, FirstOutcomes DEF Unused, IpTypes
<1>4. OnlyAt(cbs, cbs', o) /\ (cbs'[o] = <<>> \/ cbs'[o] = <<"err">>)
  BY <1>1, <1>3 DEF AddIPv6NeighborCall, OnlyAt, Unused, IpTypes
<1>5. /\ OnlyAt(own, own', o) /\ OnlyAt(reqs, reqs', o)
      /\ reqs'[o] = {} \/ (reqs'[o] = {Ask("set", NoCall)} /\ own'[o] = "open")
  BY <1>1 DEF AddIPv6NeighborCall, OnlyAt, Unused, IpTypes
<1>6. Ask("set", NoCall).cmd = "set"
  BY DEF Ask
<1> QED
  BY <1>1, <1>2, <1>4, <1>5, <1>6, ShortReports
  DEF Started, StartedEnds, OnlyAt, Unused, IpTypes, SetFns, OrderlyFns

\* addrlabel sends nothing and is not Orderly.
LEMMA AddrLabelStarts ==
    ASSUME CourseInv, NEW o \in Ops, NEW c, NEW i, AddrLabelCall(o, c, i)
    PROVE  Started(o, c, i) /\ StartedEnds(o, c)
<1>1. Called(o, c, i) /\ Unused(o)
  BY BeforeStart DEF AddrLabelCall
<1>2. PICK bad \in CreateErrors(c) :
          /\ own' = [own EXCEPT ![o] = OwnSocket(bad)]
          /\ Callback(o, CreateReport(bad)) \/ Callback(o, CreateReport(bad) \o <<"err">>)
  BY DEF AddrLabelCall
<1>3. bad \in BOOLEAN
  BY DEF CreateErrors
<1>4. c.fn = "addrlabel" /\ UNCHANGED <<inq, reqs>> /\ OnlyAt(thrown, thrown', o)
  BY <1>1 DEF AddrLabelCall, OnlyAt, Unused, IpTypes
<1>5. \/ cbs' = [cbs EXCEPT ![o] = CreateReport(bad)]
      \/ cbs' = [cbs EXCEPT ![o] = CreateReport(bad) \o <<"err">>]
  BY <1>1, <1>2, <1>3, Reports, FirstOutcomes DEF Unused, IpTypes
<1>6. OnlyAt(cbs, cbs', o) /\ cbs'[o] \in {<<>>, <<"err">>, <<"err", "err">>}
  BY <1>1, <1>3, <1>5, Reports DEF OnlyAt, Unused, IpTypes
<1> QED
  BY <1>1, <1>2, <1>4, <1>6, ShortReports
  DEF Started, StartedEnds, OnlyAt, Unused, IpTypes, SetFns, OrderlyFns

\* Every call, whatever its function and arguments.
LEMMA StartStarts ==
    ASSUME CourseInv, NEW o \in Ops, NEW c, NEW i, Start(o, c, i)
    PROVE  Started(o, c, i) /\ (AddressCreates => StartedEnds(o, c))
BY RejectStarts, UnsupportedStarts, LateRejectStarts, InquiryStarts, AddressInquiryStarts,
   CommandStarts, ThrowStarts, AddressStarts, AddIPv6NeighborStarts, AddrLabelStarts DEF Start

-----------------------------------------------------------------------------
(* The course of a call *)

\* A step of one call leaves the course of the others alone.
SameCourse(p) ==
    /\ call'[p] = call[p] /\ own'[p] = own[p] /\ inq'[p] = inq[p] /\ reqs'[p] = reqs[p]
    /\ dump'[p] = dump[p] /\ todo'[p] = todo[p] /\ togo'[p] = togo[p] /\ cbs'[p] = cbs[p]
    /\ js' = p <=> js = p

\* A step of another call leaves the course of p alone.
LEMMA CourseKeeps ==
    ASSUME NEW p \in Ops, Course(p), SameCourse(p) PROVE Course(p)'
<1>1. Flushing(p)' <=> Flushing(p)
  BY DEF Flushing, SameCourse
<1>2. Outstanding(p)' <=> Outstanding(p)
  BY DEF Outstanding, SameCourse
<1> QED
  BY <1>1, <1>2 DEF Course, SameCourse

\* Every kind of call begins a course.
LEMMA StartCourse ==
    ASSUME CourseInv, NEW o \in Ops, NEW c \in Calls, NEW i, Started(o, c, i)
    PROVE  CourseInv'
<1>1. Called(o, c, i) /\ Unused(o) /\ Course(o)
  BY BeforeStart DEF Started, CourseInv
<1>2. IpTypes'
  BY <1>1 DEF Started, Called, IpTypes, OnlyAt, CourseInv, flushVars
<1>3. ASSUME NEW p \in Ops, p # o PROVE Course(p)'
  <2>1. SameCourse(p)
    BY <1>1, <1>3 DEF SameCourse, Started, Called, OnlyAt, IpTypes, CourseInv, flushVars
  <2> QED BY <2>1, CourseKeeps DEF CourseInv
<1>4. Course(o)'
  <2>1. /\ call'[o] = c /\ c \in [fn: Fns, arg: Args] /\ c # NoCall
        /\ js' # o /\ todo'[o] = {} /\ togo'[o] = togo[o] /\ dump'[o] = dump[o]
    BY <1>1, CallsType, NamesApart DEF Started, Called, IpTypes, CourseInv, flushVars, Course
  <2>2. /\ Ask("getlink", NoCall) \in Request /\ Ask("set", NoCall) \in Request
        /\ Ask("getlink", NoCall).cmd = "getlink" /\ Ask("set", NoCall).cmd = "set"
    BY DEF Ask, Request, Cmds
  <2>3. /\ reqs'[o] \subseteq Request /\ ~Flushing(o)' /\ IsFiniteSet(reqs'[o])
        /\ \A q \in reqs'[o] : SentBy(c.fn, q) /\ reqs'[o] = {q}
    <3>1. reqs'[o] = {} \/ \E a \in Request : reqs'[o] = {a} /\ a.cmd # "del" /\ SentBy(c.fn, a)
      <4>1. reqs'[o] = {Ask("getlink", NoCall)} /\ c.fn \in {"getLinks", "list", "listRoutes", "show", "flush"}
              => SentBy(c.fn, Ask("getlink", NoCall))
        BY <2>2 DEF SentBy
      <4>2. reqs'[o] = {Ask("set", NoCall)} /\ c.fn \in SetFns => SentBy(c.fn, Ask("set", NoCall))
        BY <2>2 DEF SentBy
      <4> QED BY <2>2, <4>1, <4>2 DEF Started
    <3>2. IsFiniteSet(reqs'[o])
      <4>1. IsFiniteSet({}) /\ \A a : IsFiniteSet({a})
        BY FS_EmptySet, FS_Singleton
      <4> QED BY <3>1, <4>1
    <3> QED BY <2>1, <3>1, <3>2 DEF Flushing
  <2>4. Outstanding(o)' => cbs'[o] = <<>> \/ cbs'[o] = <<"err">>
    BY <2>1 DEF Outstanding, Started
  <2>5. /\ dump[o] \subseteq Objects /\ togo[o] \in Int /\ cbs'[o] \in Seq(Outcomes)
        /\ IsFiniteSet({})
    BY <1>1, FS_EmptySet DEF Course, Started
  <2> QED
    BY <2>1, <2>3, <2>4, <2>5 DEF Course
<1> QED
  BY <1>2, <1>3, <1>4 DEF CourseInv

\* A request that has been answered is still the same one.
LEMMA SettleCourse ==
    ASSUME CourseInv, NEW o \in Ops, NEW q \in reqs[o], NEW st \in {"ok", "err"}, Settle(o, q, st),
           call'[o] = call[o], own'[o] = own[o], inq'[o] = inq[o],
           dump'[o] \subseteq Objects, todo'[o] = todo[o], togo'[o] = togo[o], cbs'[o] = cbs[o],
           js' = js
    PROVE  Course(o)'
<1> DEFINE r == [q EXCEPT !.st = st]
<1>1. Course(o) /\ q \in Request
  BY DEF CourseInv, Course
<1>2. r \in Request /\ r.cmd = q.cmd /\ r.key = q.key
  BY <1>1 DEF Request
<1>3. reqs'[o] = (reqs[o] \ {q}) \cup {r}
  BY DEF Settle, CourseInv, IpTypes
<1> HIDE DEF r
<1>4. r \notin reqs[o] \ {q}
  BY <1>1, <1>2 DEF Course
<1>5. IsFiniteSet(reqs'[o]) /\ Cardinality(reqs'[o]) = Cardinality(reqs[o])
  <2>1. IsFiniteSet(reqs[o])
    BY <1>1 DEF Course
  <2>2. IsFiniteSet(reqs[o] \ {q}) /\ Cardinality(reqs[o] \ {q}) = Cardinality(reqs[o]) - 1
        /\ Cardinality(reqs[o]) \in Nat
    BY <2>1, FS_RemoveElement, FS_CardinalityType
  <2>3. IsFiniteSet((reqs[o] \ {q}) \cup {r})
        /\ Cardinality((reqs[o] \ {q}) \cup {r}) = Cardinality(reqs[o] \ {q}) + 1
    BY <1>4, <2>2, FS_AddElement
  <2> QED BY <1>3, <2>2, <2>3
<1>6. Flushing(o)' <=> Flushing(o)
  BY <1>2, <1>3 DEF Flushing
<1>7. Outstanding(o)' <=> Outstanding(o)
  BY <1>3 DEF Outstanding
<1>8. \A s \in reqs'[o] :
         /\ SentBy(call[o].fn, s)
         /\ s.cmd # "del" => reqs'[o] = {s} /\ todo[o] = {}
         /\ s.key \notin todo[o]
         /\ \A t \in reqs'[o] : s.key = t.key => s = t
  <2>1. SentBy(call[o].fn, r)
    BY <1>1, <1>2 DEF Course, SentBy, Request, Cmds
  <2>2. \A s \in reqs[o] \ {q} : s.key # r.key
    BY <1>1, <1>2 DEF Course
  <2>3. \A s \in reqs[o] : s.cmd # "del" => reqs[o] = {s} /\ todo[o] = {}
    BY <1>1 DEF Course
  <2>4. q.cmd # "del" => reqs'[o] = {r}
    BY <1>1, <1>3 DEF Course
  <2> QED BY <1>1, <1>2, <1>3, <2>1, <2>2, <2>3, <2>4 DEF Course
<1>9. reqs'[o] \subseteq Request
  BY <1>1, <1>2, <1>3 DEF Course
<1>10. call[o] # NoCall
  BY <1>1 DEF Course
<1> QED
  BY <1>1, <1>5, <1>6, <1>7, <1>8, <1>9, <1>10 DEF Course

\* The kernel settles a request and leaves its call where it is.
LEMMA ServeCourse ==
    ASSUME CourseInv, NEW o \in Ops, NEW q \in reqs[o], Serve(o, q) \/ Refuse(o, q)
    PROVE  CourseInv'
<1>1. /\ UNCHANGED <<call, iface, own, inq, found, todo, togo, js, refused, cbs, thrown>>
      /\ \E st \in {"ok", "err"} : Settle(o, q, st)
  BY DEF Serve, Refuse, callVars, flushVars
<1>2. DOMAIN reqs' = Ops /\ \A p \in Ops \ {o} : reqs'[p] = reqs[p]
  BY <1>1 DEF Settle, CourseInv, IpTypes
<1>3. /\ DOMAIN dump' = Ops /\ dump'[o] \subseteq Objects /\ \A p \in Ops \ {o} : dump'[p] = dump[p]
      /\ DOMAIN snap' = Ops /\ DOMAIN kept' = Ops /\ DOMAIN fresh' = Ops
  BY DEF Serve, Refuse, CourseInv, IpTypes, Course, kernVars
<1>4. kern' \subseteq Objects /\ Linked(kern')
  <2>1. Course(o) /\ kern \subseteq Objects /\ Linked(kern)
    BY DEF CourseInv, IpTypes
  <2>2. q.cmd = "del" => q.key[2] # Link
    BY <2>1 DEF Course, SentBy
  <2>3. kern' = kern \/ (q.cmd = "del" /\ kern' = kern \ {q.key})
    BY DEF Serve, Refuse, kernVars
  <2>4. ASSUME q.key[2] # Link PROVE Linked(kern \ {q.key})
    <3>1. \A x : <<x[1], Link>> # q.key
      BY <2>4
    <3> QED BY <2>1, <3>1 DEF Linked
  <2> QED BY <2>1, <2>2, <2>3, <2>4 DEF Linked
<1>5. IpTypes'
  BY <1>1, <1>2, <1>3, <1>4 DEF IpTypes, CourseInv
<1>6. Course(o)'
  BY <1>1, <1>3, SettleCourse
<1>7. ASSUME NEW p \in Ops, p # o PROVE Course(p)'
  <2>1. SameCourse(p)
    BY <1>1, <1>2, <1>3, <1>7 DEF SameCourse
  <2> QED BY <2>1, CourseKeeps DEF CourseInv
<1> QED
  BY <1>5, <1>6, <1>7 DEF CourseInv

\* Another process changes the tables.
LEMMA ChangeCourse ==
    ASSUME CourseInv, NEW ks \in SUBSET Objects, Linked(ks), Change(ks)
    PROVE  CourseInv'
<1>1. IpTypes'
  BY DEF Change, IpTypes, CourseInv, callVars, flushVars
<1>2. ASSUME NEW p \in Ops PROVE Course(p)'
  <2>1. SameCourse(p)
    BY DEF SameCourse, Change, callVars, flushVars
  <2> QED BY <2>1, CourseKeeps DEF CourseInv
<1> QED
  BY <1>1, <1>2 DEF CourseInv

\* The tables stay linked: an address comes to a link, a link goes with its
\* addresses.
LEMMA ChangesLinked ==
    ASSUME CourseInv
    PROVE  /\ \A x \in Objects : ObjectAppears(x) => \E ks \in SUBSET Objects : Linked(ks) /\ Change(ks)
           /\ \A i \in Ifs : LinkGoes(i) => \E ks \in SUBSET Objects : Linked(ks) /\ Change(ks)
<1>1. kern \subseteq Objects /\ Linked(kern)
  BY DEF CourseInv, IpTypes
<1>2. ASSUME NEW x \in Objects, ObjectAppears(x)
      PROVE  \E ks \in SUBSET Objects : Linked(ks) /\ Change(ks)
  <2>1. kern \cup {x} \in SUBSET Objects /\ Change(kern \cup {x})
    BY <1>1, <1>2 DEF ObjectAppears
  <2>2. <<x[1], Link>> \in kern \cup {x}
    <3>1. x = <<x[1], x[2]>>
      BY DEF Objects
    <3> QED BY <1>2, <3>1 DEF ObjectAppears, Exists
  <2>3. Linked(kern \cup {x})
    BY <1>1, <2>2 DEF Linked
  <2> QED BY <2>1, <2>3
<1>3. ASSUME NEW i \in Ifs, LinkGoes(i)
      PROVE  \E ks \in SUBSET Objects : Linked(ks) /\ Change(ks)
  <2> DEFINE ks == {x \in kern : x[1] # i}
  <2>1. ks \in SUBSET Objects /\ Change(ks)
    BY <1>1, <1>3 DEF LinkGoes
  <2>2. Linked(ks)
    BY <1>1 DEF Linked
  <2> QED BY <2>1, <2>2
<1> QED
  BY <1>2, <1>3

\* A call that reports again.
LEMMA MoreOutcomes ==
    ASSUME CourseInv, NEW o \in Ops, NEW s \in Seq(Outcomes), Callback(o, s)
    PROVE  /\ OnlyAt(cbs, cbs', o) /\ cbs'[o] = cbs[o] \o s /\ cbs'[o] \in Seq(Outcomes)
           /\ cbs[o] = <<>> => cbs'[o] = s
<1>1. cbs[o] \in Seq(Outcomes)
  BY DEF CourseInv, Course
<1>2. cbs[o] \o s \in Seq(Outcomes) /\ <<>> \o s = s
  BY <1>1, ConcatProperties, ConcatEmptySeq
<1> QED
  BY <1>2 DEF Callback, OnlyAt, CourseInv, IpTypes

\* A call whose one request is done, or that goes on with another one, is not in
\* its forEach.
LEMMA NextRequest ==
    ASSUME CourseInv, NEW o \in Ops, NEW q \in reqs[o], js = Idle, q.cmd # "del",
           call' = call, iface' = iface, OnlyAt(own, own', o), OnlyAt(inq, inq', o),
           snap' = snap, dump' = dump, OnlyAt(found, found', o),
           UNCHANGED kernVars, UNCHANGED flushVars, thrown' = thrown,
           OnlyAt(reqs, reqs', o), OnlyAt(cbs, cbs', o), cbs'[o] \in Seq(Outcomes),
           \/ reqs'[o] = {}
           \/ /\ reqs'[o] = {Ask("get", NoCall)} /\ cbs'[o] = cbs[o]
              /\ call[o].fn \in {"list", "listRoutes", "show", "flush"}
    PROVE  CourseInv'
<1>1. Course(o) /\ IpTypes
  BY DEF CourseInv
<1>2. IpTypes'
  BY <1>1 DEF IpTypes, OnlyAt, kernVars, flushVars
<1>3. ASSUME NEW p \in Ops, p # o PROVE Course(p)'
  <2>1. SameCourse(p)
    BY <1>3 DEF SameCourse, OnlyAt, flushVars
  <2> QED BY <2>1, CourseKeeps DEF CourseInv
<1>4. Course(o)'
  <2>1. /\ todo'[o] = {} /\ togo'[o] = togo[o] /\ dump'[o] = dump[o] /\ js' # o
        /\ call'[o] = call[o] /\ call[o] # NoCall
    BY <1>1, NamesApart DEF Course, flushVars
  <2>2. Ask("get", NoCall) \in Request /\ Ask("get", NoCall).cmd = "get"
    BY DEF Ask, Request, Cmds
  <2>3. /\ reqs'[o] \subseteq Request /\ ~Flushing(o)' /\ IsFiniteSet(reqs'[o])
        /\ \A r \in reqs'[o] : SentBy(call[o].fn, r) /\ reqs'[o] = {r}
    <3>1. IsFiniteSet({}) /\ IsFiniteSet({Ask("get", NoCall)})
      BY FS_EmptySet, FS_Singleton
    <3>2. call[o].fn \in {"list", "listRoutes", "show", "flush"} => SentBy(call[o].fn, Ask("get", NoCall))
      BY <2>2 DEF SentBy
    <3> QED BY <2>1, <2>2, <3>1, <3>2 DEF Flushing
  <2>4. Outstanding(o)' => cbs'[o] = <<>> \/ cbs'[o] = <<"err">>
    BY <1>1, <2>1 DEF Outstanding, Course
  <2>5. IsFiniteSet({})
    BY FS_EmptySet
  <2> QED
    BY <1>1, <2>1, <2>3, <2>4, <2>5 DEF Course
<1> QED
  BY <1>2, <1>3, <1>4 DEF CourseInv

\* The callbacks of an inquiry and of a single command.
LEMMA ReplyCourse ==
    ASSUME CourseInv, NEW o \in Ops, NEW q \in reqs[o],
           \/ InquiryFails(o, q) \/ LinksReplied(o, q) \/ InquiryDone(o, q)
           \/ CommandReplied(o, q) \/ AddIPv6NeighborReplied(o, q)
    PROVE  CourseInv'
<1>1. IpTypes /\ Course(o) /\ q \in Request
  BY DEF CourseInv, Course
<1>2. js = Idle /\ q.st \in Outcomes
  BY <1>1 DEF InquiryFails, LinksReplied, InquiryDone, CommandReplied, AddIPv6NeighborReplied,
            InquiryReplied, Replied, Request, Outcomes
<1>3. <<"ok">> \in Seq(Outcomes) /\ <<"err">> \in Seq(Outcomes) /\ <<q.st>> \in Seq(Outcomes)
      /\ <<>> \in Seq(Outcomes)
  BY <1>2 DEF Outcomes
<1>4. CASE InquiryFails(o, q)
  <2>1. OnlyAt(cbs, cbs', o) /\ cbs'[o] \in Seq(Outcomes)
    BY <1>3, <1>4, MoreOutcomes DEF InquiryFails
  <2> QED
    BY <1>1, <1>2, <1>4, <2>1, NextRequest DEF InquiryFails, IpTypes, OnlyAt, callVars
<1>5. CASE LinksReplied(o, q)
  <2>1. call[o].fn \in {"list", "listRoutes", "show", "flush"}
    BY <1>1, <1>5 DEF LinksReplied, Course, SentBy
  <2>2. cbs' = cbs /\ cbs[o] \in Seq(Outcomes)
    BY <1>1, <1>5 DEF LinksReplied, Course
  <2> QED
    BY <1>1, <1>2, <1>5, <2>1, <2>2, NextRequest DEF LinksReplied, IpTypes, OnlyAt, callVars
<1>6. CASE InquiryDone(o, q)
  <2>1. OnlyAt(cbs, cbs', o) /\ cbs'[o] \in Seq(Outcomes)
    BY <1>3, <1>6, MoreOutcomes DEF InquiryDone
  <2>2. q.cmd # "del"
    BY <1>6 DEF InquiryDone, InquiryReplied
  <2> QED
    BY <1>1, <1>2, <1>6, <2>1, <2>2, NextRequest DEF InquiryDone, InquiryReplied, IpTypes, OnlyAt, callVars
<1>7. CASE CommandReplied(o, q)
  <2>1. OnlyAt(cbs, cbs', o) /\ cbs'[o] \in Seq(Outcomes)
    BY <1>3, <1>7, MoreOutcomes DEF CommandReplied
  <2> QED
    BY <1>1, <1>2, <1>7, <2>1, NextRequest DEF CommandReplied, IpTypes, OnlyAt, callVars
<1>8. CASE AddIPv6NeighborReplied(o, q)
  <2>1. OnlyAt(cbs, cbs', o) /\ cbs'[o] \in Seq(Outcomes)
    BY <1>3, <1>8, MoreOutcomes DEF AddIPv6NeighborReplied
  <2> QED
    BY <1>1, <1>2, <1>8, <2>1, NextRequest DEF AddIPv6NeighborReplied, IpTypes, OnlyAt, callVars
<1> QED
  BY <1>4, <1>5, <1>6, <1>7, <1>8

\* flush has its addresses.
LEMMA FlushBeginsCourse ==
    ASSUME CourseInv, NEW o \in Ops, NEW q \in reqs[o], FlushBegins(o, q)
    PROVE  CourseInv'
<1>1. IpTypes /\ Course(o) /\ js = Idle /\ js # o
  BY NamesApart DEF CourseInv, FlushBegins, InquiryReplied, Replied
<1>2. call[o].fn = "flush" /\ call[o] # NoCall /\ cbs[o] \in Seq(Outcomes)
  BY <1>1 DEF FlushBegins, Course
<1>3. Parsed(o) \subseteq Objects /\ \A x \in Parsed(o) : x[2] # Link
  BY <1>1, <1>2 DEF Parsed, Course
<1>4. IsFiniteSet(Parsed(o)) /\ Cardinality(Parsed(o)) \in Nat
  <2>1. IsFiniteSet(Addrs \cup {Link})
    BY FiniteTables, FS_AddElement
  <2>2. IsFiniteSet(Objects)
    BY <2>1, FiniteTables, FS_Product DEF Objects
  <2> QED BY <1>3, <2>2, FS_Subset, FS_CardinalityType
<1>5. /\ OnlyAt(cbs, cbs', o) /\ OnlyAt(own, own', o)
      /\ IF Parsed(o) = {} THEN cbs'[o] \in Seq(Outcomes) /\ js' = js
         ELSE cbs'[o] = cbs[o] /\ js' = o
  <2>1. CASE Parsed(o) = {}
    <3>1. <<"ok">> \in Seq(Outcomes)
      BY DEF Outcomes
    <3>2. FlushComplete(o) /\ js' = js
      BY <2>1 DEF FlushBegins
    <3> QED BY <1>1, <2>1, <3>1, <3>2, MoreOutcomes DEF FlushComplete, OnlyAt, IpTypes
  <2>2. CASE Parsed(o) # {}
    BY <1>1, <2>2 DEF FlushBegins, OnlyAt, IpTypes
  <2> QED BY <2>1, <2>2
<1>6. /\ OnlyAt(reqs, reqs', o) /\ reqs'[o] = {} /\ OnlyAt(inq, inq', o) /\ OnlyAt(found, found', o)
      /\ OnlyAt(todo, todo', o) /\ todo'[o] = Parsed(o)
      /\ OnlyAt(togo, togo', o) /\ togo'[o] = Cardinality(Parsed(o))
      /\ UNCHANGED <<kern, kept, fresh, call, iface, snap, dump, refused, thrown>>
  BY <1>1 DEF FlushBegins, InquiryReplied, OnlyAt, IpTypes, kernVars, callVars
<1>7. IpTypes'
  BY <1>1, <1>5, <1>6 DEF IpTypes, OnlyAt
<1>8. ASSUME NEW p \in Ops, p # o PROVE Course(p)'
  <2>1. SameCourse(p)
    BY <1>1, <1>5, <1>6, <1>8, NamesApart DEF SameCourse, OnlyAt
  <2> QED BY <2>1, CourseKeeps DEF CourseInv
<1>9. Course(o)'
  <2>1. Outstanding(o)' => cbs'[o] = <<>> \/ cbs'[o] = <<"err">>
    <3>1. cbs[o] = <<>> \/ cbs[o] = <<"err">>
      BY <1>1 DEF Course, Outstanding
    <3> QED BY <1>1, <1>5, <1>6, <3>1 DEF Outstanding
  <2>2. IsFiniteSet({}) /\ Cardinality({}) = 0
    BY FS_EmptySet
  <2>3. cbs'[o] \in Seq(Outcomes) /\ (js' = o <=> Parsed(o) # {})
    BY <1>1, <1>2, <1>5
  <2> HIDE DEF Parsed
  <2> QED
    BY <1>1, <1>2, <1>3, <1>4, <1>6, <2>1, <2>2, <2>3 DEF Course, Flushing
<1> QED
  BY <1>7, <1>8, <1>9 DEF CourseInv

\* keysToGo is one exactly at the last key.
LEMMA LastKey ==
    ASSUME NEW o \in Ops, Course(o), NEW x \in todo[o]
    PROVE  /\ IsFiniteSet(todo[o] \ {x}) /\ Cardinality(todo[o]) \in Nat /\ Cardinality(reqs[o]) \in Nat
           /\ Cardinality(todo[o] \ {x}) = Cardinality(todo[o]) - 1
           /\ togo[o] = Cardinality(todo[o]) + Cardinality(reqs[o])
           /\ togo[o] = 1 => todo[o] \ {x} = {} /\ reqs[o] = {}
<1>1. IsFiniteSet(todo[o]) /\ IsFiniteSet(reqs[o])
      /\ togo[o] = Cardinality(todo[o]) + Cardinality(reqs[o])
  BY DEF Course, Flushing
<1>2. /\ IsFiniteSet(todo[o] \ {x}) /\ Cardinality(todo[o] \ {x}) = Cardinality(todo[o]) - 1
  BY <1>1, FS_RemoveElement
<1>3. Cardinality(todo[o]) \in Nat /\ Cardinality(reqs[o]) \in Nat /\ Cardinality(todo[o] \ {x}) \in Nat
  BY <1>1, <1>2, FS_CardinalityType
<1>4. togo[o] = 1 => Cardinality(todo[o] \ {x}) = 0 /\ Cardinality(reqs[o]) = 0
  BY <1>1, <1>2, <1>3
<1>5. togo[o] = 1 => todo[o] \ {x} = {} /\ reqs[o] = {}
  BY <1>1, <1>2, <1>4, FS_EmptySet
<1> QED
  BY <1>1, <1>2, <1>3, <1>5

\* And exactly at the last command.
LEMMA LastCommand ==
    ASSUME NEW o \in Ops, Course(o), todo[o] = {}, NEW q \in reqs[o], q.cmd = "del"
    PROVE  /\ IsFiniteSet(reqs[o] \ {q}) /\ Cardinality(reqs[o]) \in Nat
           /\ Cardinality(reqs[o] \ {q}) = Cardinality(reqs[o]) - 1
           /\ togo[o] = Cardinality(reqs[o])
           /\ togo[o] = 1 => reqs[o] \ {q} = {}
<1>1. IsFiniteSet(reqs[o]) /\ Cardinality(todo[o]) = 0
      /\ togo[o] = Cardinality(todo[o]) + Cardinality(reqs[o])
  BY FS_EmptySet DEF Course, Flushing
<1>2. /\ IsFiniteSet(reqs[o] \ {q}) /\ Cardinality(reqs[o] \ {q}) = Cardinality(reqs[o]) - 1
  BY <1>1, FS_RemoveElement
<1>3. Cardinality(reqs[o]) \in Nat /\ Cardinality(reqs[o] \ {q}) \in Nat
  BY <1>1, <1>2, FS_CardinalityType
<1>4. togo[o] = 1 => Cardinality(reqs[o] \ {q}) = 0
  BY <1>1, <1>2, <1>3
<1>5. togo[o] = 1 => reqs[o] \ {q} = {}
  BY <1>2, <1>4, FS_EmptySet
<1> QED
  BY <1>1, <1>2, <1>3, <1>5

\* The countdown reports at its end and nowhere else.
LEMMA CountsDown ==
    ASSUME CourseInv, NEW o \in Ops, CountDown(o)
    PROVE  /\ OnlyAt(togo, togo', o) /\ togo'[o] = togo[o] - 1 /\ togo'[o] \in Int
           /\ OnlyAt(own, own', o) /\ OnlyAt(cbs, cbs', o) /\ cbs'[o] \in Seq(Outcomes)
           /\ IF togo[o] = 1 THEN own'[o] = "closed" /\ cbs'[o] = cbs[o] \o <<"ok">>
                                  /\ (cbs[o] = <<>> => cbs'[o] = <<"ok">>)
              ELSE own'[o] = own[o] /\ cbs'[o] = cbs[o]
<1>1. IpTypes /\ togo[o] \in Int /\ cbs[o] \in Seq(Outcomes) /\ <<"ok">> \in Seq(Outcomes)
  BY DEF CourseInv, Course, Outcomes
<1>2. OnlyAt(togo, togo', o) /\ togo'[o] = togo[o] - 1
  BY <1>1 DEF CountDown, OnlyAt, IpTypes
<1>3. CASE togo[o] = 1
  <2>1. own' = [own EXCEPT ![o] = "closed"] /\ Callback(o, <<"ok">>)
    BY <1>3 DEF CountDown, FlushComplete
  <2>2. /\ OnlyAt(cbs, cbs', o) /\ cbs'[o] = cbs[o] \o <<"ok">> /\ cbs'[o] \in Seq(Outcomes)
        /\ cbs[o] = <<>> => cbs'[o] = <<"ok">>
    BY <1>1, <2>1, MoreOutcomes
  <2>3. OnlyAt(own, own', o) /\ own'[o] = "closed"
    BY <1>1, <2>1 DEF OnlyAt, IpTypes
  <2> QED BY <1>1, <1>2, <1>3, <2>2, <2>3
<1>4. CASE togo[o] # 1
  BY <1>1, <1>2, <1>4 DEF CountDown, OnlyAt, IpTypes
<1> QED
  BY <1>3, <1>4

\* One key of the forEach.
LEMMA FlushKeyCourse ==
    ASSUME CourseInv, NEW o \in Ops, NEW x \in todo[o], FlushKey(o, x)
    PROVE  CourseInv'
<1>1. IpTypes /\ Course(o) /\ js = o /\ x \in Objects /\ x[2] # Link
  BY DEF CourseInv, FlushKey, Course
<1>2. /\ OnlyAt(todo, todo', o) /\ todo'[o] = todo[o] \ {x}
      /\ js' = (IF todo[o] = {x} THEN Idle ELSE o)
      /\ UNCHANGED <<kern, kept, fresh, call, iface, inq, snap, dump, found, thrown>>
  BY <1>1 DEF FlushKey, OnlyAt, IpTypes, kernVars, callVars
<1>3. js' = o <=> todo'[o] # {}
  BY <1>2, NamesApart
<1>4. /\ call[o] # NoCall /\ call[o].fn = "flush" /\ cbs[o] \in Seq(Outcomes) /\ togo[o] \in Int
      /\ \A r \in reqs[o] : r.cmd = "del"
      /\ cbs[o] = <<>> \/ cbs[o] = <<"err">>
  BY <1>1 DEF Course, Outstanding
<1>5. CASE Exists(iface[o])
  <2> DEFINE a == Ask("del", x)
  <2>1. a \in Request /\ a.cmd = "del" /\ a.key = x
    BY <1>1 DEF Ask, Request, Cmds
  <2>2. /\ OnlyAt(reqs, reqs', o) /\ reqs'[o] = reqs[o] \cup {a}
        /\ UNCHANGED <<togo, own, cbs, refused>>
    BY <1>1, <1>5 DEF FlushKey, OnlyAt, IpTypes
  <2> HIDE DEF a
  <2>3. \A r \in reqs[o] : r.key # x
    BY <1>1 DEF Course
  <2>4. IsFiniteSet(reqs[o]) /\ a \notin reqs[o]
    BY <1>1, <2>1, <2>3 DEF Course
  <2>5. IsFiniteSet(reqs'[o]) /\ Cardinality(reqs'[o]) = Cardinality(reqs[o]) + 1
    BY <2>2, <2>4, FS_AddElement
  <2>6. IpTypes'
    BY <1>1, <1>2, <2>2 DEF IpTypes, OnlyAt
  <2>7. ASSUME NEW p \in Ops, p # o PROVE Course(p)'
    <3>1. SameCourse(p)
      BY <1>1, <1>2, <2>2, <2>7, NamesApart DEF SameCourse, OnlyAt
    <3> QED BY <3>1, CourseKeeps DEF CourseInv
  <2>8. Course(o)'
    <3>1. togo'[o] = Cardinality(todo'[o]) + Cardinality(reqs'[o]) /\ IsFiniteSet(todo'[o])
      BY <1>1, <1>2, <2>2, <2>5, LastKey
    <3>2. SentBy(call[o].fn, a)
      BY <1>1, <1>4, <2>1 DEF SentBy
    <3>3. \A q \in reqs'[o] :
            /\ SentBy(call[o].fn, q) /\ q.cmd = "del" /\ q.key \notin todo'[o]
            /\ \A r \in reqs'[o] : q.key = r.key => q = r
      BY <1>1, <1>2, <1>4, <2>1, <2>2, <2>3, <3>2 DEF Course
    <3>4. reqs'[o] \subseteq Request /\ dump'[o] \subseteq Objects /\ todo'[o] \subseteq Objects
          /\ \A y \in todo'[o] : y[2] # Link
      BY <1>1, <1>2, <2>1, <2>2 DEF Course
    <3> QED
      BY <1>1, <1>2, <1>3, <1>4, <2>2, <2>5, <3>1, <3>3, <3>4 DEF Course
  <2> QED BY <2>6, <2>7, <2>8 DEF CourseInv
<1>6. CASE ~Exists(iface[o])
  <2>1. CountDown(o) /\ UNCHANGED reqs /\ DOMAIN refused' = Ops
    BY <1>1, <1>6 DEF FlushKey, IpTypes
  <2>2. IpTypes'
    BY <1>1, <1>2, <2>1, CountsDown DEF IpTypes, OnlyAt
  <2>3. ASSUME NEW p \in Ops, p # o PROVE Course(p)'
    <3>1. SameCourse(p)
      BY <1>1, <1>2, <2>1, <2>3, NamesApart, CountsDown DEF SameCourse, OnlyAt
    <3> QED BY <3>1, CourseKeeps DEF CourseInv
  <2>4. Course(o)'
    <3>1. togo'[o] = Cardinality(todo'[o]) + Cardinality(reqs'[o]) /\ IsFiniteSet(todo'[o])
      <4>1. /\ IsFiniteSet(todo[o] \ {x}) /\ Cardinality(todo[o]) \in Nat /\ Cardinality(reqs[o]) \in Nat
            /\ Cardinality(todo[o] \ {x}) = Cardinality(todo[o]) - 1
            /\ togo[o] = Cardinality(todo[o]) + Cardinality(reqs[o])
        BY <1>1, LastKey
      <4>2. togo'[o] = togo[o] - 1
        BY <2>1, CountsDown
      <4> QED BY <1>2, <2>1, <4>1, <4>2
    <3>2. Outstanding(o)' => cbs'[o] = <<>> \/ cbs'[o] = <<"err">>
      BY <1>1, <1>2, <1>3, <1>4, <2>1, LastKey, CountsDown DEF Outstanding
    <3>3. \A q \in reqs'[o] :
            /\ SentBy(call[o].fn, q) /\ q.cmd = "del" /\ q.key \notin todo'[o]
            /\ \A r \in reqs'[o] : q.key = r.key => q = r
      BY <1>1, <1>2, <1>4, <2>1 DEF Course
    <3>4. cbs'[o] \in Seq(Outcomes) /\ togo'[o] \in Int
      BY <2>1, CountsDown
    <3> QED
      BY <1>1, <1>2, <1>3, <1>4, <2>1, <3>1, <3>2, <3>3, <3>4 DEF Course
  <2> QED BY <2>2, <2>3, <2>4 DEF CourseInv
<1> QED
  BY <1>5, <1>6

\* One command of flush has called back.
LEMMA FlushRepliedCourse ==
    ASSUME CourseInv, NEW o \in Ops, NEW q \in reqs[o], FlushReplied(o, q)
    PROVE  CourseInv'
<1>1. IpTypes /\ Course(o) /\ js = Idle /\ js # o /\ todo[o] = {} /\ q.cmd = "del"
  BY NamesApart DEF CourseInv, FlushReplied, Replied, Course
<1>2. /\ OnlyAt(reqs, reqs', o) /\ reqs'[o] = reqs[o] \ {q} /\ CountDown(o) /\ DOMAIN refused' = Ops
      /\ UNCHANGED <<kern, kept, fresh, call, iface, inq, snap, dump, found, todo, js, thrown>>
  BY <1>1 DEF FlushReplied, OnlyAt, IpTypes, kernVars, callVars
<1>3. IpTypes'
  BY <1>1, <1>2, CountsDown DEF IpTypes, OnlyAt
<1>4. ASSUME NEW p \in Ops, p # o PROVE Course(p)'
  <2>1. SameCourse(p)
    BY <1>2, <1>4, CountsDown DEF SameCourse, OnlyAt
  <2> QED BY <2>1, CourseKeeps DEF CourseInv
<1>5. Course(o)'
  <2>1. /\ call[o] # NoCall
        /\ cbs[o] = <<>> \/ cbs[o] = <<"err">>
    BY <1>1 DEF Course, Outstanding
  <2>2. /\ togo'[o] = Cardinality(todo'[o]) + Cardinality(reqs'[o]) /\ IsFiniteSet(reqs'[o])
        /\ Cardinality({}) = 0
    <3>1. /\ IsFiniteSet(reqs[o] \ {q}) /\ Cardinality(reqs[o]) \in Nat
          /\ Cardinality(reqs[o] \ {q}) = Cardinality(reqs[o]) - 1
          /\ togo[o] = Cardinality(reqs[o])
      BY <1>1, LastCommand
    <3>2. togo'[o] = togo[o] - 1
      BY <1>2, CountsDown
    <3>3. Cardinality({}) = 0
      BY FS_EmptySet
    <3>4. todo'[o] = {} /\ reqs'[o] = reqs[o] \ {q}
      BY <1>1, <1>2
    <3>5. Cardinality(todo'[o]) = 0 /\ Cardinality(reqs'[o]) = Cardinality(reqs[o]) - 1
      BY <3>1, <3>3, <3>4
    <3> QED BY <3>1, <3>2, <3>3, <3>4, <3>5
  <2>3. Outstanding(o)' => cbs'[o] = <<>> \/ cbs'[o] = <<"err">>
    BY <1>1, <1>2, <2>1, LastCommand, CountsDown DEF Outstanding
  <2>4. \A r \in reqs'[o] :
          /\ SentBy(call[o].fn, r) /\ r.cmd = "del"
          /\ \A s \in reqs'[o] : r.key = s.key => r = s
    <3>1. \A r \in reqs[o] : r.cmd # "del" => reqs[o] = {r}
      BY <1>1 DEF Course
    <3>2. \A r \in reqs[o] : r.cmd = "del"
      BY <1>1, <3>1
    <3> QED BY <1>1, <1>2, <3>2 DEF Course
  <2>5. cbs'[o] \in Seq(Outcomes) /\ togo'[o] \in Int
    BY <1>2, CountsDown
  <2> QED
    BY <1>1, <1>2, <2>1, <2>2, <2>3, <2>4, <2>5 DEF Course
<1> QED
  BY <1>3, <1>4, <1>5 DEF CourseInv

\* Before any call.
LEMMA InitAll ==
    ASSUME Init PROVE CourseInv /\ SeenInv /\ EndsInv
<1>1. IpTypes
  BY DEF Init, IpTypes, Linked
<1>2. ASSUME NEW o \in Ops
      PROVE  /\ call[o] = NoCall /\ reqs[o] = {} /\ todo[o] = {} /\ cbs[o] = <<>> /\ togo[o] = 0
             /\ own[o] = "none" /\ inq[o] = "none" /\ dump[o] = {} /\ js # o /\ kept[o] = {}
             /\ <<>> # <<"ok">> /\ <<>> \in Seq(Outcomes)
  BY NamesApart, ShortReports DEF Init
<1>3. ASSUME NEW o \in Ops PROVE Course(o)
  <2>1. IsFiniteSet({}) /\ 0 \in Int
    BY FS_EmptySet
  <2>2. ~Flushing(o) /\ ~Outstanding(o)
    BY <1>2 DEF Flushing, Outstanding
  <2> QED BY <1>2, <2>1, <2>2 DEF Course
<1>4. ASSUME NEW o \in Ops PROVE Seen(o)
  BY <1>2 DEF Seen, Linked, LinksKnown, ObjectsKnown, Flushing
<1>5. ASSUME NEW o \in Ops PROVE Ends(o)
  BY <1>2 DEF Ends, Orderly
<1> QED
  BY <1>1, <1>3, <1>4, <1>5 DEF CourseInv, SeenInv, EndsInv

\* The callbacks of the requests, and the keys of a flush, one by one.
LEMMA StepCourse ==
    ASSUME CourseInv, [Next]_vars PROVE CourseInv'
<1>1. ASSUME NEW o \in Ops, NEW c \in Calls, NEW i \in Ifs \cup {AnyIf}, Start(o, c, i)
      PROVE  CourseInv'
  BY <1>1, StartStarts, StartCourse
<1>2. ASSUME NEW o \in Ops, ForEach(o) PROVE CourseInv'
  BY <1>2, FlushKeyCourse DEF ForEach
<1>3. ASSUME NEW o \in Ops, Replies(o) PROVE CourseInv'
  BY <1>3, ReplyCourse, FlushBeginsCourse, FlushRepliedCourse DEF Replies, Reply
<1>4. ASSUME NEW o \in Ops, Serves(o) PROVE CourseInv'
  BY <1>4, ServeCourse DEF Serves
<1>5. ASSUME (\E x \in Objects : ObjectAppears(x)) \/ (\E i \in Ifs : LinkGoes(i)) PROVE CourseInv'
  BY <1>5, ChangesLinked, ChangeCourse
<1>6. ASSUME UNCHANGED vars PROVE CourseInv'
  <2>1. IpTypes'
    BY <1>6 DEF CourseInv, IpTypes, vars
  <2>2. \A p \in Ops : SameCourse(p)
    BY <1>6 DEF SameCourse, vars
  <2> QED BY <2>1, <2>2, CourseKeeps DEF CourseInv
<1> QED
  BY <1>1, <1>2, <1>3, <1>4, <1>5, <1>6 DEF Next

-----------------------------------------------------------------------------
(* Callbacks and sockets *)

\* A step that leaves the course of p alone keeps what Ends says of it.
LEMMA EndsKeeps ==
    ASSUME NEW p \in Ops, Ends(p), SameCourse(p) PROVE Ends(p)'
<1>1. (Outstanding(p)' <=> Outstanding(p)) /\ (Orderly(p)' <=> Orderly(p))
  BY DEF Outstanding, Orderly, SameCourse
<1> QED
  BY <1>1 DEF Ends, SameCourse

\* A call begins with its sockets and callbacks as Ends says.
LEMMA StartEnds ==
    ASSUME CourseInv, EndsInv, NEW o \in Ops, NEW c \in Calls, NEW i,
           Started(o, c, i), StartedEnds(o, c)
    PROVE  EndsInv'
<1>1. Called(o, c, i) /\ Unused(o) /\ Course(o)
  BY BeforeStart DEF Started, CourseInv
<1>2. ASSUME NEW p \in Ops, p # o PROVE Ends(p)'
  <2>1. SameCourse(p)
    BY <1>1, <1>2 DEF SameCourse, Started, Called, OnlyAt, IpTypes, CourseInv, flushVars
  <2> QED BY <2>1, EndsKeeps DEF EndsInv
<1>3. Ends(o)'
  <2>1. call'[o] = c /\ js' # o
    BY <1>1, NamesApart DEF Started, Called, IpTypes, CourseInv, flushVars
  <2>2. Outstanding(o)' <=> reqs'[o] # {}
    BY <2>1 DEF Outstanding
  <2>3. Orderly(o)' => c.fn \in OrderlyFns /\ c.arg \in {"good", "bad", "badaddr"}
    BY <2>1 DEF Orderly, OrderlyFns
  <2>4. \A q \in reqs'[o] : (q.cmd = "getlink" \/ (q.cmd = "set" /\ c.fn \in SetFns))
    BY DEF Started, Ask
  <2>5. Len(<<>>) = 0
    OBVIOUS
  <2> QED
    BY <2>1, <2>2, <2>3, <2>4, <2>5 DEF Ends, StartedEnds
<1> QED
  BY <1>2, <1>3 DEF EndsInv

\* The kernel opens no socket and runs no callback.
LEMMA ServeEnds ==
    ASSUME CourseInv, EndsInv, NEW o \in Ops, NEW q \in reqs[o], Serve(o, q) \/ Refuse(o, q)
    PROVE  EndsInv'
<1>1. /\ UNCHANGED <<call, own, inq, todo, togo, js, cbs>>
      /\ \E st \in {"ok", "err"} : Settle(o, q, st)
  BY DEF Serve, Refuse, callVars, flushVars
<1>2. ASSUME NEW p \in Ops, p # o PROVE Ends(p)'
  <2>1. reqs'[p] = reqs[p]
    BY <1>1, <1>2 DEF Settle, CourseInv, IpTypes
  <2>2. (Outstanding(p)' <=> Outstanding(p)) /\ (Orderly(p)' <=> Orderly(p))
    BY <1>1, <2>1 DEF Outstanding, Orderly
  <2> QED BY <1>1, <2>1, <2>2 DEF Ends, EndsInv
<1>3. Ends(o)'
  <2>1. PICK st \in {"ok", "err"} : reqs'[o] = (reqs[o] \ {q}) \cup {[q EXCEPT !.st = st]}
    BY <1>1 DEF Settle, CourseInv, IpTypes
  <2>2. q \in Request
    BY DEF CourseInv, Course
  <2>3. [q EXCEPT !.st = st].cmd = q.cmd
    BY <2>2 DEF Request
  <2>4. (Outstanding(o)' <=> Outstanding(o)) /\ (Orderly(o)' <=> Orderly(o))
    BY <1>1, <2>1 DEF Outstanding, Orderly
  <2>5. \A r \in reqs'[o] : \E t \in reqs[o] : t.cmd = r.cmd
    BY <2>1, <2>3
  <2> QED BY <1>1, <2>4, <2>5 DEF Ends, EndsInv
<1> QED
  BY <1>2, <1>3 DEF EndsInv

\* The callbacks of an inquiry and of a single command: what is left open is the
\* socket of the next request.
LEMMA NextRequestEnds ==
    ASSUME CourseInv, EndsInv, NEW o \in Ops, NEW q \in reqs[o], js = Idle, q.cmd # "del",
           call' = call, dump' = dump, OnlyAt(own, own', o), OnlyAt(inq, inq', o),
           UNCHANGED flushVars, OnlyAt(reqs, reqs', o), OnlyAt(cbs, cbs', o),
           \/ /\ reqs'[o] = {}
              /\ Orderly(o) => Len(cbs'[o]) = 1 /\ own'[o] # "open" /\ inq'[o] # "open"
              /\ call[o].fn \in SetFns => inq'[o] = inq[o]
              /\ call[o].fn \in {"getLinks", "list", "listRoutes"} => own'[o] = own[o]
           \/ /\ reqs'[o] = {Ask("get", NoCall)} /\ q.cmd = "getlink"
              /\ cbs'[o] = cbs[o] /\ own'[o] = own[o] /\ inq'[o] = inq[o]
    PROVE  EndsInv'
<1>1. Course(o) /\ IpTypes /\ Ends(o)
  BY DEF CourseInv, EndsInv
<1>2. ASSUME NEW p \in Ops, p # o PROVE Ends(p)'
  <2>1. SameCourse(p)
    BY <1>2 DEF SameCourse, OnlyAt, flushVars
  <2> QED BY <2>1, EndsKeeps DEF EndsInv
<1>3. js' # o /\ call'[o] = call[o] /\ (Orderly(o)' <=> Orderly(o)) /\ call[o] # NoCall
  BY <1>1, NamesApart DEF flushVars, Orderly, Course
<1>4. Outstanding(o)' <=> reqs'[o] # {}
  BY <1>3 DEF Outstanding
<1>5. ASSUME reqs'[o] = {} PROVE Ends(o)'
  <2>1. /\ Orderly(o) => Len(cbs'[o]) = 1 /\ own'[o] # "open" /\ inq'[o] # "open"
        /\ call[o].fn \in SetFns => inq'[o] = inq[o]
        /\ call[o].fn \in {"getLinks", "list", "listRoutes"} => own'[o] = own[o]
    BY <1>5
  <2>2. /\ call[o].fn \in SetFns => inq[o] = "none"
        /\ call[o].fn \in {"getLinks", "list", "listRoutes"} => own[o] = "none"
    BY <1>1, <1>3 DEF Ends
  <2> QED BY <1>3, <1>4, <1>5, <2>1, <2>2 DEF Ends
<1>6. ASSUME reqs'[o] # {} PROVE Ends(o)'
  <2>1. /\ reqs'[o] = {Ask("get", NoCall)} /\ q.cmd = "getlink"
        /\ cbs'[o] = cbs[o] /\ own'[o] = own[o] /\ inq'[o] = inq[o]
    BY <1>6
  <2>2. Ask("get", NoCall).cmd = "get"
    BY DEF Ask
  <2>3. Outstanding(o) /\ Outstanding(o)' /\ inq[o] = "open"
    BY <1>1, <1>4, <1>6, <2>1 DEF Outstanding, Ends
  <2>4. /\ \A r \in reqs'[o] : r.cmd = "get"
        /\ js' # o
    BY <1>3, <2>1, <2>2
  <2> QED
    BY <1>1, <1>3, <2>1, <2>3, <2>4 DEF Ends
<1> QED
  BY <1>2, <1>5, <1>6 DEF EndsInv

\* A reply that ends a call outside flush closes the socket and reports once.
LEMMA ReplyEnds ==
    ASSUME CourseInv, EndsInv, NEW o \in Ops, NEW q \in reqs[o],
           \/ InquiryFails(o, q) \/ LinksReplied(o, q) \/ InquiryDone(o, q)
           \/ CommandReplied(o, q) \/ AddIPv6NeighborReplied(o, q)
    PROVE  EndsInv'
<1>1. IpTypes /\ Course(o) /\ Ends(o) /\ q \in Request /\ SentBy(call[o].fn, q)
  BY DEF CourseInv, EndsInv, Course
<1>2. js = Idle /\ q.st \in Outcomes
  BY <1>1 DEF InquiryFails, LinksReplied, InquiryDone, CommandReplied, AddIPv6NeighborReplied,
            InquiryReplied, Replied, Request, Outcomes
<1>3. Orderly(o) => cbs[o] = <<>>
  <2>1. cbs[o] \in Seq(Outcomes) /\ Outstanding(o)
    BY <1>1 DEF Course, Outstanding
  <2>2. Orderly(o) => Len(cbs[o]) = 0
    BY <1>1, <2>1 DEF Ends
  <2> QED BY <2>1, <2>2, EmptySeq
<1>4. ASSUME NEW s \in Outcomes, Callback(o, <<s>>)
      PROVE  OnlyAt(cbs, cbs', o) /\ (Orderly(o) => Len(cbs'[o]) = 1)
  <2>1. <<s>> \in Seq(Outcomes) /\ Len(<<s>>) = 1
    BY <1>4
  <2> QED BY <1>3, <1>4, <2>1, MoreOutcomes
<1>5. "ok" \in Outcomes /\ "err" \in Outcomes
  BY DEF Outcomes
<1>6. CASE InquiryFails(o, q)
  <2>1. q.cmd \in {"getlink", "get"} /\ call[o].fn \notin SetFns
    BY <1>1, <1>6 DEF InquiryFails, SentBy, SetFns
  <2>2. OnlyAt(own, own', o) /\ OnlyAt(inq, inq', o) /\ OnlyAt(reqs, reqs', o)
        /\ reqs'[o] = {} /\ inq'[o] = "closed"
        /\ own'[o] = (IF call[o].fn = "flush" THEN "closed" ELSE own[o])
    BY <1>1, <1>6 DEF InquiryFails, IpTypes, OnlyAt
  <2>3. Orderly(o) => own'[o] # "open"
    BY <1>1, <2>1, <2>2 DEF Orderly, Ends, SetFns
  <2>4. OnlyAt(cbs, cbs', o) /\ (Orderly(o) => Len(cbs'[o]) = 1)
    BY <1>4, <1>5, <1>6 DEF InquiryFails
  <2>5. call' = call /\ dump' = dump /\ UNCHANGED flushVars
    BY <1>6 DEF InquiryFails, callVars
  <2>6. call[o].fn \in {"getLinks", "list", "listRoutes"} => own'[o] = own[o]
    BY <2>2
  <2> QED BY <1>2, <2>1, <2>2, <2>3, <2>4, <2>5, <2>6, NextRequestEnds
<1>7. CASE LinksReplied(o, q)
  BY <1>1, <1>2, <1>7, NextRequestEnds DEF LinksReplied, IpTypes, OnlyAt, callVars
<1>8. CASE InquiryDone(o, q)
  <2>1. q.cmd \in {"getlink", "get"} /\ call[o].fn \in {"getLinks", "list", "listRoutes", "show"}
    BY <1>1, <1>8 DEF InquiryDone, InquiryReplied, SentBy
  <2>2. OnlyAt(inq, inq', o) /\ OnlyAt(reqs, reqs', o) /\ OnlyAt(own, own', o)
        /\ reqs'[o] = {} /\ inq'[o] = "closed" /\ own' = own
    BY <1>1, <1>8 DEF InquiryDone, InquiryReplied, IpTypes, OnlyAt
  <2>3. Orderly(o) => own'[o] # "open"
    BY <1>1, <2>1, <2>2 DEF Orderly, Ends
  <2>4. OnlyAt(cbs, cbs', o) /\ (Orderly(o) => Len(cbs'[o]) = 1)
    BY <1>4, <1>5, <1>8 DEF InquiryDone
  <2>5. call' = call /\ dump' = dump /\ UNCHANGED flushVars
    BY <1>8 DEF InquiryDone, callVars
  <2>6. call[o].fn \notin SetFns
    BY <2>1 DEF SetFns
  <2> QED BY <1>2, <2>1, <2>2, <2>3, <2>4, <2>5, <2>6, NextRequestEnds
<1>9. CASE CommandReplied(o, q)
  <2>1. q.cmd = "set" /\ call[o].fn \in SetFns /\ call[o].fn \notin {"getLinks", "list", "listRoutes"}
    BY <1>1, <1>9 DEF CommandReplied, SentBy, SetFns
  <2>2. inq[o] # "open"
    BY <1>1, <2>1 DEF Ends
  <2>3. OnlyAt(cbs, cbs', o) /\ (Orderly(o) => Len(cbs'[o]) = 1)
    BY <1>2, <1>4, <1>9 DEF CommandReplied
  <2>4. /\ OnlyAt(own, own', o) /\ OnlyAt(inq, inq', o) /\ OnlyAt(reqs, reqs', o)
        /\ reqs'[o] = {} /\ own'[o] = "closed" /\ inq'[o] = inq[o]
        /\ call' = call /\ dump' = dump /\ UNCHANGED flushVars
    BY <1>1, <1>9 DEF CommandReplied, IpTypes, OnlyAt, callVars
  <2> QED BY <1>2, <2>1, <2>2, <2>3, <2>4, NextRequestEnds
<1>10. CASE AddIPv6NeighborReplied(o, q)
  <2>1. q.cmd = "set" /\ call[o].fn = "addIPv6Neighbor" /\ ~Orderly(o)
    BY <1>10 DEF AddIPv6NeighborReplied, Orderly
  <2>2. <<"err">> \in Seq(Outcomes) /\ <<>> \in Seq(Outcomes)
    BY ShortReports
  <2>3. OnlyAt(cbs, cbs', o)
    BY <1>10, <2>2, MoreOutcomes DEF AddIPv6NeighborReplied
  <2>4. /\ OnlyAt(own, own', o) /\ OnlyAt(inq, inq', o) /\ OnlyAt(reqs, reqs', o)
        /\ reqs'[o] = {} /\ inq'[o] = inq[o]
        /\ call' = call /\ dump' = dump /\ UNCHANGED flushVars
    BY <1>1, <1>10 DEF AddIPv6NeighborReplied, IpTypes, OnlyAt, callVars
  <2> QED BY <1>2, <2>1, <2>3, <2>4, NextRequestEnds
<1> QED
  BY <1>6, <1>7, <1>8, <1>9, <1>10

\* A flush that is under way has reported nothing.
LEMMA FlushSilent ==
    ASSUME CourseInv, EndsInv, NEW o \in Ops, call[o] # NoCall, call[o].fn = "flush", Outstanding(o)
    PROVE  /\ Orderly(o) => cbs[o] = <<>>
           /\ own[o] = "open"
<1>1. Ends(o) /\ cbs[o] \in Seq(Outcomes)
  BY DEF CourseInv, EndsInv, Course
<1>2. Orderly(o) => Len(cbs[o]) = 0
  BY <1>1 DEF Ends
<1>3. own[o] = "open"
  BY <1>1 DEF Ends
<1> QED
  BY <1>1, <1>2, <1>3, EmptySeq

\* The reply that starts the forEach of flush: with no key it ends the call, with
\* keys it closes the inquiry only.
LEMMA FlushBeginsEnds ==
    ASSUME CourseInv, EndsInv, NEW o \in Ops, NEW q \in reqs[o], FlushBegins(o, q)
    PROVE  EndsInv'
<1>1. IpTypes /\ Course(o) /\ Ends(o) /\ js = Idle /\ js # o
  BY NamesApart DEF CourseInv, EndsInv, FlushBegins, InquiryReplied, Replied
<1>2. call[o] # NoCall /\ call[o].fn = "flush" /\ Outstanding(o)
  BY <1>1 DEF FlushBegins, Course, Outstanding
<1>3. (Orderly(o) => cbs[o] = <<>>) /\ own[o] = "open"
  BY <1>2, FlushSilent
<1>4. /\ OnlyAt(reqs, reqs', o) /\ reqs'[o] = {} /\ OnlyAt(inq, inq', o) /\ inq'[o] = "closed"
      /\ OnlyAt(todo, todo', o) /\ OnlyAt(togo, togo', o) /\ call' = call /\ dump' = dump
  BY <1>1 DEF FlushBegins, InquiryReplied, OnlyAt, IpTypes, callVars
<1>5. \/ FlushComplete(o) /\ js' = js
      \/ js' = o /\ UNCHANGED <<own, cbs>>
  BY DEF FlushBegins
<1>6. <<"ok">> \in Seq(Outcomes) /\ Len(<<"ok">>) = 1 /\ Len(<<>>) = 0
  BY DEF Outcomes
<1>7. OnlyAt(own, own', o) /\ OnlyAt(cbs, cbs', o)
  BY <1>1, <1>5, <1>6, MoreOutcomes DEF FlushComplete, OnlyAt, IpTypes
<1>8. ASSUME NEW p \in Ops, p # o PROVE Ends(p)'
  <2>1. SameCourse(p)
    BY <1>1, <1>4, <1>5, <1>7, <1>8, NamesApart DEF SameCourse, OnlyAt
  <2> QED BY <2>1, EndsKeeps DEF EndsInv
<1>9. Ends(o)'
  <2>1. (Orderly(o)' <=> Orderly(o)) /\ (Outstanding(o)' <=> js' = o)
    BY <1>4 DEF Orderly, Outstanding
  <2>2. CASE FlushComplete(o) /\ js' = js
    <3>1. own'[o] = "closed" /\ (Orderly(o) => cbs'[o] = <<"ok">>)
      BY <1>1, <1>3, <1>6, <2>2, MoreOutcomes DEF FlushComplete, IpTypes
    <3>2. ~Outstanding(o)' /\ (Orderly(o) => Len(cbs'[o]) = 1)
      BY <1>1, <1>6, <2>1, <2>2, <3>1
    <3> QED BY <1>1, <1>2, <1>4, <2>1, <2>2, <3>1, <3>2 DEF Ends, SetFns
  <2>3. CASE js' = o /\ UNCHANGED <<own, cbs>>
    BY <1>2, <1>3, <1>4, <1>6, <2>1, <2>3 DEF Ends, SetFns
  <2> QED BY <1>5, <2>2, <2>3
<1> QED
  BY <1>8, <1>9 DEF EndsInv

\* The steps of a flush that is under way, by what they leave behind.
LEMMA FlushStepEnds ==
    ASSUME CourseInv, EndsInv, NEW o \in Ops, call[o] # NoCall, call[o].fn = "flush", Outstanding(o),
           inq[o] # "open",
           call' = call, dump' = dump, inq' = inq, OnlyAt(todo, todo', o), OnlyAt(togo, togo', o),
           OnlyAt(reqs, reqs', o), \A r \in reqs'[o] : r.cmd = "del",
           OnlyAt(own, own', o), OnlyAt(cbs, cbs', o), \A p \in Ops \ {o} : js' = p <=> js = p,
           \/ Outstanding(o)' /\ own'[o] = own[o] /\ cbs'[o] = cbs[o]
           \/ ~Outstanding(o)' /\ own'[o] = "closed" /\ (cbs[o] = <<>> => cbs'[o] = <<"ok">>)
    PROVE  EndsInv'
<1>1. (Orderly(o) => cbs[o] = <<>>) /\ own[o] = "open"
  BY FlushSilent
<1>2. ASSUME NEW p \in Ops, p # o PROVE Ends(p)'
  <2>1. SameCourse(p)
    BY <1>2 DEF SameCourse, OnlyAt
  <2> QED BY <2>1, EndsKeeps DEF EndsInv
<1>3. Ends(o)'
  <2>1. (Orderly(o)' <=> Orderly(o)) /\ call'[o] = call[o] /\ inq'[o] = inq[o]
    BY DEF Orderly
  <2>2. js' = o \/ reqs'[o] # {} => Outstanding(o)'
    BY DEF Outstanding
  <2>3. Len(<<"ok">>) = 1 /\ Len(<<>>) = 0
    OBVIOUS
  <2>4. call[o].fn \notin SetFns /\ call[o].fn \notin {"getLinks", "list", "listRoutes"}
    BY DEF SetFns
  <2>5. CASE Outstanding(o)' /\ own'[o] = own[o] /\ cbs'[o] = cbs[o]
    BY <1>1, <2>1, <2>3, <2>4, <2>5 DEF Ends
  <2>6. CASE ~Outstanding(o)' /\ own'[o] = "closed" /\ (cbs[o] = <<>> => cbs'[o] = <<"ok">>)
    <3>1. Orderly(o) => Len(cbs'[o]) = 1
      BY <1>1, <2>3, <2>6
    <3> QED BY <2>1, <2>2, <2>4, <2>6, <3>1 DEF Ends
  <2> QED BY <2>5, <2>6
<1> QED
  BY <1>2, <1>3 DEF EndsInv

\* One round of the forEach; it ends the call if the key was the last to go.
LEMMA FlushKeyEnds ==
    ASSUME CourseInv, EndsInv, NEW o \in Ops, NEW x \in todo[o], FlushKey(o, x)
    PROVE  EndsInv'
<1>1. IpTypes /\ Course(o) /\ Ends(o) /\ js = o /\ x \in Objects
  BY DEF CourseInv, EndsInv, FlushKey, Course
<1>2. /\ OnlyAt(todo, todo', o) /\ todo'[o] = todo[o] \ {x}
      /\ js' = (IF todo[o] = {x} THEN Idle ELSE o)
      /\ call' = call /\ dump' = dump /\ inq' = inq
  BY <1>1 DEF FlushKey, OnlyAt, IpTypes, callVars
<1>3. /\ call[o] # NoCall /\ call[o].fn = "flush" /\ Outstanding(o) /\ inq[o] # "open"
      /\ \A r \in reqs[o] : r.cmd = "del"
  BY <1>1 DEF Course, Ends, Outstanding
<1>4. \A p \in Ops \ {o} : js' = p <=> js = p
  BY <1>1, <1>2, NamesApart
<1>5. CASE Exists(iface[o])
  <2>1. /\ OnlyAt(reqs, reqs', o) /\ reqs'[o] = reqs[o] \cup {Ask("del", x)}
        /\ OnlyAt(togo, togo', o) /\ OnlyAt(own, own', o) /\ OnlyAt(cbs, cbs', o)
        /\ UNCHANGED <<own, cbs>>
    BY <1>1, <1>5 DEF FlushKey, OnlyAt, IpTypes
  <2>2. Ask("del", x).cmd = "del"
    BY DEF Ask
  <2>3. Outstanding(o)' /\ \A r \in reqs'[o] : r.cmd = "del"
    BY <1>3, <2>1, <2>2 DEF Outstanding
  <2> QED BY <1>2, <1>3, <1>4, <2>1, <2>3, FlushStepEnds
<1>6. CASE ~Exists(iface[o])
  <2>1. CountDown(o) /\ OnlyAt(reqs, reqs', o) /\ reqs'[o] = reqs[o]
    BY <1>1, <1>6 DEF FlushKey, OnlyAt, IpTypes
  <2>2. /\ OnlyAt(togo, togo', o) /\ OnlyAt(own, own', o) /\ OnlyAt(cbs, cbs', o)
        /\ IF togo[o] = 1 THEN own'[o] = "closed" /\ (cbs[o] = <<>> => cbs'[o] = <<"ok">>)
           ELSE own'[o] = own[o] /\ cbs'[o] = cbs[o]
    BY <2>1, CountsDown
  <2>3. Outstanding(o)' <=> togo[o] # 1
    <3>1. /\ Cardinality(todo[o]) \in Nat /\ Cardinality(reqs[o]) \in Nat
          /\ IsFiniteSet(todo[o] \ {x}) /\ Cardinality(todo[o] \ {x}) = Cardinality(todo[o]) - 1
          /\ togo[o] = Cardinality(todo[o]) + Cardinality(reqs[o])
          /\ togo[o] = 1 => todo[o] \ {x} = {} /\ reqs[o] = {}
      BY <1>1, LastKey
    <3>2. Outstanding(o)' <=> reqs[o] # {} \/ todo[o] \ {x} # {}
      BY <1>2, <2>1, NamesApart DEF Outstanding
    <3>3. todo[o] \ {x} = {} /\ reqs[o] = {} => togo[o] = 1
      <4>1. IsFiniteSet(reqs[o])
        BY <1>1 DEF Course
      <4>2. /\ todo[o] \ {x} = {} => Cardinality(todo[o] \ {x}) = 0
            /\ reqs[o] = {} => Cardinality(reqs[o]) = 0
        BY <3>1, <4>1, FS_EmptySet
      <4> QED BY <3>1, <4>2
    <3> QED BY <3>1, <3>2, <3>3
  <2>4. \A r \in reqs'[o] : r.cmd = "del"
    BY <1>3, <2>1
  <2> QED BY <1>2, <1>3, <1>4, <2>1, <2>2, <2>3, <2>4, FlushStepEnds
<1> QED
  BY <1>5, <1>6

\* The reply to a delete of flush; the one that takes keysToGo to zero ends the call.
LEMMA FlushRepliedEnds ==
    ASSUME CourseInv, EndsInv, NEW o \in Ops, NEW q \in reqs[o], FlushReplied(o, q)
    PROVE  EndsInv'
<1>1. IpTypes /\ Course(o) /\ Ends(o) /\ js = Idle /\ js # o /\ todo[o] = {} /\ q.cmd = "del"
  BY NamesApart DEF CourseInv, EndsInv, FlushReplied, Replied, Course
<1>2. /\ OnlyAt(reqs, reqs', o) /\ reqs'[o] = reqs[o] \ {q} /\ CountDown(o)
      /\ OnlyAt(todo, todo', o) /\ js' = js
      /\ call' = call /\ dump' = dump /\ inq' = inq
  BY <1>1 DEF FlushReplied, OnlyAt, IpTypes, callVars
<1>3. /\ call[o] # NoCall /\ call[o].fn = "flush" /\ Outstanding(o) /\ inq[o] # "open"
  BY <1>1 DEF Course, Ends, Outstanding, SentBy
<1>4. \A r \in reqs[o] : r.cmd = "del"
  <2>1. \A r \in reqs[o] : r.cmd # "del" => reqs[o] = {r}
    BY <1>1 DEF Course
  <2> QED BY <1>1, <2>1
<1>5. /\ OnlyAt(togo, togo', o) /\ OnlyAt(own, own', o) /\ OnlyAt(cbs, cbs', o)
      /\ IF togo[o] = 1 THEN own'[o] = "closed" /\ (cbs[o] = <<>> => cbs'[o] = <<"ok">>)
         ELSE own'[o] = own[o] /\ cbs'[o] = cbs[o]
  BY <1>2, CountsDown
<1>6. Outstanding(o)' <=> togo[o] # 1
  <2>1. /\ IsFiniteSet(reqs[o] \ {q}) /\ Cardinality(reqs[o]) \in Nat
        /\ Cardinality(reqs[o] \ {q}) = Cardinality(reqs[o]) - 1
        /\ togo[o] = Cardinality(reqs[o])
        /\ togo[o] = 1 => reqs[o] \ {q} = {}
    BY <1>1, LastCommand
  <2>2. reqs[o] \ {q} = {} => togo[o] = 1
    <3>1. reqs[o] \ {q} = {} => Cardinality(reqs[o] \ {q}) = 0
      BY <2>1, FS_EmptySet
    <3> QED BY <2>1, <3>1
  <2> QED BY <1>1, <1>2, <2>1, <2>2 DEF Outstanding
<1>7. (\A r \in reqs'[o] : r.cmd = "del") /\ \A p \in Ops \ {o} : js' = p <=> js = p
  BY <1>2, <1>4
<1> QED
  BY <1>2, <1>3, <1>5, <1>6, <1>7, FlushStepEnds

\* Every step keeps EndsInv.
LEMMA StepEnds ==
    ASSUME AddressCreates, CourseInv, EndsInv, [Next]_vars PROVE EndsInv'
<1>1. ASSUME NEW o \in Ops, NEW c \in Calls, NEW i \in Ifs \cup {AnyIf}, Start(o, c, i)
      PROVE  EndsInv'
  BY <1>1, StartStarts, StartEnds
<1>2. ASSUME NEW o \in Ops, ForEach(o) PROVE EndsInv'
  BY <1>2, FlushKeyEnds DEF ForEach
<1>3. ASSUME NEW o \in Ops, Replies(o) PROVE EndsInv'
  BY <1>3, ReplyEnds, FlushBeginsEnds, FlushRepliedEnds DEF Replies, Reply
<1>4. ASSUME NEW o \in Ops, Serves(o) PROVE EndsInv'
  BY <1>4, ServeEnds DEF Serves
<1>5. ASSUME \/ \E ks \in SUBSET Objects : Change(ks)
             \/ UNCHANGED vars
      PROVE  EndsInv'
  <2>1. \A p \in Ops : SameCourse(p)
    BY <1>5 DEF SameCourse, Change, callVars, flushVars, vars
  <2> QED BY <2>1, EndsKeeps DEF EndsInv
<1> QED
  BY <1>1, <1>2, <1>3, <1>4, <1>5, ChangesLinked DEF Next

\* As long as the socket of address() can be created, an orderly call calls back
\* exactly once, and when it has, no request of it still runs and flush is not in the
\* middle of its forEach (every `return cb(...)` and the countdown keysToGo in
\* ip/*.js), however its steps interleave with those of others and with changes to
\* the kernel's tables.
THEOREM OneCallbackAlways == AddressCreates => (Spec => []OneCallback)
<1> SUFFICES ASSUME AddressCreates PROVE Spec => []OneCallback
  OBVIOUS
<1>1. Init => CourseInv /\ EndsInv
  BY InitAll
<1>2. CourseInv /\ EndsInv /\ [Next]_vars => CourseInv' /\ EndsInv'
  BY StepCourse, StepEnds
<1>3. EndsInv => OneCallback
  BY DEF EndsInv, Ends, OneCallback
<1> QED
  BY <1>1, <1>2, <1>3, PTL DEF Spec

\* As long as the socket of address() can be created, every socket an orderly call
\* opened is closed when the call has nothing outstanding, and none is closed under a
\* request or a forEach that still uses it (the close() before every callback in
\* ip/*.js).
THEOREM SocketsClosedAlways == AddressCreates => (Spec => []SocketsClosed)
<1> SUFFICES ASSUME AddressCreates PROVE Spec => []SocketsClosed
  OBVIOUS
<1>1. Init => CourseInv /\ EndsInv
  BY InitAll
<1>2. CourseInv /\ EndsInv /\ [Next]_vars => CourseInv' /\ EndsInv'
  BY StepCourse, StepEnds
<1>3. EndsInv => SocketsClosed
  BY DEF EndsInv, Ends, SocketsClosed
<1> QED
  BY <1>1, <1>2, <1>3, PTL DEF Spec

-----------------------------------------------------------------------------
(* What a list and a flush have seen *)

\* A step that is not of this call can only take away from what has been there
\* since it was made.
SameSeen(p) ==
    /\ SameCourse(p)
    /\ iface'[p] = iface[p] /\ snap'[p] = snap[p] /\ found'[p] = found[p] /\ refused'[p] = refused[p]
    /\ kept'[p] = kept[p] \cap kern'
    /\ call[p] # NoCall => fresh[p] \cup (kern' \ kern) \subseteq fresh'[p]

\* A step of another call, or a change of the kernel, keeps what p has seen.
LEMMA SeenKeeps ==
    ASSUME NEW p \in Ops, Seen(p), SameSeen(p), Linked(kern') PROVE Seen(p)'
<1>1. kept'[p] \subseteq kept[p] /\ kept'[p] \subseteq kern'
  BY DEF SameSeen
<1>2. Linked(kept'[p])
  BY DEF SameSeen, Seen, Linked
<1>3. call'[p] # NoCall => kern' \subseteq kept'[p] \cup fresh'[p]
  BY DEF SameSeen, SameCourse, Seen
<1>4. (LinksKnown(p)' <=> LinksKnown(p)) /\ (ObjectsKnown(p)' <=> ObjectsKnown(p))
      /\ (Flushing(p)' <=> Flushing(p)) /\ Pending(p)' = Pending(p)
  BY DEF SameSeen, SameCourse, LinksKnown, ObjectsKnown, Flushing, Pending
<1>5. Wanted(p)' \subseteq Wanted(p)
  BY <1>1 DEF Wanted, SameSeen
<1>6. \A x : Listable(p, x)' <=> Listable(p, x)
  BY DEF Listable, Matches, SameSeen, SameCourse
<1>7. LinksKnown(p)' => \A i \in Ifs : <<i, Link>> \in kept'[p] => i \in snap'[p]
  BY <1>1, <1>4 DEF Seen, SameSeen
<1>8. ObjectsKnown(p)' => kept'[p] \subseteq dump'[p]
  BY <1>1, <1>4 DEF Seen, SameSeen, SameCourse
<1>9. Flushing(p)' => Wanted(p)' \subseteq todo'[p] \cup Pending(p)' \cup refused'[p]
  BY <1>4, <1>5 DEF Seen, SameSeen, SameCourse
<1>10. call'[p] # NoCall /\ call'[p].fn \in ListFns /\ cbs'[p] = <<"ok">> =>
         {x \in kept'[p] : Listable(p, x)'} \subseteq found'[p]
  <2> SUFFICES ASSUME call'[p] # NoCall /\ call'[p].fn \in ListFns /\ cbs'[p] = <<"ok">>,
                      NEW x \in kept'[p], Listable(p, x)'
               PROVE  x \in found'[p]
    OBVIOUS
  <2>1. x \in {y \in kept[p] : Listable(p, y)}
    BY <1>1, <1>6 DEF SameSeen, SameCourse
  <2> QED BY <2>1 DEF Seen, SameSeen, SameCourse
<1>11. call'[p] # NoCall /\ call'[p].fn = "flush" /\ cbs'[p] = <<"ok">> => Wanted(p)' \subseteq refused'[p]
  BY <1>5 DEF Seen, SameSeen, SameCourse
<1> QED
  BY <1>1, <1>2, <1>3, <1>7, <1>8, <1>9, <1>10, <1>11 DEF Seen

\* The other calls while one takes a step that does not touch the kernel.
LEMMA OthersSeen ==
    ASSUME CourseInv, SeenInv, NEW o \in Ops, NEW p \in Ops, p # o,
           UNCHANGED <<kern, kept, fresh>>, SameCourse(p),
           iface'[p] = iface[p], snap'[p] = snap[p], found'[p] = found[p], refused'[p] = refused[p]
    PROVE  Seen(p)'
<1>1. Seen(p) /\ Linked(kern')
  BY DEF SeenInv, CourseInv, IpTypes
<1>2. kept'[p] = kept[p] \cap kern'
  BY <1>1 DEF Seen
<1> QED
  BY <1>1, <1>2, SeenKeeps DEF SameSeen

\* Another process changes the tables.
LEMMA ChangeSeen ==
    ASSUME CourseInv, SeenInv, NEW ks \in SUBSET Objects, Linked(ks), Change(ks) PROVE SeenInv'
<1> SUFFICES ASSUME NEW p \in Ops PROVE Seen(p)'
  BY DEF SeenInv
<1>1. SameSeen(p) /\ Linked(kern')
  BY DEF Change, SameSeen, SameCourse, callVars, flushVars
<1> QED
  BY <1>1, SeenKeeps DEF SeenInv

\* A call begins with everything the kernel has as kept.
LEMMA StartSeen ==
    ASSUME CourseInv, SeenInv, NEW o \in Ops, NEW c \in Calls, NEW i, Started(o, c, i)
    PROVE  SeenInv'
<1>1. Called(o, c, i) /\ Unused(o) /\ Course(o) /\ IpTypes
  BY BeforeStart DEF Started, CourseInv
<1>2. ASSUME NEW p \in Ops, p # o PROVE Seen(p)'
  <2>1. SameCourse(p)
    BY <1>1, <1>2 DEF SameCourse, Started, Called, OnlyAt, IpTypes, flushVars
  <2>2. iface'[p] = iface[p] /\ snap' = snap /\ found' = found /\ refused' = refused
        /\ kern' = kern /\ kept'[p] = kept[p] /\ fresh' = fresh
    BY <1>1, <1>2 DEF Called, IpTypes, flushVars
  <2>3. SameSeen(p) /\ Linked(kern')
    BY <1>1, <2>1, <2>2 DEF SameSeen, SeenInv, Seen, IpTypes
  <2> QED BY <2>3, SeenKeeps DEF SeenInv
<1>3. Seen(o)'
  <2>1. kept'[o] = kern /\ kern' = kern /\ todo'[o] = {} /\ cbs'[o] # <<"ok">>
    BY <1>1 DEF Called, IpTypes, flushVars, Started, Course
  <2>2. \A q \in reqs'[o] : q.st = "sent" /\ q.cmd \in {"getlink", "set"}
    BY DEF Started, Ask
  <2>3. ~LinksKnown(o)' /\ ~ObjectsKnown(o)' /\ ~Flushing(o)'
    BY <2>1, <2>2 DEF LinksKnown, ObjectsKnown, Flushing
  <2> QED
    BY <1>1, <2>1, <2>3 DEF Seen, IpTypes
<1> QED
  BY <1>2, <1>3 DEF SeenInv

\* The kernel answers with what it has, which includes all that was kept.
LEMMA ServeSeen ==
    ASSUME CourseInv, SeenInv, NEW o \in Ops, NEW q \in reqs[o], Serve(o, q)
    PROVE  SeenInv'
<1>1. IpTypes /\ Course(o) /\ Seen(o) /\ q \in Request /\ SentBy(call[o].fn, q) /\ Linked(kern')
      /\ IpTypes'
  BY ServeCourse DEF CourseInv, SeenInv, Course, IpTypes
<1>2. /\ kern' = (IF q.cmd = "del" THEN kern \ {q.key} ELSE kern) /\ fresh' = fresh
      /\ \A p \in Ops : kept'[p] = kept[p] \cap kern'
      /\ UNCHANGED <<call, iface, own, inq, found, todo, togo, js, refused, cbs>>
  BY DEF Serve, callVars, flushVars
<1>3. ASSUME NEW p \in Ops, p # o PROVE Seen(p)'
  <2>1. reqs'[p] = reqs[p] /\ dump'[p] = dump[p] /\ snap'[p] = snap[p]
    BY <1>1, <1>3 DEF Serve, Settle, IpTypes
  <2>2. SameSeen(p)
    BY <1>2, <1>3, <2>1 DEF SameSeen, SameCourse
  <2> QED BY <1>1, <2>2, SeenKeeps DEF SeenInv
<1>4. Seen(o)'
  <2> DEFINE st == IF q.cmd = "del" /\ q.key \notin kern THEN "err" ELSE "ok"
             r == [q EXCEPT !.st = st]
  <2>1. reqs'[o] = (reqs[o] \ {q}) \cup {r}
    BY <1>1 DEF Serve, Settle, IpTypes
  <2>2. r.cmd = q.cmd /\ r.key = q.key /\ q.st = "sent"
    BY <1>1 DEF Request, Serve
  <2>3. /\ snap'[o] = IF q.cmd = "getlink" THEN {i \in Ifs : Exists(i)} ELSE snap[o]
        /\ dump'[o] = IF q.cmd = "get" THEN kern ELSE dump[o]
    BY <1>1 DEF Serve, IpTypes
  <2> HIDE DEF r, st
  <2>4. kept'[o] \subseteq kept[o] /\ kept'[o] \subseteq kern' /\ Linked(kept'[o])
    BY <1>1, <1>2 DEF Seen, Linked
  <2>5. call'[o] # NoCall => kern' \subseteq kept'[o] \cup fresh'[o]
    BY <1>1, <1>2 DEF Seen
  <2>6. q.cmd # "del" => reqs[o] = {q} /\ reqs'[o] = {r} /\ todo[o] = {}
    BY <1>1, <2>1 DEF Course
  <2>7. q.cmd = "del" => \A t \in reqs'[o] : t.cmd = "del"
    BY <1>1, <2>1, <2>2 DEF Course
  <2>8. ASSUME LinksKnown(o)', NEW i \in Ifs, <<i, Link>> \in kept'[o] PROVE i \in snap'[o]
    <3>1. q.cmd \in {"getlink", "get"}
      BY <2>2, <2>6, <2>7, <2>8 DEF LinksKnown
    <3>2. CASE q.cmd = "getlink"
      BY <1>2, <2>3, <2>4, <2>8, <3>2 DEF Exists
    <3>3. CASE q.cmd = "get"
      BY <1>1, <2>3, <2>4, <2>8, <3>3 DEF Seen, LinksKnown
    <3> QED BY <3>1, <3>2, <3>3
  <2>9. ASSUME ObjectsKnown(o)' PROVE kept'[o] \subseteq dump'[o]
    <3>1. q.cmd = "get"
      BY <2>2, <2>6, <2>7, <2>9 DEF ObjectsKnown
    <3> QED BY <1>2, <2>3, <2>4, <3>1
  <2>10. ASSUME Flushing(o)' PROVE Wanted(o)' \subseteq todo'[o] \cup Pending(o)' \cup refused'[o]
    <3>1. q.cmd = "del"
      BY <1>2, <2>2, <2>6, <2>10 DEF Flushing
    <3>2. Flushing(o) /\ q.key \notin kern'
      BY <1>2, <3>1 DEF Flushing
    <3> SUFFICES ASSUME NEW x \in Wanted(o)', x \notin todo'[o], x \notin refused'[o]
                 PROVE  x \in Pending(o)'
      OBVIOUS
    <3>3. x \in Wanted(o) /\ x # q.key
      BY <1>2, <2>4, <3>2 DEF Wanted
    <3>4. x \in Pending(o)
      BY <1>1, <1>2, <3>2, <3>3 DEF Seen
    <3>5. PICK t \in reqs[o] : t.st # "ok" /\ t.key = x
      BY <3>4 DEF Pending
    <3>6. t \in reqs'[o]
      BY <2>1, <3>3, <3>5
    <3> QED BY <3>5, <3>6 DEF Pending
  <2>11. ASSUME call'[o] # NoCall, call'[o].fn \in ListFns, cbs'[o] = <<"ok">>
         PROVE  {x \in kept'[o] : Listable(o, x)'} \subseteq found'[o]
    <3>1. \A x : Listable(o, x)' <=> Listable(o, x)
      BY <1>2 DEF Listable, Matches
    <3> QED BY <1>1, <1>2, <2>4, <2>11, <3>1 DEF Seen
  <2>12. ASSUME call'[o] # NoCall, call'[o].fn = "flush", cbs'[o] = <<"ok">>
         PROVE  Wanted(o)' \subseteq refused'[o]
    <3>1. Wanted(o)' \subseteq Wanted(o)
      BY <1>2, <2>4 DEF Wanted
    <3> QED BY <1>1, <1>2, <2>12, <3>1 DEF Seen
  <2> QED
    BY <2>4, <2>5, <2>8, <2>9, <2>10, <2>11, <2>12 DEF Seen
<1> QED
  BY <1>3, <1>4 DEF SeenInv

\* A refused request adds nothing to what was seen.
LEMMA RefuseSeen ==
    ASSUME CourseInv, SeenInv, NEW o \in Ops, NEW q \in reqs[o], Refuse(o, q)
    PROVE  SeenInv'
<1>1. IpTypes /\ Course(o) /\ Seen(o) /\ q \in Request
  BY DEF CourseInv, SeenInv, Course
<1>2. UNCHANGED <<kern, kept, fresh, call, iface, own, inq, snap, dump, found, todo, togo, js,
                  refused, cbs>>
  BY DEF Refuse, kernVars, callVars, flushVars
<1>3. ASSUME NEW p \in Ops, p # o PROVE Seen(p)'
  <2>1. SameCourse(p)
    BY <1>1, <1>2, <1>3 DEF Refuse, Settle, IpTypes, SameCourse
  <2> QED BY <1>2, <1>3, <2>1, OthersSeen
<1>4. Seen(o)'
  <2> DEFINE r == [q EXCEPT !.st = "err"]
  <2>1. reqs'[o] = (reqs[o] \ {q}) \cup {r}
    BY <1>1 DEF Refuse, Settle, IpTypes
  <2>2. r.cmd = q.cmd /\ r.key = q.key /\ q.st = "sent" /\ r.st = "err"
    BY <1>1 DEF Request, Refuse
  <2> HIDE DEF r
  <2>3. LinksKnown(o)' => LinksKnown(o)
    BY <2>1, <2>2 DEF LinksKnown
  <2>4. ObjectsKnown(o)' => ObjectsKnown(o)
    BY <2>1, <2>2 DEF ObjectsKnown
  <2>5. Flushing(o)' => Flushing(o)
    BY <1>2, <2>1, <2>2 DEF Flushing
  <2>6. Pending(o) \subseteq Pending(o)'
    BY <2>1, <2>2 DEF Pending
  <2>7. Wanted(o)' = Wanted(o) /\ \A x : Listable(o, x)' <=> Listable(o, x)
    BY <1>2 DEF Wanted, Listable, Matches
  <2> QED
    BY <1>1, <1>2, <2>3, <2>4, <2>5, <2>6, <2>7 DEF Seen
<1> QED
  BY <1>3, <1>4 DEF SeenInv

\* An inquiry that was answered has what it was made for.
LEMMA ParsedComplete ==
    ASSUME CourseInv, SeenInv, NEW o \in Ops, NEW q \in reqs[o], InquiryReplied(o, q)
    PROVE  {x \in kept[o] : Listable(o, x)} \subseteq Parsed(o)
<1> SUFFICES ASSUME NEW x \in kept[o], Listable(o, x)
             PROVE  x \in Parsed(o)
  OBVIOUS
<1> USE DEF Listable
<1>1. Seen(o) /\ IpTypes /\ q.st = "ok"
      /\ q.cmd = (IF call[o].fn = "getLinks" THEN "getlink" ELSE "get")
  BY DEF InquiryReplied, SeenInv, CourseInv
<1>2. x \in Objects /\ x[1] \in Ifs /\ x = <<x[1], x[2]>> /\ <<x[1], Link>> \in kept[o]
  BY <1>1 DEF Seen, IpTypes, Objects, Linked
<1>3. x[1] \in snap[o]
  BY <1>1, <1>2 DEF Seen, LinksKnown
<1>4. CASE call[o].fn = "getLinks"
  BY <1>2, <1>3, <1>4 DEF Parsed
<1>5. CASE call[o].fn # "getLinks"
  <2>1. x \in dump[o]
    BY <1>1, <1>5 DEF Seen, ObjectsKnown
  <2> QED BY <1>3, <1>5, <2>1 DEF Parsed, packageInfo, getLinkFromIndex
<1> QED
  BY <1>4, <1>5

\* A call after the callback of one of its requests.
LEMMA SeenAfter ==
    ASSUME NEW o \in Ops, Seen(o), UNCHANGED <<kern, kept, fresh, call, iface, snap, dump>>,
           LinksKnown(o)' => LinksKnown(o),
           ~ObjectsKnown(o)',
           Flushing(o)' => Wanted(o) \subseteq todo'[o] \cup Pending(o)' \cup refused'[o],
           call[o].fn \in ListFns /\ cbs'[o] = <<"ok">> =>
              {x \in kept[o] : Listable(o, x)} \subseteq found'[o],
           call[o].fn = "flush" /\ cbs'[o] = <<"ok">> => Wanted(o) \subseteq refused'[o]
    PROVE  Seen(o)'
<1>1. Wanted(o)' = Wanted(o) /\ \A x : Listable(o, x)' <=> Listable(o, x)
  BY DEF Wanted, Listable, Matches
<1> QED
  BY <1>1 DEF Seen

\* A call that has reported an error does not end with a single "ok".
LEMMA ErrorStays ==
    ASSUME CourseInv, NEW o \in Ops, Outstanding(o), Callback(o, <<"err">>)
    PROVE  cbs'[o] # <<"ok">>
<1>1. cbs[o] \in Seq(Outcomes) /\ <<"err">> \in Seq(Outcomes) /\ Len(<<"err">>) = 1 /\ Len(<<"ok">>) = 1
  BY ShortReports DEF CourseInv, Course
<1>2. cbs'[o] = cbs[o] \o <<"err">>
  BY <1>1, MoreOutcomes
<1>3. CASE cbs[o] = <<>>
  BY <1>1, <1>3, MoreOutcomes, ShortReports
<1>4. CASE cbs[o] = <<"err">>
  <2>1. Len(cbs[o] \o <<"err">>) = 2
    BY <1>1, <1>4, ConcatProperties
  <2> QED BY <1>1, <1>2, <2>1
<1> QED
  BY <1>3, <1>4 DEF CourseInv, Course

\* A list reports what its two answers showed.
LEMMA ReplySeen ==
    ASSUME CourseInv, SeenInv, NEW o \in Ops, NEW q \in reqs[o],
           \/ InquiryFails(o, q) \/ LinksReplied(o, q) \/ InquiryDone(o, q)
           \/ CommandReplied(o, q) \/ AddIPv6NeighborReplied(o, q)
    PROVE  SeenInv'
<1>1. IpTypes /\ Course(o) /\ Seen(o) /\ SentBy(call[o].fn, q) /\ js = Idle /\ js # o /\ Outstanding(o)
  BY NamesApart DEF CourseInv, SeenInv, Course, Outstanding, InquiryFails, LinksReplied, InquiryDone,
     CommandReplied, AddIPv6NeighborReplied, InquiryReplied, Replied
<1>2. /\ UNCHANGED <<kern, kept, fresh, call, iface, snap, dump, todo, togo, js, refused>>
      /\ OnlyAt(reqs, reqs', o) /\ OnlyAt(found, found', o)
      /\ OnlyAt(own, own', o) /\ OnlyAt(inq, inq', o)
  BY <1>1 DEF InquiryFails, LinksReplied, InquiryDone, CommandReplied, AddIPv6NeighborReplied,
     InquiryReplied, IpTypes, OnlyAt, kernVars, callVars, flushVars
<1>3. \A p \in Ops \ {o} : cbs'[p] = cbs[p]
  BY <1>1 DEF InquiryFails, LinksReplied, InquiryDone, CommandReplied, AddIPv6NeighborReplied,
     Callback, IpTypes
<1>4. ASSUME NEW p \in Ops, p # o PROVE Seen(p)'
  <2>1. SameCourse(p) /\ found'[p] = found[p]
    BY <1>2, <1>3, <1>4 DEF SameCourse, OnlyAt
  <2> QED BY <1>2, <1>4, <2>1, OthersSeen
<1>5. todo'[o] = {} /\ (cbs[o] = <<>> \/ cbs[o] = <<"err">>)
  BY <1>1, <1>2 DEF Course
<1>6. reqs'[o] = {} => ~LinksKnown(o)' /\ ~ObjectsKnown(o)' /\ ~Flushing(o)'
  BY <1>5 DEF LinksKnown, ObjectsKnown, Flushing
<1>7. ASSUME InquiryFails(o, q) PROVE Seen(o)'
  <2>1. reqs'[o] = {} /\ cbs'[o] # <<"ok">>
    BY <1>1, <1>7, ErrorStays DEF InquiryFails, IpTypes
  <2> QED BY <1>1, <1>2, <1>6, <2>1, SeenAfter
<1>8. ASSUME LinksReplied(o, q) PROVE Seen(o)'
  <2>1. reqs'[o] = {Ask("get", NoCall)} /\ cbs' = cbs
    BY <1>1, <1>8 DEF LinksReplied, IpTypes
  <2>2. Ask("get", NoCall).cmd = "get" /\ Ask("get", NoCall).st = "sent"
    BY DEF Ask
  <2>3. LinksKnown(o) /\ ~ObjectsKnown(o)' /\ ~Flushing(o)'
    BY <1>5, <1>8, <2>1, <2>2 DEF LinksReplied, LinksKnown, ObjectsKnown, Flushing
  <2>4. cbs'[o] # <<"ok">>
    BY <1>5, <2>1, ShortReports
  <2> QED BY <1>1, <1>2, <2>3, <2>4, SeenAfter
<1>9. ASSUME InquiryDone(o, q) PROVE Seen(o)'
  <2>1. InquiryReplied(o, q) /\ reqs'[o] = {} /\ found'[o] = Parsed(o) /\ call[o].fn # "flush"
    BY <1>1, <1>9 DEF InquiryDone, InquiryReplied, IpTypes
  <2>2. {x \in kept[o] : Listable(o, x)} \subseteq found'[o]
    BY <2>1, ParsedComplete
  <2> QED BY <1>1, <1>2, <1>6, <2>1, <2>2, SeenAfter
<1>10. ASSUME CommandReplied(o, q) \/ AddIPv6NeighborReplied(o, q) PROVE Seen(o)'
  <2>1. reqs'[o] = {} /\ q.cmd = "set"
    BY <1>1, <1>10 DEF CommandReplied, AddIPv6NeighborReplied, IpTypes
  <2>2. call[o].fn # "flush" /\ call[o].fn \notin ListFns
    BY <1>1, <2>1 DEF SentBy, SetFns, ListFns
  <2> QED BY <1>1, <1>2, <1>6, <2>1, <2>2, SeenAfter
<1> QED
  BY <1>4, <1>7, <1>8, <1>9, <1>10 DEF SeenInv

\* The keys of the forEach are all wanted objects.
LEMMA FlushBeginsSeen ==
    ASSUME CourseInv, SeenInv, NEW o \in Ops, NEW q \in reqs[o], FlushBegins(o, q)
    PROVE  SeenInv'
<1>1. IpTypes /\ Course(o) /\ Seen(o) /\ js = Idle /\ js # o /\ InquiryReplied(o, q)
      /\ call[o].fn = "flush" /\ (cbs[o] = <<>> \/ cbs[o] = <<"err">>)
  BY NamesApart DEF CourseInv, SeenInv, FlushBegins, InquiryReplied, Replied, Course, Outstanding
<1>2. /\ OnlyAt(reqs, reqs', o) /\ reqs'[o] = {} /\ OnlyAt(inq, inq', o) /\ OnlyAt(found, found', o)
      /\ OnlyAt(todo, todo', o) /\ todo'[o] = Parsed(o) /\ OnlyAt(togo, togo', o)
      /\ UNCHANGED <<kern, kept, fresh, call, iface, snap, dump, refused>>
  BY <1>1 DEF FlushBegins, InquiryReplied, OnlyAt, IpTypes, kernVars, callVars
<1>3. \A p \in Ops \ {o} : cbs'[p] = cbs[p] /\ own'[p] = own[p] /\ (js' = p <=> js = p)
  BY <1>1, NamesApart DEF FlushBegins, FlushComplete, Callback, IpTypes
<1>4. ASSUME NEW p \in Ops, p # o PROVE Seen(p)'
  <2>1. SameCourse(p) /\ found'[p] = found[p]
    BY <1>2, <1>3, <1>4 DEF SameCourse, OnlyAt
  <2> QED BY <1>2, <1>4, <2>1, OthersSeen
<1>5. Wanted(o) \subseteq Parsed(o)
  <2>1. {x \in kept[o] : Listable(o, x)} \subseteq Parsed(o)
    BY <1>1, ParsedComplete
  <2> QED BY <1>1, <2>1 DEF Wanted, Listable, Matches
<1>6. cbs'[o] = <<"ok">> => Parsed(o) = {}
  BY <1>1, ShortReports DEF FlushBegins
<1>7. ~LinksKnown(o)' /\ ~ObjectsKnown(o)'
  BY <1>2 DEF LinksKnown, ObjectsKnown
<1>8. Seen(o)'
  BY <1>1, <1>2, <1>5, <1>6, <1>7, SeenAfter DEF ListFns
<1> QED
  BY <1>4, <1>8 DEF SeenInv

\* A key leaves the forEach as a delete under way, or is refused.
LEMMA FlushKeySeen ==
    ASSUME CourseInv, SeenInv, NEW o \in Ops, NEW x \in todo[o], FlushKey(o, x)
    PROVE  SeenInv'
<1>1. IpTypes /\ Course(o) /\ Seen(o) /\ js = o /\ call[o].fn = "flush" /\ Flushing(o)
      /\ (cbs[o] = <<>> \/ cbs[o] = <<"err">>)
  BY DEF CourseInv, SeenInv, FlushKey, Course, Outstanding, Flushing
<1>2. /\ OnlyAt(todo, todo', o) /\ todo'[o] = todo[o] \ {x}
      /\ js' = (IF todo[o] = {x} THEN Idle ELSE o)
      /\ UNCHANGED <<kern, kept, fresh, call, iface, inq, snap, dump, found>>
      /\ \A p \in Ops \ {o} : js' = p <=> js = p
  BY <1>1, NamesApart DEF FlushKey, OnlyAt, IpTypes, kernVars, callVars
<1>3. Wanted(o) \subseteq todo[o] \cup Pending(o) \cup refused[o]
  BY <1>1 DEF Seen
<1>4. \A r \in reqs[o] : r.cmd = "del"
  BY <1>1 DEF Course
<1>5. CASE Exists(iface[o])
  <2> DEFINE a == Ask("del", x)
  <2>1. a.cmd = "del" /\ a.key = x /\ a.st = "sent"
    BY DEF Ask
  <2>2. /\ OnlyAt(reqs, reqs', o) /\ reqs'[o] = reqs[o] \cup {a}
        /\ UNCHANGED <<togo, own, cbs, refused>>
    BY <1>1, <1>5 DEF FlushKey, OnlyAt, IpTypes
  <2> HIDE DEF a
  <2>3. ASSUME NEW p \in Ops, p # o PROVE Seen(p)'
    <3>1. SameCourse(p)
      BY <1>2, <2>2, <2>3 DEF SameCourse, OnlyAt
    <3> QED BY <1>2, <2>2, <2>3, <3>1, OthersSeen
  <2>4. Pending(o)' = Pending(o) \cup {x}
    BY <2>1, <2>2 DEF Pending
  <2>5. ~LinksKnown(o)' /\ ~ObjectsKnown(o)'
    BY <1>4, <2>1, <2>2 DEF LinksKnown, ObjectsKnown
  <2>6. cbs'[o] # <<"ok">>
    BY <1>1, <2>2, ShortReports
  <2>7. Wanted(o) \subseteq todo'[o] \cup Pending(o)' \cup refused'[o]
    BY <1>2, <1>3, <2>2, <2>4
  <2>8. Seen(o)'
    BY <1>1, <1>2, <2>5, <2>6, <2>7, SeenAfter
  <2> QED BY <2>3, <2>8 DEF SeenInv
<1>6. CASE ~Exists(iface[o])
  <2>1. /\ CountDown(o) /\ UNCHANGED reqs
        /\ OnlyAt(refused, refused', o) /\ refused'[o] = refused[o] \cup {x}
    BY <1>1, <1>6 DEF FlushKey, OnlyAt, IpTypes
  <2>2. /\ OnlyAt(togo, togo', o) /\ OnlyAt(own, own', o) /\ OnlyAt(cbs, cbs', o)
        /\ togo[o] # 1 => cbs'[o] = cbs[o]
    BY <2>1, CountsDown
  <2>3. ASSUME NEW p \in Ops, p # o PROVE Seen(p)'
    <3>1. SameCourse(p) /\ refused'[p] = refused[p]
      BY <1>2, <2>1, <2>2, <2>3 DEF SameCourse, OnlyAt
    <3> QED BY <1>2, <2>3, <3>1, OthersSeen
  <2>4. Pending(o)' = Pending(o)
    BY <2>1 DEF Pending
  <2>5. ~LinksKnown(o)' /\ ~ObjectsKnown(o)'
    BY <1>4, <2>1 DEF LinksKnown, ObjectsKnown
  <2>6. Wanted(o) \subseteq todo'[o] \cup Pending(o)' \cup refused'[o]
    BY <1>2, <1>3, <2>1, <2>4
  <2>7. ASSUME cbs'[o] = <<"ok">> PROVE Wanted(o) \subseteq refused'[o]
    <3>1. togo[o] = 1
      BY <1>1, <2>2, <2>7, ShortReports
    <3>2. todo'[o] = {} /\ reqs[o] = {}
      BY <1>1, <1>2, <3>1, LastKey
    <3>3. Pending(o) = {}
      BY <3>2 DEF Pending
    <3> QED BY <2>4, <2>6, <3>2, <3>3
  <2>8. Seen(o)'
    BY <1>1, <1>2, <2>5, <2>6, <2>7, SeenAfter DEF ListFns
  <2> QED BY <2>3, <2>8 DEF SeenInv
<1> QED
  BY <1>5, <1>6

\* A delete that returns has removed its object or is recorded as refused.
LEMMA FlushRepliedSeen ==
    ASSUME CourseInv, SeenInv, NEW o \in Ops, NEW q \in reqs[o], FlushReplied(o, q)
    PROVE  SeenInv'
<1>1. IpTypes /\ Course(o) /\ Seen(o) /\ js = Idle /\ js # o /\ todo[o] = {} /\ q.cmd = "del"
      /\ (cbs[o] = <<>> \/ cbs[o] = <<"err">>) /\ Flushing(o) /\ q \in Request
  BY NamesApart DEF CourseInv, SeenInv, FlushReplied, Replied, Course, Outstanding, Flushing
<1>2. /\ OnlyAt(reqs, reqs', o) /\ reqs'[o] = reqs[o] \ {q} /\ CountDown(o)
      /\ OnlyAt(refused, refused', o)
      /\ refused'[o] = (IF q.st = "err" THEN refused[o] \cup {q.key} ELSE refused[o])
      /\ q.st \in {"ok", "err"}
      /\ UNCHANGED <<kern, kept, fresh, call, iface, inq, snap, dump, found, todo, js>>
  BY <1>1 DEF FlushReplied, Replied, OnlyAt, IpTypes, kernVars, callVars, Request
<1>3. /\ OnlyAt(togo, togo', o) /\ OnlyAt(own, own', o) /\ OnlyAt(cbs, cbs', o)
      /\ togo[o] # 1 => cbs'[o] = cbs[o]
  BY <1>2, CountsDown
<1>4. ASSUME NEW p \in Ops, p # o PROVE Seen(p)'
  <2>1. SameCourse(p) /\ refused'[p] = refused[p]
    BY <1>2, <1>3, <1>4 DEF SameCourse, OnlyAt
  <2> QED BY <1>2, <1>4, <2>1, OthersSeen
<1>5. \A r \in reqs[o] : r.cmd = "del"
  <2>1. \A r \in reqs[o] : r.cmd # "del" => reqs[o] = {r}
    BY <1>1 DEF Course
  <2> QED BY <1>1, <2>1
<1>6. ~LinksKnown(o)' /\ ~ObjectsKnown(o)'
  BY <1>2, <1>5 DEF LinksKnown, ObjectsKnown
<1>7. Wanted(o) \subseteq Pending(o)' \cup refused'[o]
  <2> SUFFICES ASSUME NEW x \in Wanted(o), x \notin refused'[o] PROVE x \in Pending(o)'
    OBVIOUS
  <2>1. x \in Pending(o)
    BY <1>1, <1>2 DEF Seen
  <2>2. PICK r \in reqs[o] : r.st # "ok" /\ r.key = x
    BY <2>1 DEF Pending
  <2>3. r # q
    BY <1>2, <2>2
  <2> QED BY <1>2, <2>2, <2>3 DEF Pending
<1>8. ASSUME cbs'[o] = <<"ok">> PROVE Wanted(o) \subseteq refused'[o]
  <2>1. togo[o] = 1
    BY <1>1, <1>3, <1>8, ShortReports
  <2>2. reqs'[o] = {}
    BY <1>1, <1>2, <2>1, LastCommand
  <2>3. Pending(o)' = {}
    BY <2>2 DEF Pending
  <2> QED BY <1>7, <2>3
<1>9. call[o].fn = "flush"
  BY <1>1 DEF Course, SentBy
<1>10. Seen(o)'
  BY <1>1, <1>2, <1>6, <1>7, <1>8, <1>9, SeenAfter DEF ListFns
<1> QED
  BY <1>4, <1>10 DEF SeenInv

\* Every step keeps SeenInv.
LEMMA StepSeen ==
    ASSUME CourseInv, SeenInv, [Next]_vars PROVE SeenInv'
<1>1. ASSUME NEW o \in Ops, NEW c \in Calls, NEW i \in Ifs \cup {AnyIf}, Start(o, c, i)
      PROVE  SeenInv'
  BY <1>1, StartStarts, StartSeen
<1>2. ASSUME NEW o \in Ops, ForEach(o) PROVE SeenInv'
  BY <1>2, FlushKeySeen DEF ForEach
<1>3. ASSUME NEW o \in Ops, Replies(o) PROVE SeenInv'
  BY <1>3, ReplySeen, FlushBeginsSeen, FlushRepliedSeen DEF Replies, Reply
<1>4. ASSUME NEW o \in Ops, Serves(o) PROVE SeenInv'
  BY <1>4, ServeSeen, RefuseSeen DEF Serves
<1>5. ASSUME NEW ks \in SUBSET Objects, Linked(ks), Change(ks) PROVE SeenInv'
  BY <1>5, ChangeSeen
<1>6. ASSUME UNCHANGED vars PROVE SeenInv'
  <2>1. \A p \in Ops : SameSeen(p)
    BY <1>6 DEF SameSeen, SameCourse, SeenInv, Seen, vars
  <2>2. Linked(kern')
    BY <1>6 DEF CourseInv, IpTypes, vars
  <2> QED BY <2>1, <2>2, SeenKeeps DEF SeenInv
<1> QED
  BY <1>1, <1>2, <1>3, <1>4, <1>5, <1>6, ChangesLinked DEF Next

\* A list that succeeds has every matching object that existed all the time from
\* the call on, although sendInquiry takes the links and the objects with two requests
\* and drops what it cannot name, whatever else changes the tables meanwhile.
THEOREM ListCompleteAlways == Spec => []ListComplete
<1>1. Init => CourseInv /\ SeenInv
  BY InitAll
<1>2. CourseInv /\ SeenInv /\ [Next]_vars => CourseInv' /\ SeenInv'
  BY StepCourse, StepSeen
<1>3. SeenInv => ListComplete
  BY DEF SeenInv, Seen, ListComplete, ListFns
<1> QED
  BY <1>1, <1>2, <1>3, PTL DEF Spec

\* After a flush that succeeded the only addresses left on its interface are those
\* whose command failed and those that appeared after the call (the flush of address
\* and its keysToGo).
THEOREM FlushEmptiesAlways == Spec => []FlushEmpties
<1>1. Init => CourseInv /\ SeenInv
  BY InitAll
<1>2. CourseInv /\ SeenInv /\ [Next]_vars => CourseInv' /\ SeenInv'
  BY StepCourse, StepSeen
<1>3. SeenInv => FlushEmpties
  <2> SUFFICES ASSUME SeenInv, NEW o \in Ops, call[o] # NoCall, call[o].fn = "flush",
                      cbs[o] = <<"ok">>, NEW x \in kern, x[1] = iface[o], x[2] # Link
               PROVE  x \in refused[o] \cup fresh[o]
    BY DEF FlushEmpties
  <2>1. x \in kept[o] \cup fresh[o] /\ Wanted(o) \subseteq refused[o]
    BY DEF SeenInv, Seen
  <2> QED BY <2>1 DEF Wanted
<1> QED
  BY <1>1, <1>2, <1>3, PTL DEF Spec
=============================================================================
