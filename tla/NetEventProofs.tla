--------------------------- MODULE NetEventProofs ---------------------------
(***************************************************************************)
(* Proofs about NetEvent, for any interfaces, names and monitors and any   *)
(* number of changes.                                                      *)
(*                                                                         *)
(* EventInv says what the messages of the monitor are: an event has the    *)
(* position it has in the log as its number, what waits in the socket or   *)
(* was collected is an event of the log or the answer to the request, and  *)
(* from the moment the answer was collected only events wait.  On it rest  *)
(* the three safety properties: LinkAccounted (with Awaited, which is      *)
(* about the time before the monitor listens), NameAsLabeled (with         *)
(* Consistent, which is about all that is said of an interface) and        *)
(* NoneMissed, which needs both that the socket loses no event (Handled)   *)
(* and that an event for the caller passes the filter (CallerApplies).     *)
(***************************************************************************)
EXTENDS NetEvent, SequenceTheorems, WellFoundedInduction, TLAPS

Name == Names \cup {NoName}
Event == [id: Nat, kind: Kinds, idx: Idx, name: Name]
Reply == [id: {0}, kind: {"reply"}, dump: [Idx -> Name]]
Message == Event \cup Reply
Report == [id: Nat, name: Name]

-----------------------------------------------------------------------------
(* Facts about sequences and about the first entry with a number *)

\* A new element at the end.
LEMMA AppendIs ==
    ASSUME NEW S, NEW s \in Seq(S), NEW e \in S
    PROVE  /\ Append(s, e) \in Seq(S) /\ Len(Append(s, e)) = Len(s) + 1
           /\ DOMAIN s = 1..Len(s) /\ Len(s) \in Nat
           /\ DOMAIN Append(s, e) = DOMAIN s \cup {Len(s) + 1}
           /\ Append(s, e)[Len(s) + 1] = e
           /\ \A i \in DOMAIN s : Append(s, e)[i] = s[i]
           /\ \A i \in DOMAIN Append(s, e) :
                 Append(s, e)[i] = e \/ (i \in DOMAIN s /\ Append(s, e)[i] = s[i])
  <1> DEFINE t == Append(s, e)
  <1>1. t \in Seq(S) /\ Len(t) = Len(s) + 1 /\ t[Len(s) + 1] = e
        /\ \A i \in 1..Len(s) : t[i] = s[i]
    BY AppendProperties
  <1>2. Len(s) \in Nat /\ DOMAIN s = 1..Len(s) /\ DOMAIN t = 1..Len(t)
    BY <1>1, LenProperties
  <1> HIDE DEF t
  <1>3. DOMAIN t = DOMAIN s \cup {Len(s) + 1}  BY <1>1, <1>2
  <1>4. \A i \in DOMAIN s : t[i] = s[i]  BY <1>1, <1>2
  <1>5. \A i \in DOMAIN t : t[i] = e \/ (i \in DOMAIN s /\ t[i] = s[i])  BY <1>1, <1>3, <1>4
  <1> QED  BY <1>1, <1>2, <1>3, <1>4, <1>5 DEF t

\* The first element taken away.
LEMMA TailIs ==
    ASSUME NEW S, NEW s \in Seq(S), s # <<>>
    PROVE  /\ Tail(s) \in Seq(S) /\ Head(s) \in S
           /\ 1 \in DOMAIN s /\ Head(s) = s[1]
           /\ \A i \in DOMAIN Tail(s) : \E k \in DOMAIN s : Tail(s)[i] = s[k]
           /\ \A k \in DOMAIN s : s[k] = Head(s) \/ \E i \in DOMAIN Tail(s) : Tail(s)[i] = s[k]
  <1> DEFINE t == Tail(s)
  <1>1. Head(s) \in S /\ t \in Seq(S) /\ Len(t) = Len(s) - 1
        /\ \A i \in 1..Len(t) : t[i] = s[i + 1]
    BY HeadTailProperties
  <1>2. Len(s) \in Nat /\ DOMAIN s = 1..Len(s) /\ Len(t) \in Nat /\ DOMAIN t = 1..Len(t)
    BY <1>1, LenProperties
  <1>3. Head(s) = s[1]  OBVIOUS
  <1> HIDE DEF t
  <1>4. 1 \in DOMAIN s  BY <1>1, <1>2
  <1>5. \A i \in DOMAIN t : i + 1 \in DOMAIN s /\ t[i] = s[i + 1]  BY <1>1, <1>2
  <1>6. ASSUME NEW k \in DOMAIN s, k # 1 PROVE k - 1 \in DOMAIN t /\ t[k - 1] = s[k]
    BY <1>1, <1>2, <1>6
  <1> QED  BY <1>1, <1>3, <1>4, <1>5, <1>6 DEF t

\* A set of numbers has a least one.
LEMMA MinIsIn == ASSUME NEW S \in SUBSET Nat, S # {} PROVE Min(S) \in S
  <1>1. PICK x \in S : \A y \in S : ~(<<y, x>> \in OpToRel(<, Nat))
    BY NatLessThanWellFounded, WFMin
  <1>2. \A y \in S : x <= y
    <2> TAKE y \in S
    <2>1. ~(y < x)  BY <1>1 DEF OpToRel
    <2> QED  BY <2>1
  <1> QED  BY <1>1, <1>2 DEF Min

\* getLinkFromIndex finds an entry with that number when there is one.
LEMMA LinkNameFound ==
    ASSUME NEW i, HasLink(i)
    PROVE  \E j \in 1..Len(known) : LinkName(i) = known[j][i] /\ known[j][i] # NoName
  <1> DEFINE I == {j \in 1..Len(known) : known[j][i] # NoName}
  <1>1. I # {} /\ I \in SUBSET Nat  BY DEF HasLink
  <1>2. SelectInSeq(known, LAMBDA f : f[i] # NoName) = Min(I)  BY <1>1 DEF SelectInSeq
  <1>3. Min(I) \in I  BY <1>1, MinIsIn
  <1>4. LinkName(i) = known[Min(I)][i]  BY <1>2 DEF LinkName
  <1> HIDE DEF I
  <1>5. \A j \in I : j \in 1..Len(known) /\ known[j][i] # NoName  BY DEF I
  <1> QED  BY <1>3, <1>4, <1>5

\* Whether an event is for the caller does not change while the monitor listens.
LEMMA AppliesStays ==
    ASSUME UNCHANGED <<known, kind, ifname>>
    PROVE  \A e : /\ Applies(e)' <=> Applies(e)
                  /\ NameOf(e)' = NameOf(e) /\ HasLink(e)' = HasLink(e)
  <1>1. \A i : LinkName(i)' = LinkName(i) /\ (HasLink(i)' = HasLink(i))
    BY DEF LinkName, SelectInSeq, HasLink
  <1> QED  BY <1>1 DEF Applies, Packaged, NameOf

-----------------------------------------------------------------------------
(* The messages *)

EvTypes ==
    /\ kind \in EventTypes
    /\ links \in [Idx -> Name] /\ log \in Seq(Event)
    /\ queue \in Seq(Message) /\ absorbed \in Seq(Message)
    /\ known \in Seq([Idx -> Name]) /\ reported \in Seq(Report)

\* A change of the log.
InLog(m) == m.id \in DOMAIN log /\ m = log[m.id]

Messages ==
    /\ \A j \in DOMAIN log : log[j].id = j
    /\ \A j \in DOMAIN queue : queue[j] \in Reply \/ InLog(queue[j])
    /\ \A j \in DOMAIN absorbed : absorbed[j] \in Reply \/ InLog(absorbed[j])
    /\ phase \in {"replied", "listening"} => \A j \in DOMAIN queue : InLog(queue[j])

Reports ==
    /\ phase # "listening" => reported = <<>>
    /\ \A j \in DOMAIN reported :
          reported[j].id \in DOMAIN log /\ Applies(log[reported[j].id])

EventInv == EvTypes /\ Messages /\ Reports

\* The monitor and the kernel have done nothing at first.
LEMMA InitEvents == Init => EventInv
  <1> SUFFICES ASSUME Init PROVE EventInv  OBVIOUS
  <1>1. log = <<>> /\ queue = <<>> /\ absorbed = <<>> /\ known = <<>> /\ reported = <<>>
        /\ phase = "start" /\ links \in [Idx -> Name] /\ kind \in EventTypes
    BY DEF Init, Name
  <1>2. EvTypes  BY <1>1 DEF EvTypes
  <1>3. Messages  BY <1>1 DEF Messages
  <1>4. Reports  BY <1>1 DEF Reports
  <1> QED  BY <1>2, <1>3, <1>4 DEF EventInv

\* What the kernel does to the interface i, and announces.
KernelDoes(k, i, n) ==
    /\ Announce(k, i, n)
    /\ links' \in [Idx -> Name]
    /\ \A j \in Idx : j # i => links'[j] = links[j]
    /\ old \subseteq old' /\ renamed \subseteq renamed'
    /\ links'[i] # NoName => links[i] # NoName \/ k = "newLink"
    /\ links'[i] # NoName => i \in old' \/ (links[i] # NoName /\ UNCHANGED old)
    /\ kind # "process" =>
          /\ n \in Names
          /\ i \in old' \/ links[i] # NoName
          /\ i \notin renamed' => /\ i \notin old \/ links[i] = n
                                  /\ links'[i] # NoName => links'[i] = n

\* Every change is announced with the interface's number and name.
LEMMA KernelSteps ==
    ASSUME EvTypes, Kernel PROVE \E k \in Kinds, i \in Idx, n \in Name : KernelDoes(k, i, n)
  <1>1. ASSUME NEW i \in Idx, NEW n \in Names, LinkAdded(i, n) PROVE KernelDoes("newLink", i, n)
    BY <1>1 DEF LinkAdded, KernelDoes, EvTypes, Name
  <1>2. ASSUME NEW i \in Idx, NEW n \in Names, LinkRenamed(i, n) PROVE KernelDoes("newLink", i, n)
    BY <1>2 DEF LinkRenamed, KernelDoes, EvTypes, Name, Exists
  <1>3. ASSUME NEW i \in Idx, LinkRemoved(i) PROVE links[i] \in Name /\ KernelDoes("delLink", i, links[i])
    BY <1>3 DEF LinkRemoved, KernelDoes, EvTypes, Name, Exists
  <1>4. ASSUME NEW i \in Idx, NEW k \in Kinds \ LinkKinds, Changed(k, i)
        PROVE  links[i] \in Name /\ KernelDoes(k, i, links[i])
    <2>1. k \in Wanted(kind) /\ UNCHANGED <<links, old, renamed>> /\ Announce(k, i, links[i])
          /\ (Exists(i) \/ k \in ProcKinds)
      BY <1>4 DEF Changed
    <2>2. kind # "process" => links[i] # NoName
      <3>1. kind \in {"all", "link", "address", "route", "neigh", "process"}
        BY MonitorsOK DEF EvTypes
      <3>2. ASSUME kind # "process" PROVE k \notin ProcKinds
        BY <2>1, <3>1, <3>2 DEF Wanted, ProcKinds, LinkKinds
      <3> QED  BY <2>1, <3>2 DEF Exists
    <2> QED  BY <2>1, <2>2 DEF KernelDoes, EvTypes, Name
  <1>5. "newLink" \in Kinds /\ "delLink" \in Kinds  BY DEF Kinds
  <1>6. \A n \in Names : n \in Name  BY DEF Name
  <1> QED  BY <1>1, <1>2, <1>3, <1>4, <1>5, <1>6 DEF Kernel

\* The message of a change.
Change(k, i, n) == [id |-> Len(log) + 1, kind |-> k, idx |-> i, name |-> n]

\* A change is a new event.
LEMMA ChangeIsNew ==
    ASSUME EventInv, NEW k \in Kinds, NEW i \in Idx, NEW n \in Name
    PROVE  /\ Change(k, i, n) \in Event /\ Change(k, i, n) \in Message
           /\ Change(k, i, n).id \notin DOMAIN log /\ Change(k, i, n).id = Len(log) + 1
           /\ Change(k, i, n).kind = k /\ Change(k, i, n).idx = i /\ Change(k, i, n).name = n
  <1>1. log \in Seq(Event)  BY DEF EventInv, EvTypes
  <1>2. Len(log) \in Nat /\ DOMAIN log = 1..Len(log)  BY <1>1, LenProperties
  <1>3. Len(log) + 1 \in Nat /\ Len(log) + 1 \notin DOMAIN log  BY <1>2
  <1>4. \A x \in Nat : [id |-> x, kind |-> k, idx |-> i, name |-> n] \in Event  BY DEF Event
  <1>5. Change(k, i, n) \in Event  BY <1>3, <1>4 DEF Change
  <1> QED  BY <1>3, <1>5 DEF Change, Message

\* What announcing it does to the log and to the socket.
LEMMA Announced ==
    ASSUME EventInv, NEW k \in Kinds, NEW i \in Idx, NEW n \in Name, Announce(k, i, n)
    PROVE  LET e == Change(k, i, n) IN
           /\ log' \in Seq(Event) /\ queue' \in Seq(Message)
           /\ DOMAIN log' = DOMAIN log \cup {e.id} /\ log'[e.id] = e
           /\ \A j \in DOMAIN log : log'[j] = log[j]
           /\ \A j \in DOMAIN queue' : queue'[j] = e \/ (j \in DOMAIN queue /\ queue'[j] = queue[j])
           /\ \A j \in DOMAIN queue : j \in DOMAIN queue' /\ queue'[j] = queue[j]
           /\ Subscribed /\ k \in Groups(kind) => \E j \in DOMAIN queue' : queue'[j] = e
           /\ UNCHANGED <<kind, ifname, phase, absorbed, known, from, reported, errors>>
  <1> DEFINE e == Change(k, i, n)
  <1>1. log \in Seq(Event) /\ queue \in Seq(Message)  BY DEF EventInv, EvTypes
  <1>2. log' = Append(log, e) /\ queue' = (IF k \in Groups(kind) THEN Append(queue, e) ELSE queue)
        /\ UNCHANGED <<kind, ifname, phase, absorbed, known, from, reported, errors>>
    BY DEF Announce, Change
  <1>3. e \in Event /\ e \in Message /\ e.id = Len(log) + 1  BY ChangeIsNew
  <1> HIDE DEF e
  <1>4. log' \in Seq(Event) /\ DOMAIN log' = DOMAIN log \cup {e.id} /\ log'[e.id] = e
        /\ \A j \in DOMAIN log : log'[j] = log[j]
    BY <1>1, <1>2, <1>3, AppendIs
  <1>5. /\ queue' \in Seq(Message)
        /\ \A j \in DOMAIN queue' : queue'[j] = e \/ (j \in DOMAIN queue /\ queue'[j] = queue[j])
        /\ \A j \in DOMAIN queue : j \in DOMAIN queue' /\ queue'[j] = queue[j]
        /\ Subscribed /\ k \in Groups(kind) => \E j \in DOMAIN queue' : queue'[j] = e
    <2>1. CASE k \in Groups(kind)
      <3>1. queue' = Append(queue, e)  BY <1>2, <2>1
      <3>2. queue' \in Seq(Message) /\ DOMAIN queue' = DOMAIN queue \cup {Len(queue) + 1}
            /\ queue'[Len(queue) + 1] = e /\ \A j \in DOMAIN queue : queue'[j] = queue[j]
        BY <1>1, <1>3, <3>1, AppendIs
      <3> QED  BY <3>2
    <2>2. CASE ~(k \in Groups(kind))
      <3>1. queue' = queue  BY <1>2, <2>2
      <3> QED  BY <1>1, <2>2, <3>1
    <2> QED  BY <2>1, <2>2
  <1> QED  BY <1>2, <1>4, <1>5 DEF e

\* The change of an interface and its announcement keep EventInv.
LEMMA KernelEvents ==
    ASSUME EventInv, NEW k \in Kinds, NEW i \in Idx, NEW n \in Name, KernelDoes(k, i, n)
    PROVE  EventInv'
  <1>0. Announce(k, i, n) /\ links' \in [Idx -> Name]  BY DEF KernelDoes
  <1>7. PICK e : e = Change(k, i, n)  OBVIOUS
  <1>1. /\ log' \in Seq(Event) /\ queue' \in Seq(Message)
        /\ DOMAIN log' = DOMAIN log \cup {e.id} /\ log'[e.id] = e
        /\ \A j \in DOMAIN log : log'[j] = log[j]
        /\ \A j \in DOMAIN queue' : queue'[j] = e \/ (j \in DOMAIN queue /\ queue'[j] = queue[j])
        /\ UNCHANGED <<kind, ifname, phase, absorbed, known, from, reported, errors>>
    BY <1>0, <1>7, Announced
  <1>2. \A m : InLog(m) => InLog(m)'  BY <1>1 DEF InLog
  <1>3. InLog(e)'  BY <1>1 DEF InLog
  <1>4. EvTypes'  BY <1>0, <1>1 DEF EventInv, EvTypes
  <1>5. Messages'
    <2>1. \A j \in DOMAIN log' : log'[j].id = j  BY <1>1 DEF EventInv, Messages
    <2>2. \A j \in DOMAIN queue' : queue'[j] \in Reply \/ InLog(queue[j])'
      BY <1>1, <1>2, <1>3 DEF EventInv, Messages
    <2>3. \A j \in DOMAIN absorbed' : absorbed'[j] \in Reply \/ InLog(absorbed[j])'
      BY <1>1, <1>2 DEF EventInv, Messages
    <2>4. phase' \in {"replied", "listening"} => \A j \in DOMAIN queue' : InLog(queue[j])'
      BY <1>1, <1>2, <1>3 DEF EventInv, Messages
    <2> QED  BY <2>1, <2>2, <2>3, <2>4 DEF Messages
  <1>6. Reports'
    <2>1. \A x : Applies(x)' <=> Applies(x)  BY <1>1, AppliesStays
    <2> QED  BY <1>1, <2>1 DEF EventInv, Reports
  <1> QED  BY <1>4, <1>5, <1>6 DEF EventInv

\* What one delivery does.
LEMMA Delivered ==
    ASSUME EventInv, Deliver, NEW h, h = Head(queue)
    PROVE  /\ InLog(h) /\ h \in Event /\ phase = "listening"
           /\ queue' \in Seq(Message)
           /\ \A j \in DOMAIN queue' : \E q \in DOMAIN queue : queue'[j] = queue[q]
           /\ \A q \in DOMAIN queue : queue[q] = h \/ \E j \in DOMAIN queue' : queue'[j] = queue[q]
           /\ \/ Applies(h) /\ reported' = Append(reported, CallbackOf(h)) /\ CallbackOf(h) \in Report
              \/ ~Applies(h) /\ reported' = reported
           /\ UNCHANGED <<kernel, kind, ifname, phase, absorbed, known, from, errors>>
  <1>1. phase = "listening" /\ queue # <<>> /\ queue' = Tail(queue)
        /\ reported' = (IF Applies(h) THEN Append(reported, CallbackOf(h)) ELSE reported)
        /\ UNCHANGED <<kernel, kind, ifname, phase, absorbed, known, from, errors>>
    BY DEF Deliver
  <1>2. queue \in Seq(Message) /\ log \in Seq(Event)  BY DEF EventInv, EvTypes
  <1>3. queue' \in Seq(Message) /\ 1 \in DOMAIN queue /\ h = queue[1]
    BY <1>1, <1>2, TailIs
  <1>4. /\ \A j \in DOMAIN queue' : \E q \in DOMAIN queue : queue'[j] = queue[q]
        /\ \A q \in DOMAIN queue : queue[q] = h \/ \E j \in DOMAIN queue' : queue'[j] = queue[q]
    BY <1>1, <1>2, TailIs
  <1>5. InLog(h)  BY <1>1, <1>3 DEF EventInv, Messages
  <1>6. h \in Event
    <2>1. \A j \in DOMAIN log : log[j] \in Event  BY <1>2
    <2> QED  BY <1>5, <2>1 DEF InLog
  <1>7. ASSUME Applies(h) PROVE CallbackOf(h) \in Report
    <2>1. h.id \in Nat /\ h.idx \in Idx /\ h.name \in Name  BY <1>6 DEF Event
    <2>2. CASE kind = "process"  BY <2>1, <2>2 DEF CallbackOf, Report, Name
    <2>3. CASE kind # "process"
      <3>1. Packaged(h)  BY <1>7, <2>3 DEF Applies
      <3>2. CASE h.kind \in LinkKinds  BY <2>1, <2>3, <3>2 DEF CallbackOf, Report, NameOf
      <3>3. CASE h.kind \notin LinkKinds
        <4>1. PICK j \in 1..Len(known) : LinkName(h.idx) = known[j][h.idx]
          BY <3>1, <3>3, LinkNameFound DEF Packaged
        <4>2. known \in Seq([Idx -> Name])  BY DEF EventInv, EvTypes
        <4>3. known[j] \in [Idx -> Name]  BY <4>2, ElementOfSeq
        <4>4. LinkName(h.idx) \in Name  BY <2>1, <4>1, <4>3
        <4> QED  BY <2>1, <2>3, <3>3, <4>4 DEF CallbackOf, Report, NameOf
      <3> QED  BY <3>2, <3>3
    <2> QED  BY <2>2, <2>3
  <1> QED  BY <1>1, <1>3, <1>4, <1>5, <1>6, <1>7

\* Every step of the monitor keeps EventInv.
LEMMA MonitorEvents == ASSUME EventInv, Monitor PROVE EventInv'
  <1>0. EvTypes /\ Messages /\ Reports  BY DEF EventInv
  <1>1. CASE Start \/ Collected
    <2>1. UNCHANGED <<links, log, queue, absorbed, known, reported, kind, ifname>>
          /\ phase # "listening" /\ phase' # "listening" /\ (phase' = "replied" => queue = <<>>)
      BY <1>1 DEF Start, Collected, kernel
    <2>2. EvTypes'  BY <1>0, <2>1 DEF EvTypes
    <2>3. Messages'  BY <1>0, <2>1 DEF Messages, InLog
    <2>4. Reports'  BY <1>0, <2>1 DEF Reports
    <2> QED  BY <2>2, <2>3, <2>4 DEF EventInv
  <1>2. CASE Fail
    <2>1. UNCHANGED <<links, log, absorbed, known, reported, kind, ifname>> /\ queue' = <<>>
          /\ phase # "listening" /\ phase' = "failed"
      BY <1>2 DEF Fail, kernel
    <2>2. EvTypes'  BY <1>0, <2>1 DEF EvTypes
    <2>3. Messages'  BY <1>0, <2>1 DEF Messages, InLog
    <2>4. Reports'  BY <1>0, <2>1 DEF Reports
    <2> QED  BY <2>2, <2>3, <2>4 DEF EventInv
  <1>3. CASE Ask
    <2> DEFINE r == [id |-> 0, kind |-> "reply", dump |-> links]
    <2>1. UNCHANGED <<links, log, absorbed, known, reported, kind, ifname>> /\ queue' = Append(queue, r)
          /\ phase # "listening" /\ phase' = "reading"
      BY <1>3 DEF Ask, kernel
    <2>2. r \in Reply /\ r \in Message  BY <1>0 DEF EvTypes, Reply, Message
    <2> HIDE DEF r
    <2>3. queue \in Seq(Message)  BY <1>0 DEF EvTypes
    <2>4. queue' \in Seq(Message)
          /\ \A j \in DOMAIN queue' : queue'[j] = r \/ (j \in DOMAIN queue /\ queue'[j] = queue[j])
      BY <2>1, <2>2, <2>3, AppendIs
    <2>5. EvTypes'  BY <1>0, <2>1, <2>4 DEF EvTypes
    <2>6. Messages'  BY <1>0, <2>1, <2>2, <2>4 DEF Messages, InLog
    <2>7. Reports'  BY <1>0, <2>1 DEF Reports
    <2> QED  BY <2>5, <2>6, <2>7 DEF EventInv
  <1>4. CASE Collect
    <2>1. UNCHANGED <<links, log, known, reported, kind, ifname, phase>> /\ phase = "reading"
          /\ queue # <<>> /\ queue' = Tail(queue) /\ absorbed' = Append(absorbed, Head(queue))
      BY <1>4 DEF Collect, kernel
    <2>2. queue \in Seq(Message) /\ absorbed \in Seq(Message)  BY <1>0 DEF EvTypes
    <2>3. queue' \in Seq(Message) /\ Head(queue) \in Message /\ 1 \in DOMAIN queue /\ Head(queue) = queue[1]
          /\ \A j \in DOMAIN queue' : \E q \in DOMAIN queue : queue'[j] = queue[q]
      BY <2>1, <2>2, TailIs
    <2>4. absorbed' \in Seq(Message)
          /\ \A j \in DOMAIN absorbed' :
                absorbed'[j] = Head(queue) \/ (j \in DOMAIN absorbed /\ absorbed'[j] = absorbed[j])
      BY <2>1, <2>2, <2>3, AppendIs
    <2>5. EvTypes'  BY <1>0, <2>1, <2>3, <2>4 DEF EvTypes
    <2>6. Messages'
      <3>1. \A j \in DOMAIN queue' : queue'[j] \in Reply \/ InLog(queue'[j])
        BY <1>0, <2>3 DEF Messages
      <3>2. \A j \in DOMAIN absorbed' : absorbed'[j] \in Reply \/ InLog(absorbed'[j])
        BY <1>0, <2>3, <2>4 DEF Messages
      <3> QED  BY <1>0, <2>1, <3>1, <3>2 DEF Messages, InLog
    <2>7. Reports'  BY <1>0, <2>1 DEF Reports
    <2> QED  BY <2>5, <2>6, <2>7 DEF EventInv
  <1>5. CASE Listen
    <2> DEFINE ks == [j \in 1..Len(absorbed) |-> Entries(absorbed[j])]
    <2>1. UNCHANGED <<links, log, queue, absorbed, reported, kind, ifname>> /\ known' = ks
          /\ phase = "replied" /\ phase' = "listening"
      BY <1>5 DEF Listen, kernel
    <2>2. absorbed \in Seq(Message) /\ Len(absorbed) \in Nat  BY <1>0, LenProperties DEF EvTypes
    <2>3. \A m \in Message : Entries(m) \in [Idx -> Name]
      <3> TAKE m \in Message
      <3>1. CASE m \in Reply  BY <3>1 DEF Reply, Entries
      <3>2. CASE m \in Event
        <4>1. m.kind # "reply" /\ m.name \in Name  BY <3>2 DEF Event, Kinds
        <4>2. NoName \in Name  BY DEF Name
        <4> QED  BY <4>1, <4>2 DEF Entries
      <3> QED  BY <3>1, <3>2 DEF Message
    <2>4. ks \in Seq([Idx -> Name])
      <3>1. \A j \in 1..Len(absorbed) : absorbed[j] \in Message  BY <2>2, ElementOfSeq
      <3>2. ks \in [1..Len(absorbed) -> [Idx -> Name]]  BY <2>3, <3>1
      <3> HIDE DEF ks
      <3> QED  BY <2>2, <3>2, SeqDef
    <2> HIDE DEF ks
    <2>5. EvTypes'  BY <1>0, <2>1, <2>4 DEF EvTypes
    <2>6. Messages'  BY <1>0, <2>1 DEF Messages, InLog
    <2>7. Reports'  BY <1>0, <2>1 DEF Reports
    <2> QED  BY <2>5, <2>6, <2>7 DEF EventInv
  <1>6. CASE Deliver
    <2> DEFINE h == Head(queue)
               c == CallbackOf(h)
    <2>1. /\ InLog(h) /\ h \in Event /\ queue' \in Seq(Message)
          /\ \A j \in DOMAIN queue' : \E q \in DOMAIN queue : queue'[j] = queue[q]
          /\ \/ Applies(h) /\ reported' = Append(reported, c) /\ c \in Report
             \/ ~Applies(h) /\ reported' = reported
          /\ UNCHANGED <<links, log, kind, ifname, phase, absorbed, known>> /\ phase = "listening"
      BY <1>6, Delivered DEF kernel
    <2>2. c.id = h.id  BY DEF CallbackOf
    <2> HIDE DEF h, c
    <2>3. reported \in Seq(Report)  BY <1>0 DEF EvTypes
    <2>4. reported' \in Seq(Report)
          /\ \A j \in DOMAIN reported' : (Applies(h) /\ reported'[j] = c)
                                         \/ (j \in DOMAIN reported /\ reported'[j] = reported[j])
      <3>1. CASE Applies(h) /\ reported' = Append(reported, c) /\ c \in Report
        BY <2>3, <3>1, AppendIs
      <3>2. CASE reported' = reported  BY <2>3, <3>2
      <3> QED  BY <2>1, <3>1, <3>2
    <2>5. EvTypes'  BY <1>0, <2>1, <2>4 DEF EvTypes
    <2>6. Messages'
      <3>1. \A j \in DOMAIN queue' : InLog(queue'[j])  BY <1>0, <2>1 DEF Messages
      <3> QED  BY <1>0, <2>1, <3>1 DEF Messages, InLog
    <2>7. Reports'
      <3>1. \A x : Applies(x)' <=> Applies(x)  BY <2>1, AppliesStays
      <3>2. \A j \in DOMAIN reported' : reported'[j].id \in DOMAIN log /\ Applies(log[reported'[j].id])
        BY <1>0, <2>1, <2>2, <2>4 DEF Reports, InLog
      <3> QED  BY <2>1, <3>1, <3>2 DEF Reports
    <2> QED  BY <2>5, <2>6, <2>7 DEF EventInv
  <1> QED  BY <1>1, <1>2, <1>3, <1>4, <1>5, <1>6 DEF Monitor

\* Every step keeps EventInv.
LEMMA NextEvents == EventInv /\ [Next]_vars => EventInv'
  <1> SUFFICES ASSUME EventInv, [Next]_vars PROVE EventInv'  OBVIOUS
  <1>1. CASE Monitor  BY <1>1, MonitorEvents
  <1>2. CASE Kernel
    <2>1. \E k \in Kinds, i \in Idx, n \in Name : KernelDoes(k, i, n)
      BY <1>2, KernelSteps DEF EventInv
    <2> QED  BY <2>1, KernelEvents
  <1>3. CASE UNCHANGED vars
    <2>1. \A x : Applies(x)' <=> Applies(x)  BY <1>3, AppliesStays DEF vars
    <2>2. EvTypes' /\ Messages'  BY <1>3 DEF EventInv, EvTypes, Messages, InLog, vars
    <2>3. Reports'  BY <1>3, <2>1 DEF EventInv, Reports, vars
    <2> QED  BY <2>2, <2>3 DEF EventInv
  <1> QED  BY <1>1, <1>2, <1>3 DEF Next

-----------------------------------------------------------------------------
(* The socket loses no event *)

\* The events are the elements of the log.
LEMMA EventsOfLog ==
    ASSUME EventInv PROVE \A e : e \in Events <=> \E j \in DOMAIN log : e = log[j]
  <1>1. DOMAIN log = 1..Len(log)  BY LenProperties DEF EventInv, EvTypes
  <1> QED  BY <1>1 DEF Events

\* The properties count positions as Len does.
LEMMA Lengths ==
    ASSUME EventInv
    PROVE  /\ DOMAIN queue = 1..Len(queue) /\ DOMAIN absorbed = 1..Len(absorbed)
           /\ DOMAIN known = 1..Len(known) /\ DOMAIN reported = 1..Len(reported)
           /\ DOMAIN log = 1..Len(log)
  BY LenProperties DEF EventInv, EvTypes

\* After a delivery every event is still waiting or has been dealt with.
LEMMA DeliverKeeps ==
    ASSUME EventInv, EventInv', Deliver, NEW e, InLog(e)
    PROVE  /\ IsQueued(e) => IsQueued(e)' \/ (WasReported(e)' <=> Applies(e)')
           /\ WasReported(e) => WasReported(e)'
           /\ ~Applies(e) => ~Applies(e)'
           /\ WasReported(e)' => Applies(e)'
  <1>0. PICK h : h = Head(queue)  OBVIOUS
  <1>1. /\ InLog(h)
        /\ \A q \in DOMAIN queue : queue[q] = h \/ \E j \in DOMAIN queue' : queue'[j] = queue[q]
        /\ \/ Applies(h) /\ reported' = Append(reported, CallbackOf(h)) /\ CallbackOf(h) \in Report
           \/ ~Applies(h) /\ reported' = reported
        /\ UNCHANGED <<log, kind, ifname, known>>
    BY <1>0, Delivered DEF kernel
  <1>2. \A x : Applies(x)' <=> Applies(x)  BY <1>1, AppliesStays
  <1>3. /\ DOMAIN queue = 1..Len(queue) /\ DOMAIN queue' = 1..Len(queue')
        /\ DOMAIN reported = 1..Len(reported) /\ DOMAIN reported' = 1..Len(reported')
    BY Lengths, LenProperties DEF EventInv, EvTypes
  <1>4. reported \in Seq(Report) /\ CallbackOf(h).id = h.id  BY DEF EventInv, EvTypes, CallbackOf
  <1>5. \A j \in DOMAIN reported : j \in DOMAIN reported' /\ reported'[j] = reported[j]
    <2>1. CASE reported' = reported  BY <2>1
    <2>2. CASE reported' = Append(reported, CallbackOf(h)) /\ CallbackOf(h) \in Report
      BY <1>4, <2>2, AppendIs
    <2> QED  BY <1>1, <2>1, <2>2
  <1>6. Applies(h) => \E j \in DOMAIN reported' : reported'[j].id = h.id
    <2> SUFFICES ASSUME Applies(h) PROVE \E j \in DOMAIN reported' : reported'[j].id = h.id  OBVIOUS
    <2>1. reported' = Append(reported, CallbackOf(h)) /\ CallbackOf(h) \in Report  BY <1>1
    <2>2. Len(reported) + 1 \in DOMAIN reported' /\ reported'[Len(reported) + 1] = CallbackOf(h)
      BY <1>4, <2>1, AppendIs
    <2> QED  BY <1>4, <2>2
  <1>7. WasReported(e) => WasReported(e)'  BY <1>3, <1>5 DEF WasReported
  <1>8. WasReported(e)' => Applies(e)'
    <2> SUFFICES ASSUME WasReported(e)' PROVE Applies(e)'  OBVIOUS
    <2>1. PICK j \in DOMAIN reported' : reported'[j].id = e.id  BY <1>3 DEF WasReported
    <2>2. Applies(log[e.id])'  BY <2>1 DEF EventInv, Reports
    <2> QED  BY <1>1, <1>2, <2>2 DEF InLog
  <1>9. IsQueued(e) => IsQueued(e)' \/ (WasReported(e)' <=> Applies(e)')
    <2> SUFFICES ASSUME IsQueued(e), ~IsQueued(e)', Applies(e)' PROVE WasReported(e)'  BY <1>8
    <2>1. e = h  BY <1>1, <1>3 DEF IsQueued
    <2>2. \E j \in DOMAIN reported' : reported'[j].id = e.id  BY <1>2, <1>6, <2>1
    <2> QED  BY <1>3, <2>2 DEF WasReported
  <1> QED  BY <1>2, <1>7, <1>8, <1>9

\* From the moment a monitor listens no event of its groups is lost: it waits in the
\* socket, or it was reported exactly if it passes the filter.
Handled ==
    phase = "listening" =>
      \A e \in Events :
        e.id > from /\ e.kind \in Groups(kind) => IsQueued(e) \/ (WasReported(e) <=> Applies(e))

\* The interfaces of the answer to GETLINK are in the links array.
AnswerKnown == phase = "listening" => \A i \in Idx : Answered(i) => HasLink(i)

MissInv == EventInv /\ Handled

\* A change, announced to a monitor that listens, waits in its socket.
LEMMA KernelMisses ==
    ASSUME MissInv, EventInv', NEW k \in Kinds, NEW i \in Idx, NEW n \in Name, Announce(k, i, n),
           phase = "listening"
    PROVE  Handled'
  <1>0. EventInv /\ Handled  BY DEF MissInv
  <1>1. PICK c : c = Change(k, i, n)  OBVIOUS
  <1>2. /\ DOMAIN log' = DOMAIN log \cup {c.id} /\ log'[c.id] = c
        /\ \A j \in DOMAIN log : log'[j] = log[j]
        /\ \A j \in DOMAIN queue : j \in DOMAIN queue' /\ queue'[j] = queue[j]
        /\ Subscribed /\ k \in Groups(kind) => \E j \in DOMAIN queue' : queue'[j] = c
        /\ UNCHANGED <<kind, ifname, phase, known, from, reported>>
    BY <1>0, <1>1, Announced
  <1>3. c.kind = k  BY <1>0, <1>1, ChangeIsNew
  <1>4. Subscribed  BY DEF Subscribed
  <1>5. \A x : Applies(x)' <=> Applies(x)  BY <1>2, AppliesStays
  <1>6. DOMAIN queue = 1..Len(queue) /\ DOMAIN queue' = 1..Len(queue')
    BY <1>0, LenProperties DEF EventInv, EvTypes
  <1>7. ASSUME NEW e, e \in Events', e.id > from', e.kind \in Groups(kind)'
        PROVE  IsQueued(e)' \/ (WasReported(e)' <=> Applies(e)')
    <2>1. PICK j \in DOMAIN log' : e = log'[j]
      <3>1. DOMAIN log' = 1..Len(log')  BY LenProperties DEF EventInv, EvTypes
      <3> QED  BY <1>7, <3>1 DEF Events
    <2>2. CASE j = c.id
      <3>1. e = c  BY <1>2, <2>1, <2>2
      <3>2. k \in Groups(kind)  BY <1>2, <1>3, <1>7, <3>1 DEF Groups
      <3>3. \E q \in DOMAIN queue' : queue'[q] = e  BY <1>2, <1>4, <3>1, <3>2
      <3> QED  BY <1>6, <3>3 DEF IsQueued
    <2>3. CASE j # c.id
      <3>1. j \in DOMAIN log /\ e = log[j]  BY <1>2, <2>1, <2>3
      <3>2. e \in Events  BY <1>0, <3>1, EventsOfLog
      <3>3. e.kind \in Groups(kind)  BY <1>2, <1>7 DEF Groups
      <3>4. IsQueued(e) \/ (WasReported(e) <=> Applies(e))  BY <1>0, <1>2, <1>7, <3>2, <3>3 DEF Handled
      <3>5. IsQueued(e) => IsQueued(e)'  BY <1>2, <1>6 DEF IsQueued
      <3>6. WasReported(e)' <=> WasReported(e)  BY <1>2 DEF WasReported
      <3> QED  BY <1>5, <3>4, <3>5, <3>6
    <2> QED  BY <2>2, <2>3
  <1> QED  BY <1>7 DEF Handled

\* Every step keeps Handled.
LEMMA NextMisses == MissInv /\ [Next]_vars => MissInv'
  <1> SUFFICES ASSUME MissInv, [Next]_vars PROVE MissInv'  OBVIOUS
  <1>1. EventInv /\ EventInv' /\ Handled  BY NextEvents DEF MissInv
  <1>2. CASE Start \/ Fail \/ Ask \/ Collect \/ Collected
    <2>1. phase' # "listening"  BY <1>2 DEF Start, Fail, Ask, Collect, Collected
    <2> QED  BY <1>1, <2>1 DEF MissInv, Handled
  <1>3. CASE Listen
    <2>1. from' = Len(log) /\ UNCHANGED log  BY <1>3 DEF Listen, kernel
    <2>2. Len(log) \in Nat /\ DOMAIN log = 1..Len(log)  BY <1>1, LenProperties DEF EventInv, EvTypes
    <2>3. \A e \in Events' : ~(e.id > from')
      <3>1. \A j \in DOMAIN log : log[j].id = j  BY <1>1 DEF EventInv, Messages
      <3>2. \A e \in Events' : \E j \in DOMAIN log : e = log[j]  BY <2>1, <2>2 DEF Events
      <3>3. \A j \in DOMAIN log : ~(j > Len(log))  BY <2>2
      <3> QED  BY <2>1, <3>1, <3>2, <3>3
    <2> QED  BY <1>1, <2>1, <2>2, <2>3 DEF MissInv, Handled
  <1>4. CASE Deliver
    <2>1. phase = "listening" /\ UNCHANGED <<log, kind, from, phase>>  BY <1>4 DEF Deliver, kernel
    <2>2. ASSUME NEW e \in Events, e.id > from, e.kind \in Groups(kind)
          PROVE  IsQueued(e)' \/ (WasReported(e)' <=> Applies(e)')
      <3>1. IsQueued(e) \/ (WasReported(e) <=> Applies(e))  BY <1>1, <2>1, <2>2 DEF Handled
      <3>2. InLog(e)
        <4>1. PICK j \in DOMAIN log : e = log[j]  BY <1>1, EventsOfLog
        <4> QED  BY <1>1, <4>1 DEF EventInv, Messages, InLog
      <3> QED  BY <1>1, <1>4, <3>1, <3>2, DeliverKeeps
    <2>3. Events' = Events /\ \A k : k \in Groups(kind)' <=> k \in Groups(kind)
      BY <2>1 DEF Events, Groups
    <2> QED  BY <1>1, <2>1, <2>2, <2>3 DEF MissInv, Handled
  <1>5. CASE Kernel
    <2>1. PICK k \in Kinds, i \in Idx, n \in Name : Announce(k, i, n)
      BY <1>1, <1>5, KernelSteps DEF EventInv, KernelDoes
    <2>2. UNCHANGED <<phase, from>>  BY <2>1 DEF Announce
    <2>3. CASE phase = "listening"  BY <1>1, <2>1, <2>2, <2>3, KernelMisses DEF MissInv
    <2>4. CASE phase # "listening"  BY <1>1, <2>2, <2>4 DEF MissInv, Handled
    <2> QED  BY <2>3, <2>4
  <1>6. CASE UNCHANGED vars
    <2>1. UNCHANGED <<log, queue, reported, from, phase, kind, known, ifname>>  BY <1>6 DEF vars
    <2>2. \A x : Applies(x)' <=> Applies(x)  BY <2>1, AppliesStays
    <2>3. Events' = Events /\ \A x : (IsQueued(x)' <=> IsQueued(x)) /\ (WasReported(x)' <=> WasReported(x))
      BY <2>1 DEF Events, IsQueued, WasReported
    <2>4. \A k : k \in Groups(kind)' <=> k \in Groups(kind)  BY <2>1 DEF Groups
    <2> QED  BY <1>1, <2>1, <2>2, <2>3, <2>4 DEF MissInv, Handled
  <1> QED  BY <1>2, <1>3, <1>4, <1>5, <1>6 DEF Next, Monitor

-----------------------------------------------------------------------------
(* LinkAccounted *)

\* A message from which the monitor learns that the interface exists.
Shows(m, i) ==
    \/ m.kind = "reply" /\ m.dump[i] # NoName
    \/ m.kind = "newLink" /\ m.idx = i /\ m.name # NoName

\* While the answer is read, every interface is in a message that has been or will be
\* collected, or that waits for onRecv.
Awaited ==
    phase \in {"reading", "replied"} /\ "newLink" \in Groups(kind) =>
      \A i \in Idx : Exists(i) =>
         \/ \E j \in DOMAIN queue : Shows(queue[j], i)
         \/ \E j \in DOMAIN absorbed : Shows(absorbed[j], i)

AccountInv == EventInv /\ Awaited /\ LinkAccounted

\* The caller of the monitor has been or will be told of the interface.
Told(i) ==
    \E e \in Events : /\ e.kind = "newLink" /\ e.idx = i
                      /\ IsQueued(e) \/ WasReported(e) \/ ~Applies(e)

\* A monitor that hears of new links hears of all link events.
LEMMA LinkGroups ==
    ASSUME EventInv PROVE LinkKinds \subseteq Groups(kind) <=> "newLink" \in Groups(kind)
  <1>1. kind \in {"all", "link", "address", "route", "neigh", "process"}
    BY MonitorsOK DEF EventInv, EvTypes
  <1> QED  BY <1>1 DEF Groups, LinkKinds, ProcKinds

\* An entry for every link message.
LEMMA ShownIsEntry == ASSUME NEW m, NEW i \in Idx, Shows(m, i) PROVE Entries(m)[i] # NoName
  BY DEF Shows, Entries, LinkKinds

\* The answer and the events before it make the links array.
LEMMA ListenAccounts == ASSUME AccountInv, EventInv', Listen PROVE AccountInv'
  <1>0. EventInv /\ Awaited  BY DEF AccountInv
  <1>1. phase = "replied" /\ phase' = "listening"
        /\ known' = [j \in 1..Len(absorbed) |-> Entries(absorbed[j])]
        /\ UNCHANGED <<links, log, queue, absorbed, kind>>
    BY DEF Listen, kernel
  <1>2. DOMAIN absorbed = 1..Len(absorbed) /\ DOMAIN queue = 1..Len(queue)  BY <1>0, Lengths
  <1>3. DOMAIN known' = 1..Len(known')  BY LenProperties DEF EventInv, EvTypes
  <1>4. DOMAIN known' = 1..Len(absorbed)  BY <1>1
  <1>5. ASSUME NEW i \in Idx, Exists(i), "newLink" \in Groups(kind) PROVE HasLink(i)' \/ Told(i)'
    <2>1. ASSUME NEW j \in DOMAIN absorbed, Shows(absorbed[j], i) PROVE HasLink(i)'
      <3>1. known'[j][i] # NoName  BY <1>1, <1>2, <2>1, ShownIsEntry
      <3> QED  BY <1>2, <1>3, <1>4, <3>1 DEF HasLink
    <2>2. ASSUME NEW j \in DOMAIN queue, Shows(queue[j], i) PROVE Told(i)'
      <3>0. PICK e : e = queue[j]  OBVIOUS
      <3>1. InLog(e)  BY <1>0, <1>1, <3>0 DEF EventInv, Messages
      <3>2. e \in Event
        <4>1. \A x \in DOMAIN log : log[x] \in Event  BY <1>0 DEF EventInv, EvTypes
        <4> QED  BY <3>1, <4>1 DEF InLog
      <3>3. e.kind = "newLink" /\ e.idx = i  BY <2>2, <3>0, <3>2 DEF Shows, Event, Kinds
      <3>4. e \in Events  BY <1>0, <3>1, EventsOfLog DEF InLog
      <3>5. e \in Events' /\ IsQueued(e)'  BY <1>1, <1>2, <3>0, <3>4 DEF Events, IsQueued
      <3> QED  BY <3>3, <3>5 DEF Told
    <2> QED  BY <1>0, <1>1, <1>5, <2>1, <2>2 DEF Awaited
  <1>6. LinkAccounted'
    <2>1. LinkKinds \subseteq Groups(kind)' => "newLink" \in Groups(kind)  BY <1>1 DEF LinkKinds, Groups
    <2>2. \A i \in Idx : Exists(i)' <=> Exists(i)  BY <1>1 DEF Exists
    <2> QED  BY <1>5, <2>1, <2>2 DEF LinkAccounted, Told
  <1> QED  BY <1>1, <1>6 DEF AccountInv, Awaited

\* A new interface is announced to a monitor that hears of links.
LEMMA KernelAccounts ==
    ASSUME AccountInv, EventInv', NEW k \in Kinds, NEW i \in Idx, NEW n \in Name, KernelDoes(k, i, n)
    PROVE  AccountInv'
  <1>0. EventInv /\ Awaited /\ LinkAccounted /\ Announce(k, i, n)  BY DEF AccountInv, KernelDoes
  <1>1. PICK c : c = Change(k, i, n)  OBVIOUS
  <1>2. /\ DOMAIN log' = DOMAIN log \cup {c.id} /\ log'[c.id] = c
        /\ \A j \in DOMAIN log : log'[j] = log[j]
        /\ \A j \in DOMAIN queue : j \in DOMAIN queue' /\ queue'[j] = queue[j]
        /\ Subscribed /\ k \in Groups(kind) => \E j \in DOMAIN queue' : queue'[j] = c
        /\ UNCHANGED <<kind, ifname, phase, absorbed, known, reported>>
    BY <1>0, <1>1, Announced
  <1>3. c.kind = k /\ c.idx = i /\ c.name = n  BY <1>0, <1>1, ChangeIsNew
  <1>4. ASSUME NEW j \in Idx, Exists(j)' PROVE Exists(j) \/ (j = i /\ k = "newLink")
    BY <1>4 DEF Exists, KernelDoes
  <1>5. DOMAIN queue = 1..Len(queue) /\ DOMAIN queue' = 1..Len(queue') /\ DOMAIN log' = 1..Len(log')
    BY <1>0, LenProperties DEF EventInv, EvTypes
  <1>6. "newLink" \in Groups(kind)' => "newLink" \in Groups(kind) /\ kind # "process"
    <2>1. kind = "process" => "newLink" \notin Groups(kind)  BY DEF Groups, ProcKinds
    <2> QED  BY <1>2, <2>1 DEF Groups
  <1>7. Awaited'
    <2> SUFFICES ASSUME phase' \in {"reading", "replied"}, "newLink" \in Groups(kind)',
                        NEW j \in Idx, Exists(j)'
                 PROVE  \/ \E q \in DOMAIN queue' : Shows(queue'[q], j)
                        \/ \E q \in DOMAIN absorbed' : Shows(absorbed'[q], j)
      BY DEF Awaited, Shows
    <2>1. CASE Exists(j)  BY <1>0, <1>2, <1>6, <2>1 DEF Awaited
    <2>2. CASE ~Exists(j)
      <3>1. j = i /\ k = "newLink"  BY <1>4, <2>2
      <3>2. Subscribed  BY <1>2 DEF Subscribed
      <3>3. PICK q \in DOMAIN queue' : queue'[q] = c  BY <1>2, <1>6, <3>1, <3>2
      <3>4. n # NoName  BY <1>6, NamesOK DEF KernelDoes
      <3>5. Shows(c, j)  BY <1>3, <3>1, <3>4 DEF Shows
      <3> QED  BY <3>3, <3>5
    <2> QED  BY <2>1, <2>2
  <1>8. LinkAccounted'
    <2> SUFFICES ASSUME phase' = "listening", "newLink" \in Groups(kind)', NEW j \in Idx, Exists(j)'
                 PROVE  HasLink(j)' \/ Told(j)'
      BY DEF LinkAccounted, Told, LinkKinds
    <2>1. CASE Exists(j)
      <3>1. HasLink(j) \/ Told(j)  BY <1>0, <1>2, <1>6, <2>1, LinkGroups DEF LinkAccounted, Told
      <3>2. HasLink(j) => HasLink(j)'  BY <1>2 DEF HasLink
      <3>3. ASSUME NEW e \in Events, e.kind = "newLink", e.idx = j,
                   IsQueued(e) \/ WasReported(e) \/ ~Applies(e)
            PROVE  Told(j)'
        <4>1. PICK x \in DOMAIN log : e = log[x]  BY <1>0, <3>3, EventsOfLog
        <4>2. e \in Events'  BY <1>2, <1>5, <4>1 DEF Events
        <4>3. Applies(e)' <=> Applies(e)  BY <1>2, AppliesStays
        <4>4. IsQueued(e) => IsQueued(e)'  BY <1>2, <1>5 DEF IsQueued
        <4>5. WasReported(e) => WasReported(e)'  BY <1>2 DEF WasReported
        <4> QED  BY <3>3, <4>2, <4>3, <4>4, <4>5 DEF Told
      <3> QED  BY <3>1, <3>2, <3>3 DEF Told
    <2>2. CASE ~Exists(j)
      <3>1. j = i /\ k = "newLink"  BY <1>4, <2>2
      <3>2. Subscribed  BY <1>2 DEF Subscribed
      <3>3. PICK q \in DOMAIN queue' : queue'[q] = c  BY <1>2, <1>6, <3>1, <3>2
      <3>4. c \in Events' /\ IsQueued(c)'  BY <1>2, <1>5, <3>3 DEF Events, IsQueued
      <3> QED  BY <1>3, <3>1, <3>4 DEF Told
    <2> QED  BY <2>1, <2>2
  <1> QED  BY <1>7, <1>8 DEF AccountInv

\* Every step keeps the account.
LEMMA NextAccounts == AccountInv /\ [Next]_vars => AccountInv'
  <1> SUFFICES ASSUME AccountInv, [Next]_vars PROVE AccountInv'  OBVIOUS
  <1>1. EventInv /\ EventInv' /\ Awaited /\ LinkAccounted  BY NextEvents DEF AccountInv
  <1>2. CASE Start \/ Fail
    <2>1. phase' \notin {"reading", "replied", "listening"}  BY <1>2 DEF Start, Fail
    <2> QED  BY <1>1, <2>1 DEF AccountInv, Awaited, LinkAccounted
  <1>3. CASE Ask
    <2>0. PICK r : r = [id |-> 0, kind |-> "reply", dump |-> links]  OBVIOUS
    <2>1. phase' = "reading" /\ UNCHANGED links /\ queue' = Append(queue, r)
      BY <1>3, <2>0 DEF Ask, kernel
    <2>2. r \in Message /\ queue \in Seq(Message)
      BY <1>1, <2>0 DEF EventInv, EvTypes, Message, Reply
    <2>3. Len(queue) + 1 \in DOMAIN queue' /\ queue'[Len(queue) + 1] = r  BY <2>1, <2>2, AppendIs
    <2>4. \A i \in Idx : Exists(i)' => Shows(r, i)  BY <2>0, <2>1 DEF Shows, Exists
    <2>5. Awaited'  BY <2>3, <2>4 DEF Awaited, Shows
    <2> QED  BY <1>1, <2>1, <2>5 DEF AccountInv, LinkAccounted
  <1>4. CASE Collect
    <2>0. PICK h : h = Head(queue)  OBVIOUS
    <2>1. phase = "reading" /\ phase' = "reading" /\ UNCHANGED <<links, kind>> /\ queue # <<>>
          /\ queue' = Tail(queue) /\ absorbed' = Append(absorbed, h)
      BY <1>4, <2>0 DEF Collect, kernel
    <2>2. queue \in Seq(Message) /\ absorbed \in Seq(Message)  BY <1>1 DEF EventInv, EvTypes
    <2>3. h \in Message
          /\ \A q \in DOMAIN queue : queue[q] = h \/ \E j \in DOMAIN queue' : queue'[j] = queue[q]
      BY <2>0, <2>1, <2>2, TailIs
    <2>4. /\ Len(absorbed) + 1 \in DOMAIN absorbed' /\ absorbed'[Len(absorbed) + 1] = h
          /\ \A j \in DOMAIN absorbed : j \in DOMAIN absorbed' /\ absorbed'[j] = absorbed[j]
      BY <2>1, <2>2, <2>3, AppendIs
    <2>5. ASSUME NEW i \in Idx, Exists(i)', "newLink" \in Groups(kind)'
          PROVE  \/ \E j \in DOMAIN queue' : Shows(queue'[j], i)
                 \/ \E j \in DOMAIN absorbed' : Shows(absorbed'[j], i)
      <3>1. "newLink" \in Groups(kind) /\ Exists(i)  BY <2>1, <2>5 DEF Groups, Exists
      <3>2. \/ \E j \in DOMAIN queue : Shows(queue[j], i)
            \/ \E j \in DOMAIN absorbed : Shows(absorbed[j], i)
        BY <1>1, <2>1, <3>1 DEF Awaited
      <3> QED  BY <2>3, <2>4, <3>2
    <2>6. Awaited'  BY <2>5 DEF Awaited, Shows
    <2> QED  BY <1>1, <2>1, <2>6 DEF AccountInv, LinkAccounted
  <1>5. CASE Collected
    <2>1. phase = "reading" /\ phase' = "replied" /\ UNCHANGED <<links, kind, queue, absorbed>>
      BY <1>5 DEF Collected, kernel
    <2>2. Awaited'  BY <1>1, <2>1 DEF Awaited, Exists, Groups, Shows
    <2> QED  BY <1>1, <2>1, <2>2 DEF AccountInv, LinkAccounted
  <1>6. CASE Listen  BY <1>1, <1>6, ListenAccounts
  <1>7. CASE Deliver
    <2>1. phase = "listening" /\ UNCHANGED <<links, log, kind, ifname, known, phase>>
      BY <1>7 DEF Deliver, kernel
    <2>2. ASSUME NEW e \in Events, IsQueued(e) \/ WasReported(e) \/ ~Applies(e)
          PROVE  IsQueued(e)' \/ WasReported(e)' \/ ~Applies(e)'
      <3>1. InLog(e)
        <4>1. PICK j \in DOMAIN log : e = log[j]  BY <1>1, EventsOfLog
        <4> QED  BY <1>1, <4>1 DEF EventInv, Messages, InLog
      <3> QED  BY <1>1, <1>7, <2>2, <3>1, DeliverKeeps
    <2>3. Events' = Events /\ (LinkKinds \subseteq Groups(kind)' <=> LinkKinds \subseteq Groups(kind))
      BY <2>1 DEF Events, Groups
    <2>4. \A i \in Idx : (Exists(i)' <=> Exists(i)) /\ (HasLink(i)' <=> HasLink(i))
      BY <2>1 DEF Exists, HasLink
    <2>5. LinkAccounted'  BY <1>1, <2>1, <2>2, <2>3, <2>4 DEF LinkAccounted
    <2> QED  BY <1>1, <2>1, <2>5 DEF AccountInv, Awaited
  <1>8. CASE Kernel
    <2>1. PICK k \in Kinds, i \in Idx, n \in Name : KernelDoes(k, i, n)
      BY <1>1, <1>8, KernelSteps DEF EventInv
    <2> QED  BY <1>1, <2>1, KernelAccounts
  <1>9. CASE UNCHANGED vars
    <2>1. UNCHANGED <<links, log, queue, absorbed, reported, phase, kind, known, ifname>>
      BY <1>9 DEF vars
    <2>2. \A x : Applies(x)' <=> Applies(x)  BY <2>1, AppliesStays
    <2>3. Events' = Events /\ \A x : (IsQueued(x)' <=> IsQueued(x)) /\ (WasReported(x)' <=> WasReported(x))
      BY <2>1 DEF Events, IsQueued, WasReported
    <2>4. \A k : k \in Groups(kind)' <=> k \in Groups(kind)  BY <2>1 DEF Groups
    <2>5. \A i \in Idx : (Exists(i)' <=> Exists(i)) /\ (HasLink(i)' <=> HasLink(i))
      BY <2>1 DEF Exists, HasLink
    <2>6. Awaited'  BY <1>1, <2>1, <2>4, <2>5 DEF Awaited, Shows
    <2>7. LinkAccounted'  BY <1>1, <2>1, <2>2, <2>3, <2>4, <2>5 DEF LinkAccounted
    <2> QED  BY <1>1, <2>6, <2>7 DEF AccountInv
  <1> QED  BY <1>2, <1>3, <1>4, <1>5, <1>6, <1>7, <1>8, <1>9 DEF Next, Monitor

\* A link that appears while the GETLINK request is under way is not lost between the
\* answer and onRecv, wherever in between it appears.
THEOREM LinkAccountedAlways == Spec => []LinkAccounted
  <1>1. Init => AccountInv
    <2> SUFFICES ASSUME Init PROVE AccountInv  OBVIOUS
    <2>1. phase = "start"  BY DEF Init
    <2> QED  BY <2>1, InitEvents DEF AccountInv, Awaited, LinkAccounted
  <1>2. AccountInv => LinkAccounted  BY DEF AccountInv
  <1> QED  BY <1>1, <1>2, NextAccounts, PTL DEF Spec

-----------------------------------------------------------------------------
(* NameAsLabeled *)

\* The name n has been given for the number i: by an event, by the answer, or in the
\* links array.
Says(i, n) ==
    \/ \E j \in DOMAIN log : log[j].idx = i /\ log[j].name = n
    \/ \E j \in DOMAIN queue : queue[j] \in Reply /\ queue[j].dump[i] = n
    \/ \E j \in DOMAIN absorbed : absorbed[j] \in Reply /\ absorbed[j].dump[i] = n
    \/ \E j \in DOMAIN known : known[j][i] = n

\* All that is said of an interface that was not renamed is one name, the one it has.
Consistent ==
    /\ \A i \in Idx : Exists(i) => i \in old
    /\ kind # "process" =>
         /\ \A j \in DOMAIN log : log[j].name \in Names
         /\ \A i \in Idx, n \in Names : Says(i, n) =>
               /\ i \in old
               /\ i \notin renamed =>
                     /\ Exists(i) => n = links[i]
                     /\ \A p \in Names : Says(i, p) => p = n

\* NameAsLabeled, with the events it speaks of in the log.
Labeled ==
    \A j \in DOMAIN reported :
       /\ reported[j].id \in DOMAIN log
       /\ kind # "process" /\ log[reported[j].id].idx \notin renamed =>
             reported[j].name = log[reported[j].id].name

LabelInv == EventInv /\ Consistent /\ Labeled

\* The monitor says nothing of its own.
LEMMA NothingNewSaid ==
    ASSUME LabelInv, UNCHANGED <<links, old, renamed, kind, log>>,
           \A i \in Idx, n \in Names : Says(i, n)' => Says(i, n) \/ (Exists(i) /\ n = links[i])
    PROVE  Consistent'
  <1>1. Consistent /\ \A i \in Idx : Exists(i)' <=> Exists(i)  BY DEF LabelInv, Exists
  <1>2. ASSUME NEW i \in Idx, NEW n \in Names, Says(i, n)', kind # "process"
        PROVE  /\ i \in old
               /\ i \notin renamed =>
                     /\ Exists(i) => n = links[i]
                     /\ \A p \in Names : Says(i, p)' => p = n
    <2>1. Says(i, n) \/ (Exists(i) /\ n = links[i])  BY <1>2
    <2>2. i \in old  BY <1>1, <1>2, <2>1 DEF Consistent
    <2>3. ASSUME i \notin renamed, Exists(i) PROVE n = links[i]
      BY <1>1, <1>2, <2>1, <2>3 DEF Consistent
    <2>4. ASSUME i \notin renamed, NEW p \in Names, Says(i, p)' PROVE p = n
      <3>1. Says(i, p) \/ (Exists(i) /\ p = links[i])  BY <2>4
      <3> QED  BY <1>1, <1>2, <2>1, <2>4, <3>1 DEF Consistent
    <2> QED  BY <2>2, <2>3, <2>4
  <1> QED  BY <1>1, <1>2 DEF Consistent

\* An event gives the interface the name it has.
LEMMA KernelLabels ==
    ASSUME LabelInv, EventInv', NEW k \in Kinds, NEW i \in Idx, NEW n \in Name, KernelDoes(k, i, n)
    PROVE  LabelInv'
  <1>0. EventInv /\ Consistent /\ Labeled /\ Announce(k, i, n)  BY DEF LabelInv, KernelDoes
  <1>1. PICK c : c = Change(k, i, n)  OBVIOUS
  <1>2. /\ DOMAIN log' = DOMAIN log \cup {c.id} /\ log'[c.id] = c
        /\ \A j \in DOMAIN log : log'[j] = log[j]
        /\ \A j \in DOMAIN queue' : queue'[j] = c \/ (j \in DOMAIN queue /\ queue'[j] = queue[j])
        /\ UNCHANGED <<kind, absorbed, known, reported>>
    BY <1>0, <1>1, Announced
  <1>3. c \in Event /\ c.idx = i /\ c.name = n  BY <1>0, <1>1, ChangeIsNew
  <1>4. c \notin Reply  BY <1>3 DEF Event, Reply, Kinds
  <1>5. \A x, p : Says(x, p)' => Says(x, p) \/ (x = i /\ p = n)  BY <1>2, <1>3, <1>4 DEF Says
  <1>6. /\ old \subseteq old' /\ renamed \subseteq renamed'
        /\ \A j \in Idx : j # i => links'[j] = links[j]
        /\ links'[i] # NoName => i \in old' \/ (links[i] # NoName /\ UNCHANGED old)
    BY DEF KernelDoes
  <1>7. \A j \in Idx : Exists(j)' => j \in old'
    <2> TAKE j \in Idx
    <2>1. CASE j # i  BY <1>0, <1>6, <2>1 DEF Consistent, Exists
    <2>2. CASE j = i  BY <1>0, <1>6, <2>2 DEF Consistent, Exists
    <2> QED  BY <2>1, <2>2
  <1>8. ASSUME kind # "process"
        PROVE  /\ \A j \in DOMAIN log' : log'[j].name \in Names
               /\ \A x \in Idx, p \in Names : Says(x, p)' =>
                     /\ x \in old'
                     /\ x \notin renamed' =>
                           /\ Exists(x)' => p = links'[x]
                           /\ \A q \in Names : Says(x, q)' => q = p
    <2>1. /\ n \in Names /\ (i \in old' \/ links[i] # NoName)
          /\ i \notin renamed' => /\ i \notin old \/ links[i] = n
                                  /\ links'[i] # NoName => links'[i] = n
      BY <1>8 DEF KernelDoes
    <2>2. i \in old'  BY <1>0, <1>6, <2>1 DEF Consistent, Exists
    <2>3. \A j \in DOMAIN log' : log'[j].name \in Names  BY <1>0, <1>2, <1>3, <1>8, <2>1 DEF Consistent
    <2>4. ASSUME NEW x \in Idx, NEW p \in Names, Says(x, p)', x # i
          PROVE  /\ x \in old'
                 /\ x \notin renamed' => /\ Exists(x)' => p = links'[x]
                                         /\ \A q \in Names : Says(x, q)' => q = p
      <3>1. Says(x, p) /\ \A q \in Names : Says(x, q)' => Says(x, q)  BY <1>5, <2>4
      <3>2. (Exists(x)' <=> Exists(x)) /\ links'[x] = links[x]  BY <1>6, <2>4 DEF Exists
      <3> QED  BY <1>0, <1>6, <1>8, <3>1, <3>2 DEF Consistent
    <2>5. ASSUME i \notin renamed', NEW q \in Names, Says(i, q)' PROVE q = n
      <3>1. CASE Says(i, q)
        <4>1. i \in old  BY <1>0, <1>8, <3>1 DEF Consistent
        <4>2. links[i] = n /\ Exists(i)  BY <2>1, <2>5, <4>1, NamesOK DEF Exists
        <4> QED  BY <1>0, <1>6, <1>8, <2>5, <3>1, <4>2 DEF Consistent
      <3>2. CASE ~Says(i, q)  BY <1>5, <2>5, <3>2
      <3> QED  BY <3>1, <3>2
    <2>6. ASSUME NEW p \in Names, Says(i, p)'
          PROVE  i \notin renamed' => /\ Exists(i)' => p = links'[i]
                                      /\ \A q \in Names : Says(i, q)' => q = p
      BY <2>1, <2>5, <2>6 DEF Exists
    <2> QED  BY <2>2, <2>3, <2>4, <2>6
  <1>9. Consistent'  BY <1>2, <1>7, <1>8 DEF Consistent
  <1>10. Labeled'
    <2> SUFFICES ASSUME NEW j \in DOMAIN reported
                 PROVE  /\ reported[j].id \in DOMAIN log'
                        /\ kind # "process" /\ log'[reported[j].id].idx \notin renamed' =>
                              reported[j].name = log'[reported[j].id].name
      BY <1>2 DEF Labeled
    <2> QED  BY <1>0, <1>2, <1>6 DEF Labeled
  <1> QED  BY <1>9, <1>10 DEF LabelInv

\* An event is packaged under the name it carries.
LEMMA DeliverLabels == ASSUME LabelInv, EventInv', Deliver PROVE LabelInv'
  <1>0. EventInv /\ Consistent /\ Labeled  BY DEF LabelInv
  <1>1. PICK h : h = Head(queue)  OBVIOUS
  <1>2. PICK c : c = CallbackOf(h)  OBVIOUS
  <1>3. /\ InLog(h) /\ h \in Event
        /\ \A j \in DOMAIN queue' : \E q \in DOMAIN queue : queue'[j] = queue[q]
        /\ \/ Applies(h) /\ reported' = Append(reported, c) /\ c \in Report
           \/ ~Applies(h) /\ reported' = reported
        /\ UNCHANGED <<links, old, renamed, log, kind, absorbed, known>>
    BY <1>0, <1>1, <1>2, Delivered DEF kernel
  <1>4. \A i, n : Says(i, n)' => Says(i, n)  BY <1>3 DEF Says
  <1>5. Consistent'  BY <1>3, <1>4, NothingNewSaid
  <1>6. ASSUME Applies(h), kind # "process", h.idx \notin renamed PROVE c.name = h.name
    <2>1. c.name = NameOf(h)  BY <1>2, <1>6 DEF CallbackOf
    <2>2. CASE h.kind \in LinkKinds  BY <2>1, <2>2 DEF NameOf
    <2>3. CASE h.kind \notin LinkKinds
      <3>1. HasLink(h.idx)  BY <1>6, <2>3 DEF Applies, Packaged
      <3>2. PICK j \in 1..Len(known) : LinkName(h.idx) = known[j][h.idx] /\ known[j][h.idx] # NoName
        BY <3>1, LinkNameFound
      <3>3. h.idx \in Idx  BY <1>3 DEF Event
      <3>4. j \in DOMAIN known /\ known[j] \in [Idx -> Name]
        BY <1>0, Lengths, ElementOfSeq DEF EventInv, EvTypes
      <3>5. known[j][h.idx] \in Names  BY <3>2, <3>3, <3>4 DEF Name
      <3>6. Says(h.idx, known[j][h.idx])  BY <3>4 DEF Says
      <3>7. h.name \in Names /\ Says(h.idx, h.name)
        BY <1>0, <1>3, <1>6 DEF InLog, Consistent, Says
      <3>8. h.name = known[j][h.idx]  BY <1>0, <1>6, <3>3, <3>5, <3>6, <3>7 DEF Consistent
      <3> QED  BY <2>1, <2>3, <3>2, <3>8 DEF NameOf
    <2> QED  BY <2>2, <2>3
  <1>7. c.id = h.id  BY <1>2 DEF CallbackOf
  <1>8. Labeled'
    <2>1. reported \in Seq(Report)  BY <1>0 DEF EventInv, EvTypes
    <2>2. \A j \in DOMAIN reported' : (Applies(h) /\ reported'[j] = c)
                                      \/ (j \in DOMAIN reported /\ reported'[j] = reported[j])
      <3>1. CASE Applies(h) /\ reported' = Append(reported, c) /\ c \in Report
        BY <2>1, <3>1, AppendIs
      <3>2. CASE reported' = reported  BY <3>2
      <3> QED  BY <1>3, <3>1, <3>2
    <2>3. ASSUME NEW j \in DOMAIN reported'
          PROVE  /\ reported'[j].id \in DOMAIN log
                 /\ kind # "process" /\ log[reported'[j].id].idx \notin renamed =>
                       reported'[j].name = log[reported'[j].id].name
      <3>1. CASE Applies(h) /\ reported'[j] = c  BY <1>3, <1>6, <1>7, <3>1 DEF InLog
      <3>2. CASE j \in DOMAIN reported /\ reported'[j] = reported[j]  BY <1>0, <3>2 DEF Labeled
      <3> QED  BY <2>2, <3>1, <3>2
    <2> QED  BY <1>3, <2>3 DEF Labeled
  <1> QED  BY <1>5, <1>8 DEF LabelInv

\* Every step keeps the names.
LEMMA NextLabels == LabelInv /\ [Next]_vars => LabelInv'
  <1> SUFFICES ASSUME LabelInv, [Next]_vars PROVE LabelInv'  OBVIOUS
  <1>1. EventInv /\ EventInv' /\ Consistent /\ Labeled  BY NextEvents DEF LabelInv
  <1>2. ASSUME UNCHANGED <<links, old, renamed, kind, log, reported>>,
               \A i \in Idx, n \in Names : Says(i, n)' => Says(i, n) \/ (Exists(i) /\ n = links[i])
        PROVE  LabelInv'
    <2>1. Consistent'  BY <1>2, NothingNewSaid
    <2>2. Labeled'  BY <1>1, <1>2 DEF Labeled
    <2> QED  BY <1>1, <2>1, <2>2 DEF LabelInv
  <1>3. CASE Start \/ Collected \/ UNCHANGED vars
    <2>1. UNCHANGED <<links, old, renamed, kind, log, reported, queue, absorbed, known>>
      BY <1>3 DEF Start, Collected, kernel, vars
    <2>2. \A i, n : Says(i, n)' => Says(i, n)  BY <2>1 DEF Says
    <2> QED  BY <1>2, <2>1, <2>2
  <1>4. CASE Fail
    <2>1. UNCHANGED <<links, old, renamed, kind, log, reported, absorbed, known>> /\ queue' = <<>>
      BY <1>4 DEF Fail, kernel
    <2>2. \A i, n : Says(i, n)' => Says(i, n)  BY <2>1 DEF Says
    <2> QED  BY <1>2, <2>1, <2>2
  <1>5. CASE Ask
    <2>0. PICK r : r = [id |-> 0, kind |-> "reply", dump |-> links]  OBVIOUS
    <2>1. UNCHANGED <<links, old, renamed, kind, log, reported, absorbed, known>>
          /\ queue' = Append(queue, r)
      BY <1>5, <2>0 DEF Ask, kernel
    <2>2. r \in Message /\ queue \in Seq(Message)
      BY <1>1, <2>0 DEF EventInv, EvTypes, Message, Reply
    <2>3. \A j \in DOMAIN queue' : queue'[j] = r \/ (j \in DOMAIN queue /\ queue'[j] = queue[j])
      BY <2>1, <2>2, AppendIs
    <2>4. \A i, n : Says(i, n)' => Says(i, n) \/ n = r.dump[i]  BY <2>1, <2>3 DEF Says
    <2>5. \A i \in Idx, n \in Names : n = r.dump[i] => Exists(i) /\ n = links[i]
      BY <2>0, NamesOK DEF Exists
    <2> QED  BY <1>2, <2>1, <2>4, <2>5
  <1>6. CASE Collect
    <2>0. PICK h : h = Head(queue)  OBVIOUS
    <2>1. UNCHANGED <<links, old, renamed, kind, log, reported, known>> /\ queue # <<>>
          /\ queue' = Tail(queue) /\ absorbed' = Append(absorbed, h)
      BY <1>6, <2>0 DEF Collect, kernel
    <2>2. queue \in Seq(Message) /\ absorbed \in Seq(Message)  BY <1>1 DEF EventInv, EvTypes
    <2>3. h \in Message /\ 1 \in DOMAIN queue /\ h = queue[1]
          /\ \A j \in DOMAIN queue' : \E q \in DOMAIN queue : queue'[j] = queue[q]
      BY <2>0, <2>1, <2>2, TailIs
    <2>4. \A j \in DOMAIN absorbed' :
             absorbed'[j] = h \/ (j \in DOMAIN absorbed /\ absorbed'[j] = absorbed[j])
      BY <2>1, <2>2, <2>3, AppendIs
    <2>5. \A i, n : Says(i, n)' => Says(i, n)  BY <2>1, <2>3, <2>4 DEF Says
    <2> QED  BY <1>2, <2>1, <2>5
  <1>7. CASE Listen
    <2>1. UNCHANGED <<links, old, renamed, kind, log, reported, queue, absorbed>>
          /\ known' = [j \in 1..Len(absorbed) |-> Entries(absorbed[j])]
      BY <1>7 DEF Listen, kernel
    <2>2. DOMAIN absorbed = 1..Len(absorbed)  BY <1>1, Lengths
    <2>3. ASSUME NEW i \in Idx, NEW n \in Names, Says(i, n)' PROVE Says(i, n)
      <3>1. ASSUME NEW j \in DOMAIN absorbed, Entries(absorbed[j])[i] = n PROVE Says(i, n)
        <4>0. PICK m : m = absorbed[j]  OBVIOUS
        <4>1. CASE m \in Reply
          <5>1. m.dump[i] = n  BY <3>1, <4>0, <4>1 DEF Entries, Reply
          <5> QED  BY <4>0, <4>1, <5>1 DEF Says
        <4>2. CASE m \notin Reply
          <5>1. InLog(m)  BY <1>1, <4>0, <4>2 DEF EventInv, Messages
          <5>2. m \in Event
            <6>1. \A x \in DOMAIN log : log[x] \in Event  BY <1>1 DEF EventInv, EvTypes
            <6> QED  BY <5>1, <6>1 DEF InLog
          <5>3. m.kind # "reply"  BY <5>2 DEF Event, Kinds
          <5>4. m.idx = i /\ m.name = n  BY <3>1, <4>0, <5>3, NamesOK DEF Entries
          <5> QED  BY <5>1, <5>4 DEF InLog, Says
        <4> QED  BY <4>1, <4>2
      <3>2. CASE \E j \in DOMAIN known' : known'[j][i] = n  BY <2>1, <2>2, <3>1, <3>2
      <3>3. CASE ~\E j \in DOMAIN known' : known'[j][i] = n  BY <2>1, <2>3, <3>3 DEF Says
      <3> QED  BY <3>2, <3>3
    <2> QED  BY <1>2, <2>1, <2>3
  <1>8. CASE Deliver  BY <1>1, <1>8, DeliverLabels
  <1>9. CASE Kernel
    <2>1. PICK k \in Kinds, i \in Idx, n \in Name : KernelDoes(k, i, n)
      BY <1>1, <1>9, KernelSteps DEF EventInv
    <2> QED  BY <1>1, <2>1, KernelLabels
  <1> QED  BY <1>3, <1>4, <1>5, <1>6, <1>7, <1>8, <1>9 DEF Next, Monitor

\* Nothing has been said at first.
LEMMA InitLabels == Init => LabelInv
  <1> SUFFICES ASSUME Init PROVE LabelInv  OBVIOUS
  <1>1. log = <<>> /\ queue = <<>> /\ absorbed = <<>> /\ known = <<>> /\ reported = <<>>
        /\ old = {i \in Idx : links[i] # NoName}
    BY DEF Init
  <1>2. \A i, n : ~Says(i, n)  BY <1>1 DEF Says
  <1>3. Consistent /\ Labeled  BY <1>1, <1>2 DEF Consistent, Labeled, Exists
  <1> QED  BY <1>3, InitEvents DEF LabelInv

\* An event is reported under the name its interface had when it happened, whether the
\* name came from the GETLINK answer or from an event collected with it, as long as the
\* interface is not renamed.
THEOREM NameAsLabeledAlways == Spec => []NameAsLabeled
  <1>1. LabelInv => NameAsLabeled
    <2> SUFFICES ASSUME LabelInv PROVE NameAsLabeled  OBVIOUS
    <2>1. DOMAIN reported = 1..Len(reported) /\ Labeled  BY Lengths DEF LabelInv
    <2> QED  BY <2>1 DEF NameAsLabeled, Labeled
  <1> QED  BY <1>1, InitLabels, NextLabels, PTL DEF Spec

-----------------------------------------------------------------------------
(* NoneMissed *)

\* The answer is part of the links array from the moment the monitor listens.
LEMMA NextAnswer == EventInv /\ EventInv' /\ AnswerKnown /\ [Next]_vars => AnswerKnown'
  <1> SUFFICES ASSUME EventInv, EventInv', AnswerKnown, [Next]_vars PROVE AnswerKnown'  OBVIOUS
  <1>1. CASE Start \/ Fail \/ Ask \/ Collect \/ Collected
    <2>1. phase' # "listening"  BY <1>1 DEF Start, Fail, Ask, Collect, Collected
    <2> QED  BY <2>1 DEF AnswerKnown
  <1>2. CASE Listen
    <2>1. known' = [j \in 1..Len(absorbed) |-> Entries(absorbed[j])] /\ absorbed' = absorbed
      BY <1>2 DEF Listen
    <2>2. DOMAIN known' = 1..Len(absorbed) /\ DOMAIN known' = 1..Len(known')
      BY <2>1, LenProperties DEF EventInv, EvTypes
    <2>3. ASSUME NEW i \in Idx, NEW j \in 1..Len(absorbed), absorbed[j].kind = "reply",
                 absorbed[j].dump[i] # NoName
          PROVE  HasLink(i)'
      <3>1. known'[j] = absorbed[j].dump  BY <2>1, <2>3 DEF Entries
      <3> QED  BY <2>2, <2>3, <3>1 DEF HasLink
    <2> QED  BY <2>1, <2>3 DEF AnswerKnown, Answered
  <1>3. ASSUME UNCHANGED <<phase, absorbed, known>> PROVE AnswerKnown'
    BY <1>3 DEF AnswerKnown, Answered, HasLink
  <1>4. CASE Deliver \/ UNCHANGED vars  BY <1>3, <1>4 DEF Deliver, vars
  <1>5. CASE Kernel
    <2>1. PICK k \in Kinds, i \in Idx, n \in Name : Announce(k, i, n)
      BY <1>5, KernelSteps DEF EventInv, KernelDoes
    <2> QED  BY <1>3, <2>1 DEF Announce
  <1> QED  BY <1>1, <1>2, <1>4, <1>5 DEF Next, Monitor

\* An event for the caller that is not overlooked passes the filter.
LEMMA CallerApplies ==
    ASSUME LabelInv, AnswerKnown, phase = "listening", NEW e \in Events, ForCaller(e), ~Overlooked(e)
    PROVE  e.kind \in Groups(kind) /\ Applies(e)
  <1>0. EventInv /\ Consistent  BY DEF LabelInv
  <1>1. kind \in {"all", "link", "address", "route", "neigh", "process"}
    BY <1>0, MonitorsOK DEF EventInv, EvTypes
  <1>2. e.kind \in Wanted(kind) /\ ifname \in {AnyName, e.name}  BY DEF ForCaller
  <1>3. e.kind \notin {"route4", "noOif", "noarp", "procOther"}  BY DEF Overlooked
  <1>4. e.kind \in Groups(kind)  BY <1>1, <1>2, <1>3 DEF Wanted, Groups, ProcKinds
  <1>5. CASE kind = "process"
    <2>1. e.kind = "proc"  BY <1>2, <1>3, <1>5 DEF Wanted, ProcKinds
    <2> QED  BY <1>4, <1>5, <2>1 DEF Applies
  <1>6. CASE kind # "process" /\ e.kind \in LinkKinds
    <2>1. Packaged(e) /\ NameOf(e) = e.name  BY <1>6 DEF Packaged, NameOf
    <2> QED  BY <1>2, <1>4, <1>6, <2>1 DEF Applies
  <1>7. CASE kind # "process" /\ e.kind \notin LinkKinds
    <2>1. e.kind \in {"address", "route6", "neigh"}
      BY <1>1, <1>2, <1>3, <1>7 DEF Wanted, LinkKinds
    <2>2. Answered(e.idx) /\ e.idx \notin renamed  BY <2>1 DEF Overlooked
    <2>3. PICK x \in DOMAIN log : e = log[x]  BY <1>0, EventsOfLog
    <2>4. e \in Event  BY <1>0, <2>3 DEF EventInv, EvTypes
    <2>5. HasLink(e.idx)  BY <2>2, <2>4 DEF AnswerKnown, Event
    <2>6. PICK j \in 1..Len(known) : LinkName(e.idx) = known[j][e.idx] /\ known[j][e.idx] # NoName
      BY <2>5, LinkNameFound
    <2>7. e.idx \in Idx  BY <2>4 DEF Event
    <2>8. j \in DOMAIN known /\ known[j] \in [Idx -> Name]
      BY <1>0, Lengths, ElementOfSeq DEF EventInv, EvTypes
    <2>9. known[j][e.idx] \in Names  BY <2>6, <2>7, <2>8 DEF Name
    <2>10. Says(e.idx, known[j][e.idx])  BY <2>8 DEF Says
    <2>11. e.name \in Names /\ Says(e.idx, e.name)  BY <1>0, <1>7, <2>3 DEF Consistent, Says
    <2>12. e.name = known[j][e.idx]  BY <1>0, <1>7, <2>2, <2>7, <2>9, <2>10, <2>11 DEF Consistent
    <2>13. NameOf(e) = e.name /\ Packaged(e)  BY <1>3, <1>7, <2>5, <2>6, <2>12 DEF NameOf, Packaged
    <2> QED  BY <1>2, <1>4, <1>7, <2>13 DEF Applies
  <1> QED  BY <1>5, <1>6, <1>7

\* From the moment a monitor listens no event for its caller is lost, but for those the
\* parser is known to overlook.
THEOREM NoneMissedAlways == Spec => []NoneMissed
  <1>1. Init => MissInv /\ LabelInv /\ AnswerKnown
    <2> SUFFICES ASSUME Init PROVE MissInv /\ LabelInv /\ AnswerKnown  OBVIOUS
    <2>1. phase = "start"  BY DEF Init
    <2> QED  BY <2>1, InitEvents, InitLabels DEF MissInv, Handled, AnswerKnown
  <1>2. MissInv /\ LabelInv /\ AnswerKnown => NoneMissed
    <2> SUFFICES ASSUME MissInv, LabelInv, AnswerKnown, phase = "listening",
                        NEW e \in Events, e.id > from, ForCaller(e), ~Overlooked(e)
                 PROVE  IsQueued(e) \/ WasReported(e)
      BY DEF NoneMissed
    <2>1. e.kind \in Groups(kind) /\ Applies(e)  BY CallerApplies
    <2> QED  BY <2>1 DEF MissInv, Handled
  <1>3. MissInv /\ AnswerKnown /\ [Next]_vars => AnswerKnown'
    <2> SUFFICES ASSUME MissInv, AnswerKnown, [Next]_vars PROVE AnswerKnown'  OBVIOUS
    <2>1. EventInv /\ EventInv'  BY NextMisses DEF MissInv
    <2> QED  BY <2>1, NextAnswer
  <1> QED  BY <1>1, <1>2, <1>3, NextMisses, NextLabels, PTL DEF Spec
=============================================================================
