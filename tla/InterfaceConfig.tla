-------------------------- MODULE InterfaceConfig --------------------------
(***************************************************************************)
(* The synchronous calls of src/network.cc that configure an interface     *)
(* with ioctls: assignAddress, assignRoute, initIfFlags, setIfFlags and    *)
(* unsetIfFlags.                                                           *)
(*                                                                         *)
(* A call blocks the JavaScript thread but not the rest of the system: it  *)
(* is a program of system calls, and other processes may change the        *)
(* interface between any two of them.  Its error (an err_ev) is sticky:    *)
(* once it is set, what follows is skipped.                                *)
(***************************************************************************)
EXTENDS Naturals, Sequences, SequencesExt

CONSTANTS
    Addrs,      \* IPv6 addresses
    Short,      \* those written with no more than four characters
    Dests,      \* destinations of routes
    Flags,      \* interface flags, "UP" among them
    NoAddr,     \* no inet6.addr given; an element of a list that is not a string
    NoJob,      \* no call has been made
    Jobs,       \* the calls JavaScript may make
    Refusals,   \* the system calls that may fail although they make sense
    MaxOther,   \* bound: changes made by other processes
    MaxCalls    \* bound: calls made

ASSUME FlagsHaveUp == "UP" \in Flags
ASSUME AddrNames == NoAddr \notin Addrs /\ Short \subseteq Addrs
ASSUME BoundsType == MaxOther \in Nat /\ MaxCalls \in Nat
ASSUME JobNames ==
    \A j \in Jobs : j.fn \in {"assignAddress", "assignRoute", "initIfFlags", "setIfFlags", "unsetIfFlags"}
ASSUME AddressJobs ==
    \A j \in Jobs : j.fn = "assignAddress" =>
        /\ j.mtu \in BOOLEAN /\ j.mac \in {"none", "bad", "good"} /\ j.mask \in BOOLEAN
        /\ j.addr \in Addrs \cup {NoAddr} /\ j.unread \in BOOLEAN
        /\ j.remove_addr \in Seq(Addrs \cup {NoAddr}) /\ j.add_addr \in Seq(Addrs \cup {NoAddr})

\* An entry of a list of routes; metric and flags: the field is a Uint32.
Entries == [dest: Dests \cup {"none"}, via: {"none", "if", "gw", "maskedgw"},
            metric: BOOLEAN, flags: BOOLEAN]
ASSUME RouteJobs ==
    \A j \in Jobs : j.fn = "assignRoute" =>
        /\ j.delIsArray \in BOOLEAN
        /\ j.add_route6 \in Seq(Entries) /\ j.del_route6 \in Seq(Entries)
        /\ j.msg_route6 \in Seq(Entries)
ASSUME FlagJobs ==
    \A j \in Jobs : j.fn \in {"initIfFlags", "setIfFlags", "unsetIfFlags"} => j.flags \subseteq Flags

VARIABLES
    \* the kernel
    kern,    \* the interface: its index (0: there is none), flags, MTU, MAC, addresses, routes
    born,    \* the last index given out
    others,  \* changes made by other processes so far
    \* the call
    calls,   \* calls made so far
    job,     \* its parameters
    prog,    \* the steps that are left
    err,     \* errev.hasErr()
    index,   \* ifr.ifr_ifindex, or 0 while have_index is false
    flags,   \* the flags read last
    down,    \* the MAC assignment has brought the interface down
    ret,     \* "none" while it runs, then "ok" or "error"
    \* history
    base,    \* the interface when the call began
    quiet,   \* no other process has changed it since
    upFails, \* bringing the interface up again failed
    hit      \* the numbers of the interfaces whose addresses the call has changed

callVars == <<job, prog, err, index, flags, down, ret>>
vars == <<kern, born, others, calls, job, prog, err, index, flags, down, ret, base, quiet, upFails, hit>>

Interface == [idx: Nat, flags: SUBSET Flags, mtu: {"old", "new"}, mac: {"old", "new"},
              addrs: SUBSET Addrs, routes: SUBSET Dests]

Do(op) == [op |-> op]
DoAddr(op, a) == [op |-> op, addr |-> a]

-----------------------------------------------------------------------------
(* The program of a call *)

\* A list of addresses: the index, which is looked up once, and the address; an
\* element that is not a string is passed over.
Each(op, as) ==
    [n \in 1..2 * Len(as) |->
        LET a == as[(n + 1) \div 2]
        IN IF a = NoAddr THEN Do("pass") ELSE IF n % 2 = 1 THEN Do("index") ELSE DoAddr(op, a)]

\* Variant: addresses are added before others are removed.
AddressStepsSwapped(j) ==
    (IF j.addr \in Short \cup {NoAddr} THEN <<>> ELSE Each("add", <<j.addr>>))
       \o Each("add", j.add_addr) \o Each("remove", j.remove_addr)

\* inet6.addr, if it has more than four characters; then inet6.remove_addr
\* before inet6.add_addr.
AddressSteps(j) ==
    (IF j.addr \in Short \cup {NoAddr} THEN <<>> ELSE Each("add", <<j.addr>>))
       \o Each("remove", j.remove_addr) \o Each("add", j.add_addr)

\* The MTU: the index only shows that the interface exists, and is forgotten.
MtuSteps(j) == IF j.mtu THEN <<Do("index"), Do("mtu"), Do("forget")>> ELSE <<>>

\* The MAC address is set with the interface down.
MacSteps(j) ==
    CASE j.mac = "none" -> <<>>
      [] j.mac = "bad" -> <<Do("fail")>>
      [] OTHER -> <<Do("getflags"), Do("down"), Do("mac"), Do("up")>>

MaskSteps(j) == IF j.mask THEN <<Do("index"), Do("mask")>> ELSE <<>>

\* Only these fields are looked at: what is documented besides (j.unread) is not.
AssignAddress(j) == MtuSteps(j) \o MacSteps(j) \o AddressSteps(j) \o MaskSteps(j)

\* process_route: an entry without dest, metric or a way to go is passed over, and
\* so is one without flags unless the route is to be deleted.
Complete(act, e) ==
    /\ e.dest # "none" /\ e.metric /\ e.via # "none"
    /\ act # "delroute" => e.flags
RouteSteps(act, es) ==
    [n \in 1..Len(es) |-> IF Complete(act, es[n])
                          THEN [op |-> act, dest |-> es[n].dest, via |-> es[n].via]
                          ELSE Do("pass")]

\* assignRoute: msg_route6 is only read when del_route6 is an array.
AssignRoute(j) == RouteSteps("addroute", j.add_route6) \o RouteSteps("delroute", j.del_route6)
                     \o (IF j.delIsArray THEN RouteSteps("msgroute", j.msg_route6) ELSE <<>>)

InitIfFlags(j) == <<Do("index"), [op |-> "setflags", set |-> j.flags, keep |-> {}]>>
SetIfFlags(j) == <<Do("index"), Do("getflags"), [op |-> "setflags", set |-> j.flags, keep |-> Flags]>>
UnsetIfFlags(j) == <<Do("index"), Do("getflags"),
                     [op |-> "setflags", set |-> {}, keep |-> Flags \ j.flags]>>

Program(j) ==
    CASE j.fn = "assignAddress" -> AssignAddress(j)
      [] j.fn = "assignRoute" -> AssignRoute(j)
      [] j.fn = "initIfFlags" -> InitIfFlags(j)
      [] j.fn = "setIfFlags" -> SetIfFlags(j)
      [] j.fn = "unsetIfFlags" -> UnsetIfFlags(j)

-----------------------------------------------------------------------------
Init ==
    /\ kern \in [idx: {0, 1}, flags: SUBSET Flags, mtu: {"old"}, mac: {"old"},
                 addrs: SUBSET Addrs, routes: SUBSET Dests]
    /\ kern.idx = 0 => kern.flags = {} /\ kern.addrs = {} /\ kern.routes = {}
    /\ born = 1 /\ others = 0 /\ calls = 0
    /\ job = NoJob /\ prog = <<>>
    /\ err = FALSE /\ index = 0 /\ flags = {} /\ down = FALSE /\ ret = "none"
    /\ base = kern /\ quiet = TRUE /\ upFails = FALSE /\ hit = {}

Begin(j) ==
    /\ calls < MaxCalls
    /\ job = NoJob \/ ret # "none"
    /\ calls' = calls + 1
    /\ job' = j
    /\ prog' = Program(j)
    /\ err' = FALSE /\ index' = 0 /\ flags' = {} /\ down' = FALSE /\ ret' = "none"
    /\ base' = kern /\ quiet' = TRUE /\ upFails' = FALSE /\ hit' = {}
    /\ UNCHANGED <<kern, born, others>>

Running == job # NoJob /\ ret = "none"
Step == Head(prog)
Ahead == prog' = Tail(prog)

\* Variant: the interface is not brought up after an error.
SkippedAll == err \/ Step.op = "pass" \/ (Step.op = "up" /\ ~down)

\* What is skipped after an error: everything but bringing the interface up.
Skipped == Step.op = "pass" \/ IF Step.op = "up" THEN ~down ELSE err

\* The system calls that need no permission of the kernel to make sense.
Possible ==
    /\ kern.idx # 0
    /\ Step.op \in {"add", "remove"} => index = kern.idx
    /\ Step.op = "add" => Step.addr \notin kern.addrs
    /\ Step.op = "remove" => Step.addr \in kern.addrs
    /\ Step.op = "addroute" => Step.dest \notin kern.routes /\ Step.via # "maskedgw"
    /\ Step.op = "delroute" => Step.dest \in kern.routes /\ Step.via # "maskedgw"
    /\ Step.op \notin {"fail", "mask"}

\* The interface after the system call.
Effect ==
    CASE Step.op = "mtu" -> [kern EXCEPT !.mtu = "new"]
      [] Step.op = "mac" -> [kern EXCEPT !.mac = "new"]
      [] Step.op = "down" -> [kern EXCEPT !.flags = flags \ {"UP"}]
      [] Step.op = "up" -> [kern EXCEPT !.flags = flags \cup {"UP"}]
      [] Step.op = "setflags" -> [kern EXCEPT !.flags = Step.set \cup (flags \cap Step.keep)]
      [] Step.op = "add" -> [kern EXCEPT !.addrs = @ \cup {Step.addr}]
      [] Step.op = "remove" -> [kern EXCEPT !.addrs = @ \ {Step.addr}]
      [] Step.op = "addroute" -> [kern EXCEPT !.routes = @ \cup {Step.dest}]
      [] Step.op = "delroute" -> [kern EXCEPT !.routes = @ \ {Step.dest}]
      [] OTHER -> kern

Skip ==
    /\ Running /\ prog # <<>> /\ Skipped
    /\ Ahead
    /\ UNCHANGED <<kern, born, others, calls, job, err, index, flags, down, ret, base, quiet, upFails, hit>>

\* Variant: the number is looked up before each address.
LookUpAlways ==
    /\ Running /\ prog # <<>> /\ ~Skipped /\ Step.op \in {"index", "forget"}
    /\ Ahead
    /\ index' = IF Step.op = "forget" THEN 0 ELSE kern.idx
    /\ err' = (Step.op = "index" /\ index' = 0)
    /\ UNCHANGED <<kern, born, others, calls, job, flags, down, ret, base, quiet, upFails, hit>>

\* get_index_if6 and friends: only when the index is not known.
LookUp ==
    /\ Running /\ prog # <<>> /\ ~Skipped /\ Step.op \in {"index", "forget"}
    /\ Ahead
    /\ index' = IF Step.op = "forget" THEN 0 ELSE IF index = 0 THEN kern.idx ELSE index
    /\ err' = (Step.op = "index" /\ index' = 0)
    /\ UNCHANGED <<kern, born, others, calls, job, flags, down, ret, base, quiet, upFails, hit>>

GetFlags ==
    /\ Running /\ prog # <<>> /\ ~Skipped /\ Step.op = "getflags"
    /\ Ahead
    /\ \/ /\ kern.idx # 0
          /\ flags' = kern.flags
          /\ UNCHANGED err
       \/ /\ kern.idx = 0 \/ "getflags" \in Refusals
          /\ err' = TRUE
          /\ UNCHANGED flags
    /\ UNCHANGED <<kern, born, others, calls, job, index, down, ret, base, quiet, upFails, hit>>

\* An interface that is down already is not brought down.
AlreadyDown ==
    /\ Running /\ prog # <<>> /\ ~Skipped /\ Step.op = "down" /\ "UP" \notin flags
    /\ Ahead
    /\ UNCHANGED <<kern, born, others, calls, job, err, index, flags, down, ret, base, quiet, upFails, hit>>

Changes ==
    /\ Running /\ prog # <<>> /\ ~Skipped
    /\ Step.op \notin {"index", "forget", "getflags"}
    /\ Step.op = "down" => "UP" \in flags

Succeeds ==
    /\ Changes /\ Possible
    /\ Ahead
    /\ kern' = Effect
    /\ down' = (down \/ Step.op = "down")
    /\ hit' = IF Step.op \in {"add", "remove"} THEN hit \cup {kern.idx} ELSE hit
    /\ UNCHANGED <<born, others, calls, job, err, index, flags, ret, base, quiet, upFails>>

Fails ==
    /\ Changes
    /\ ~Possible \/ Step.op \in Refusals
    /\ Ahead
    /\ err' = TRUE
    /\ upFails' = (upFails \/ Step.op = "up")
    /\ UNCHANGED <<kern, born, others, calls, job, index, flags, down, ret, base, quiet, hit>>

\* The callback, and the value returned.
Return ==
    /\ Running /\ prog = <<>>
    /\ ret' = IF err THEN "error" ELSE "ok"
    /\ UNCHANGED <<kern, born, others, calls, job, prog, err, index, flags, down, base, quiet, upFails, hit>>

\* Another process configures the interface, removes it or makes it anew.
Other(k) ==
    /\ others < MaxOther
    /\ others' = others + 1
    /\ kern' = k
    /\ quiet' = FALSE
    /\ UNCHANGED <<calls, job, prog, err, index, flags, down, ret, base, upFails, hit>>

OtherSetsFlags(fs) ==
    /\ kern.idx # 0 /\ fs # kern.flags
    /\ Other([kern EXCEPT !.flags = fs])
    /\ UNCHANGED born

OtherTogglesAddr(a) ==
    /\ kern.idx # 0
    /\ Other([kern EXCEPT !.addrs = IF a \in @ THEN @ \ {a} ELSE @ \cup {a}])
    /\ UNCHANGED born

OtherRemoves ==
    /\ kern.idx # 0
    /\ Other([kern EXCEPT !.idx = 0, !.flags = {}, !.addrs = {}, !.routes = {}])
    /\ UNCHANGED born

OtherCreates ==
    /\ kern.idx = 0
    /\ born' = born + 1
    /\ Other([kern EXCEPT !.idx = born + 1])

Next ==
    \/ \E j \in Jobs : Begin(j)
    \/ Skip \/ LookUp \/ GetFlags \/ AlreadyDown \/ Succeeds \/ Fails \/ Return
    \/ \E fs \in SUBSET Flags : OtherSetsFlags(fs)
    \/ \E a \in Addrs : OtherTogglesAddr(a)
    \/ OtherRemoves \/ OtherCreates

Spec == Init /\ [][Next]_vars

-----------------------------------------------------------------------------
(* Properties *)

\* What a call is asked to do to the interface k: the addresses to remove are
\* removed before those to add are added, and the flags are as before.
Asked(j, k) ==
    CASE j.fn = "assignAddress" ->
            [k EXCEPT !.mtu = IF j.mtu THEN "new" ELSE @,
                      !.mac = IF j.mac = "good" THEN "new" ELSE @,
                      !.addrs = ((@ \cup ({j.addr} \ {NoAddr})) \ ToSet(j.remove_addr))
                                   \cup ToSet(j.add_addr)]
      [] j.fn = "assignRoute" ->
            [k EXCEPT !.routes = (@ \cup {e.dest : e \in ToSet(j.add_route6)})
                                    \ {e.dest : e \in ToSet(j.del_route6)}]
      [] j.fn = "initIfFlags" -> [k EXCEPT !.flags = j.flags]
      [] j.fn = "setIfFlags" -> [k EXCEPT !.flags = @ \cup j.flags]
      [] j.fn = "unsetIfFlags" -> [k EXCEPT !.flags = @ \ j.flags]

\* The requests with a part that network.cc passes over and still reports success
\* (README, section 5): a documented field it does not read (inet4, addr_add,
\* addr_remove, null), a short inet6.addr, an address that is not a string, a route
\* without dest, without metric, without a way to go, or without flags.
PassedOver(j) ==
    \/ /\ j.fn = "assignAddress"
       /\ j.unread \/ j.addr \in Short \/ NoAddr \in ToSet(j.remove_addr) \cup ToSet(j.add_addr)
    \/ /\ j.fn = "assignRoute"
       /\ \/ \E e \in ToSet(j.add_route6) : ~e.flags
          \/ \E e \in ToSet(j.add_route6) \cup ToSet(j.del_route6) :
                e.dest = "none" \/ e.via = "none" \/ ~e.metric

\* A call that reports success, that no other process disturbed and of which no part
\* is passed over has done all it was asked to do and nothing else, whichever of its
\* ioctls fails (AssignAddress, AssignRoute, SetIfFlags).
SuccessIsComplete == ret = "ok" /\ quiet /\ ~PassedOver(job) => kern = Asked(job, base)

\* The addresses one call adds and removes are all those of one interface, although
\* another process may remove the interface and create it again, with another
\* number, between any two ioctls (have_index in AssignAddress).
OneInterface == \A m, n \in hit : m = n

\* An interface that was up is up when assignAddress returns, also when the MAC
\* address was refused; only a refused SIOCSIFFLAGS can leave it down.
StaysUp ==
    job # NoJob /\ job.fn = "assignAddress" /\ ret # "none" /\ quiet /\ ~upFails =>
       ("UP" \in base.flags => "UP" \in kern.flags)
=============================================================================
