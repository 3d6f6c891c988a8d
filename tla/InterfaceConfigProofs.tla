----------------------- MODULE InterfaceConfigProofs ------------------------
(***************************************************************************)
(* Proofs about InterfaceConfig, for any calls, any system calls that may  *)
(* fail and any number of changes by other processes.                      *)
(*                                                                         *)
(* StaysUp needs what is left of the program: as long as the interface is  *)
(* down, a step that brings it up is still to come (Recovers), and no step *)
(* but "down" takes the flag away (Restores).  SuccessIsComplete needs     *)
(* what is left as a whole: as long as a call has met no error, the steps  *)
(* that are left lead from the interface as it is to the interface that    *)
(* was understood (EndsAsAsked), which is the one asked for if no part of  *)
(* the request was passed over.  OneInterface needs that the number of the *)
(* interface is forgotten only before the first address (ForgetFirst).     *)
(* What a program does to a list is read off its positions (Added,         *)
(* Dropped): no induction over its length is needed.                       *)
(***************************************************************************)
EXTENDS InterfaceConfig, SequenceTheorems, TLAPS

-----------------------------------------------------------------------------
(* The interface is a record *)

Fields == {"idx", "flags", "mtu", "mac", "addrs", "routes"}

\* The interface is a record with these fields.
KernRecord == kern = [f \in Fields |-> kern[f]]

\* The interface has its fields at first.
LEMMA InitKern == Init => KernRecord
  <1> SUFFICES ASSUME Init PROVE KernRecord  OBVIOUS
  <1>1. kern \in [idx: {0, 1}, flags: SUBSET Flags, mtu: {"old"}, mac: {"old"},
                 addrs: SUBSET Addrs, routes: SUBSET Dests]  BY DEF Init
  <1> QED  BY <1>1 DEF KernRecord, Fields

\* Every system call, and every change by another process, replaces fields only.
LEMMA NextKern == KernRecord /\ [Next]_vars => KernRecord'
  <1> SUFFICES ASSUME KernRecord, [Next]_vars PROVE KernRecord'  OBVIOUS
  <1>1. ASSUME UNCHANGED kern PROVE KernRecord'  BY <1>1 DEF KernRecord
  <1>2. CASE Succeeds
    <2>1. kern' = Effect  BY <1>2 DEF Succeeds
    <2>2. Effect = [f \in Fields |-> Effect[f]]
      BY DEF KernRecord, Effect, Fields
    <2> QED  BY <2>1, <2>2 DEF KernRecord
  <1>3. ASSUME NEW fs \in SUBSET Flags, OtherSetsFlags(fs) PROVE KernRecord'
    BY <1>3 DEF OtherSetsFlags, Other, KernRecord, Fields
  <1>4. ASSUME NEW a \in Addrs, OtherTogglesAddr(a) PROVE KernRecord'
    BY <1>4 DEF OtherTogglesAddr, Other, KernRecord, Fields
  <1>5. CASE OtherRemoves  BY <1>5 DEF OtherRemoves, Other, KernRecord, Fields
  <1>6. CASE OtherCreates  BY <1>6 DEF OtherCreates, Other, KernRecord, Fields
  <1>7. CASE (\E j \in Jobs : Begin(j)) \/ Skip \/ LookUp \/ GetFlags \/ AlreadyDown \/ Fails
             \/ Return \/ UNCHANGED vars
    BY <1>1, <1>7 DEF Begin, Skip, LookUp, GetFlags, AlreadyDown, Fails, Return, vars
  <1> QED  BY <1>2, <1>3, <1>4, <1>5, <1>6, <1>7 DEF Next

-----------------------------------------------------------------------------
(* The program of assignAddress, and StaysUp *)

\* The steps of assignAddress.
AddressOps == {"pass", "index", "forget", "mtu", "fail", "getflags", "down", "mac", "up", "mask"}
AddrStep == [op: AddressOps] \cup [op: {"add", "remove"}, addr: Addrs]

\* A program that takes the flag away brings it back.
Restores(p) ==
    /\ p \in Seq(AddrStep)
    /\ \A n \in DOMAIN p : p[n].op = "down" => \E m \in DOMAIN p : n < m /\ p[m].op = "up"

\* Steps of assignAddress have the operations named.
LEMMA StepOps == \A s \in AddrStep : s.op \in AddressOps \cup {"add", "remove"}
  BY DEF AddrStep

\* Two programs that bring the flag back do so one after the other.
LEMMA RestoresConcat ==
    ASSUME NEW p, NEW q, Restores(p), Restores(q) PROVE Restores(p \o q)
  <1>1. p \in Seq(AddrStep) /\ q \in Seq(AddrStep)  BY DEF Restores
  <1> DEFINE r == p \o q
  <1>2. r \in Seq(AddrStep) /\ Len(r) = Len(p) + Len(q)  BY <1>1, ConcatProperties
  <1>3. \A i \in 1..Len(r) : r[i] = IF i <= Len(p) THEN p[i] ELSE q[i - Len(p)]
    BY <1>1, ConcatProperties
  <1>4. Len(p) \in Nat /\ Len(q) \in Nat /\ DOMAIN p = 1..Len(p) /\ DOMAIN q = 1..Len(q)
        /\ DOMAIN r = 1..Len(r)
    BY <1>1, <1>2, LenProperties
  <1> HIDE DEF r
  <1>5. ASSUME NEW n \in DOMAIN r, r[n].op = "down" PROVE \E m \in DOMAIN r : n < m /\ r[m].op = "up"
    <2>1. CASE n <= Len(p)
      <3>1. n \in DOMAIN p /\ p[n].op = "down"  BY <1>2, <1>3, <1>4, <1>5, <2>1
      <3>2. PICK m \in DOMAIN p : n < m /\ p[m].op = "up"  BY <3>1 DEF Restores
      <3>3. m \in DOMAIN r /\ r[m] = p[m]  BY <1>2, <1>3, <1>4, <3>2
      <3> QED  BY <3>2, <3>3
    <2>2. CASE ~(n <= Len(p))
      <3>1. n - Len(p) \in DOMAIN q /\ q[n - Len(p)].op = "down"  BY <1>2, <1>3, <1>4, <1>5, <2>2
      <3>2. PICK m \in DOMAIN q : n - Len(p) < m /\ q[m].op = "up"  BY <3>1 DEF Restores
      <3>3. m + Len(p) \in DOMAIN r /\ r[m + Len(p)] = q[m] /\ n < m + Len(p)
        BY <1>2, <1>3, <1>4, <3>2
      <3> QED  BY <3>2, <3>3
    <2> QED  BY <2>1, <2>2
  <1> QED  BY <1>2, <1>5 DEF Restores, r

\* Every position of a sequence of pairs is that of a pair.
LEMMA Halves ==
    \A k \in Nat : 2 * k \in Nat /\ \A n \in 1..2 * k : (n + 1) \div 2 \in 1..k
  OBVIOUS

\* Adding and removing addresses leaves the flag alone.
LEMMA EachRestores ==
    ASSUME NEW op \in {"add", "remove"}, NEW as \in Seq(Addrs \cup {NoAddr})
    PROVE  Restores(Each(op, as))
  <1> DEFINE e == Each(op, as)
  <1>1. Len(as) \in Nat /\ \A k \in 1..Len(as) : as[k] \in Addrs \cup {NoAddr}
    BY LenProperties, ElementOfSeq
  <1>2. \A n \in 1..2 * Len(as) : e[n] \in AddrStep /\ e[n].op # "down"
    <2> TAKE n \in 1..2 * Len(as)
    <2> DEFINE a == as[(n + 1) \div 2]
    <2>1. a \in Addrs \cup {NoAddr}  BY <1>1, Halves
    <2>2. e[n] = IF a = NoAddr THEN [op |-> "pass"]
                 ELSE IF n % 2 = 1 THEN [op |-> "index"] ELSE [op |-> op, addr |-> a]
      BY DEF Each, Do, DoAddr
    <2> HIDE DEF a, e
    <2>3. [op |-> "pass"] \in AddrStep /\ [op |-> "index"] \in AddrStep
      BY DEF AddrStep, AddressOps
    <2>4. \A b \in Addrs : [op |-> op, addr |-> b] \in AddrStep  BY DEF AddrStep
    <2>5. \A b \in Addrs : [op |-> op, addr |-> b].op # "down"  OBVIOUS
    <2> QED  BY <2>1, <2>2, <2>3, <2>4, <2>5
  <1>3. e \in [1..2 * Len(as) -> AddrStep]
    <2>1. e = [n \in 1..2 * Len(as) |-> e[n]]  BY DEF Each
    <2> HIDE DEF e
    <2> QED  BY <1>2, <2>1
  <1>4. e \in Seq(AddrStep) /\ DOMAIN e = 1..2 * Len(as)
    <2> DEFINE m == 2 * Len(as)
    <2>1. m \in Nat /\ e \in [1..m -> AddrStep]  BY <1>1, <1>3, Halves
    <2> HIDE DEF e, m
    <2>2. e \in Seq(AddrStep) /\ DOMAIN e = 1..m  BY ONLY <2>1, SeqDef
    <2> QED  BY <2>2 DEF m
  <1> HIDE DEF e
  <1>5. Restores(e)  BY <1>2, <1>4 DEF Restores
  <1> QED  BY <1>5 DEF e

\* assignAddress brings the interface up after it has brought it down.
LEMMA ProgramRestores ==
    ASSUME NEW j \in Jobs, j.fn = "assignAddress" PROVE Restores(Program(j))
  <1>1. Restores(<<>>)
    <2>1. <<>> \in Seq(AddrStep) /\ DOMAIN <<>> = {}  BY EmptySeq
    <2> QED  BY <2>1 DEF Restores
  <1>2. Restores(MtuSteps(j))
    <2>1. CASE ~j.mtu  BY <1>1, <2>1 DEF MtuSteps
    <2>2. CASE j.mtu
      <3> DEFINE s == <<Do("index"), Do("mtu"), Do("forget")>>
      <3>1. Do("index") \in AddrStep /\ Do("mtu") \in AddrStep /\ Do("forget") \in AddrStep
        BY DEF Do, AddrStep, AddressOps
      <3>2. s \in Seq(AddrStep) /\ DOMAIN s = 1..3  BY <3>1
      <3>3. \A n \in 1..3 : s[n].op # "down"  BY DEF Do
      <3> QED  BY <2>2, <3>2, <3>3 DEF MtuSteps, Restores
    <2> QED  BY <2>1, <2>2
  <1>3. Restores(MacSteps(j))
    <2>1. CASE j.mac = "none"  BY <1>1, <2>1 DEF MacSteps
    <2>2. CASE j.mac = "bad"
      <3>1. Do("fail") \in AddrStep /\ Do("fail").op # "down"  BY DEF Do, AddrStep, AddressOps
      <3>2. MacSteps(j) = <<Do("fail")>>  BY <2>2 DEF MacSteps
      <3> QED  BY <3>1, <3>2 DEF Restores
    <2>3. CASE j.mac \notin {"none", "bad"}
      <3> DEFINE s == <<Do("getflags"), Do("down"), Do("mac"), Do("up")>>
      <3>1. Do("getflags") \in AddrStep /\ Do("down") \in AddrStep /\ Do("mac") \in AddrStep
            /\ Do("up") \in AddrStep
        BY DEF Do, AddrStep, AddressOps
      <3>2. s \in Seq(AddrStep) /\ DOMAIN s = 1..4  BY <3>1
      <3>3. s[1].op # "down" /\ s[3].op # "down" /\ s[4].op = "up"  BY DEF Do
      <3>4. Restores(s)  BY <3>2, <3>3 DEF Restores
      <3> QED  BY <2>3, <3>4 DEF MacSteps
    <2> QED  BY <2>1, <2>2, <2>3
  <1>4. Restores(AddressSteps(j))
    <2>1. j.addr \in Addrs \cup {NoAddr} /\ j.remove_addr \in Seq(Addrs \cup {NoAddr})
          /\ j.add_addr \in Seq(Addrs \cup {NoAddr})
      BY AddressJobs
    <2>2. Restores(Each("remove", j.remove_addr)) /\ Restores(Each("add", j.add_addr))
      BY <2>1, EachRestores
    <2>3. Restores(IF j.addr \in Short \cup {NoAddr} THEN <<>> ELSE Each("add", <<j.addr>>))
      <3>1. CASE j.addr \in Short \cup {NoAddr}  BY <1>1, <3>1
      <3>2. CASE j.addr \notin Short \cup {NoAddr}
        <4>1. <<j.addr>> \in Seq(Addrs \cup {NoAddr})  BY <2>1
        <4> QED  BY <3>2, <4>1, EachRestores
      <3> QED  BY <3>1, <3>2
    <2> QED  BY <2>2, <2>3, RestoresConcat DEF AddressSteps
  <1>5. Restores(MaskSteps(j))
    <2>1. CASE ~j.mask  BY <1>1, <2>1 DEF MaskSteps
    <2>2. CASE j.mask
      <3> DEFINE s == <<Do("index"), Do("mask")>>
      <3>1. Do("index") \in AddrStep /\ Do("mask") \in AddrStep  BY DEF Do, AddrStep, AddressOps
      <3>2. s \in Seq(AddrStep) /\ DOMAIN s = 1..2  BY <3>1
      <3>3. \A n \in 1..2 : s[n].op # "down"  BY DEF Do
      <3> QED  BY <2>2, <3>2, <3>3 DEF MaskSteps, Restores
    <2> QED  BY <2>1, <2>2
  <1>6. Program(j) = AssignAddress(j)  BY DEF Program
  <1> QED  BY <1>2, <1>3, <1>4, <1>5, <1>6, RestoresConcat DEF AssignAddress

\* Somebody has not changed the interface since assignAddress began, and it was up.
Watched == job # NoJob /\ job.fn = "assignAddress" /\ quiet /\ ~upFails /\ "UP" \in base.flags

\* While assignAddress has the interface down, it is going to bring it up.
Recovers ==
    Watched => \/ "UP" \in kern.flags
               \/ down /\ ret = "none" /\ \E m \in DOMAIN prog : prog[m].op = "up"

UpInv ==
    /\ KernRecord
    /\ job # NoJob /\ job.fn = "assignAddress" => Restores(prog)
    /\ Recovers

\* What is left of a program after its first step still brings the flag back, and
\* has the steps that the first one was not.
LEMMA RestTail ==
    ASSUME Restores(prog), prog # <<>>
    PROVE  /\ Restores(Tail(prog))
           /\ Step.op \in AddressOps \cup {"add", "remove"}
           /\ Step.op = "down" => \E m \in DOMAIN Tail(prog) : Tail(prog)[m].op = "up"
           /\ Step.op # "up" /\ (\E m \in DOMAIN prog : prog[m].op = "up")
                 => \E m \in DOMAIN Tail(prog) : Tail(prog)[m].op = "up"
  <1> DEFINE t == Tail(prog)
  <1>1. prog \in Seq(AddrStep)  BY DEF Restores
  <1>2. Head(prog) \in AddrStep /\ t \in Seq(AddrStep) /\ Len(t) = Len(prog) - 1
        /\ \A i \in 1..Len(t) : t[i] = prog[i + 1]
    BY <1>1, HeadTailProperties
  <1>3. Len(prog) \in Nat /\ DOMAIN prog = 1..Len(prog) /\ Len(t) \in Nat /\ DOMAIN t = 1..Len(t)
    BY <1>1, <1>2, LenProperties
  <1>4. Head(prog) = prog[1]  BY <1>1
  <1> HIDE DEF t
  <1>5. \A m \in DOMAIN prog : m > 1 => m - 1 \in DOMAIN t /\ t[m - 1] = prog[m]
    BY <1>2, <1>3
  <1>6. ASSUME NEW n \in DOMAIN t, t[n].op = "down" PROVE \E m \in DOMAIN t : n < m /\ t[m].op = "up"
    <2>1. n + 1 \in DOMAIN prog /\ prog[n + 1].op = "down"  BY <1>2, <1>3, <1>6
    <2>2. PICK m \in DOMAIN prog : n + 1 < m /\ prog[m].op = "up"  BY <2>1 DEF Restores
    <2>3. m > 1 /\ n < m - 1  BY <1>3, <2>1, <2>2
    <2> QED  BY <1>5, <2>2, <2>3
  <1>7. Restores(t)  BY <1>2, <1>6 DEF Restores
  <1>8. Step.op \in AddressOps \cup {"add", "remove"}  BY <1>2, StepOps DEF Step
  <1>9. 1 \in DOMAIN prog  BY <1>2, <1>3
  <1>10. ASSUME Step.op = "down" PROVE \E m \in DOMAIN t : t[m].op = "up"
    <2>1. PICK m \in DOMAIN prog : 1 < m /\ prog[m].op = "up"  BY <1>4, <1>9, <1>10 DEF Restores, Step
    <2> QED  BY <1>3, <1>5, <2>1
  <1>11. ASSUME Step.op # "up", NEW m \in DOMAIN prog, prog[m].op = "up"
         PROVE  \E k \in DOMAIN t : t[k].op = "up"
    <2>1. m # 1  BY <1>4, <1>11 DEF Step
    <2>2. m > 1  BY <1>3, <2>1
    <2> QED  BY <1>5, <1>11, <2>2
  <1> QED  BY <1>7, <1>8, <1>10, <1>11 DEF t

\* No call has been made at first.
LEMMA InitUp == Init => UpInv
  BY InitKern DEF Init, UpInv, Recovers, Watched

\* A call keeps its promise to bring the interface up until it has done so.
LEMMA NextUp == UpInv /\ [Next]_vars => UpInv'
  <1> SUFFICES ASSUME UpInv, [Next]_vars PROVE UpInv'  OBVIOUS
  <1>1. KernRecord'  BY NextKern DEF UpInv
  <1>2. ASSUME NEW j \in Jobs, Begin(j) PROVE UpInv'
    <2>1. job' = j /\ prog' = Program(j) /\ base' = kern /\ kern' = kern  BY <1>2 DEF Begin
    <2>2. j.fn = "assignAddress" => Restores(prog')  BY <2>1, ProgramRestores
    <2>3. Recovers'  BY <2>1 DEF Recovers, Watched
    <2> QED  BY <1>1, <2>1, <2>2, <2>3 DEF UpInv
  <1>3. ASSUME Running, prog # <<>>, Ahead, UNCHANGED <<job, ret, base, quiet>>,
               upFails => upFails', down => down',
               \/ UNCHANGED kern /\ (Step.op = "up" => ~down \/ upFails')
               \/ Succeeds
        PROVE  UpInv'
    <2>1. CASE ~(job.fn = "assignAddress")  BY <1>1, <1>3, <2>1 DEF UpInv, Recovers, Watched
    <2> SUFFICES ASSUME job.fn = "assignAddress" PROVE UpInv'  BY <2>1
    <2>2. Restores(prog) /\ job # NoJob /\ ret = "none"  BY <1>3 DEF UpInv, Running
    <2>3. Restores(prog')  BY <1>3, <2>2, RestTail DEF Ahead
    <2>4. ASSUME Watched'
          PROVE  \/ "UP" \in kern'.flags
                 \/ down' /\ ret' = "none" /\ \E m \in DOMAIN prog' : prog'[m].op = "up"
      <3>1. Watched /\ ~upFails'  BY <1>3, <2>4 DEF Watched
      <3>2. CASE UNCHANGED kern /\ (Step.op = "up" => ~down \/ upFails')
        <4>1. CASE "UP" \in kern.flags  BY <3>2, <4>1
        <4>2. CASE ~("UP" \in kern.flags)
          <5>1. down /\ \E m \in DOMAIN prog : prog[m].op = "up"
            BY <3>1, <4>2 DEF UpInv, Recovers
          <5>2. Step.op # "up"  BY <3>1, <3>2, <5>1
          <5> QED  BY <1>3, <2>2, <5>1, <5>2, RestTail DEF Ahead
        <4> QED  BY <4>1, <4>2
      <3>3. CASE Succeeds
        <4>1. kern' = Effect /\ (down' = (down \/ Step.op = "down"))  BY <3>3 DEF Succeeds
        <4>2. CASE Step.op = "up"
          <5>1. kern' = [kern EXCEPT !.flags = flags \cup {"UP"}]  BY <4>1, <4>2 DEF Effect
          <5> QED  BY <5>1 DEF UpInv, KernRecord, Fields
        <4>3. CASE Step.op = "down"
          BY <1>3, <2>2, <4>1, <4>3, RestTail DEF Ahead
        <4>4. CASE Step.op \notin {"up", "down"}
          <5>1. Step.op # "setflags"  BY <1>3, <2>2, RestTail DEF AddressOps
          <5>2. kern'.flags = kern.flags
            BY <4>1, <4>4, <5>1 DEF Effect, UpInv, KernRecord, Fields
          <5>3. CASE "UP" \in kern.flags  BY <5>2, <5>3
          <5>4. CASE ~("UP" \in kern.flags)
            <6>1. down /\ \E m \in DOMAIN prog : prog[m].op = "up"
              BY <3>1, <5>4 DEF UpInv, Recovers
            <6> QED  BY <1>3, <2>2, <4>4, <6>1, RestTail DEF Ahead
          <5> QED  BY <5>3, <5>4
        <4> QED  BY <4>2, <4>3, <4>4
      <3> QED  BY <1>3, <3>2, <3>3
    <2> QED  BY <1>1, <2>3, <2>4 DEF UpInv, Recovers
  <1>4. CASE Skip  BY <1>3, <1>4 DEF Skip, Skipped
  <1>5. CASE LookUp  BY <1>3, <1>5 DEF LookUp
  <1>6. CASE GetFlags  BY <1>3, <1>6 DEF GetFlags
  <1>7. CASE AlreadyDown  BY <1>3, <1>7 DEF AlreadyDown
  <1>8. CASE Succeeds  BY <1>3, <1>8 DEF Succeeds, Changes
  <1>9. CASE Fails  BY <1>3, <1>9 DEF Fails, Changes
  <1>10. CASE Return
    <2>1. UNCHANGED <<kern, job, prog, down, base, quiet, upFails>> /\ prog = <<>>
      BY <1>10 DEF Return
    <2>2. DOMAIN prog = {}  BY <2>1
    <2>3. Recovers'  BY <2>1, <2>2 DEF UpInv, Recovers, Watched
    <2> QED  BY <1>1, <2>1, <2>3 DEF UpInv
  <1>11. ASSUME UNCHANGED <<job, prog>>, quiet' = FALSE PROVE UpInv'
    BY <1>1, <1>11 DEF UpInv, Recovers, Watched
  <1>12. ASSUME NEW fs \in SUBSET Flags, OtherSetsFlags(fs) PROVE UpInv'
    BY <1>11, <1>12 DEF OtherSetsFlags, Other
  <1>13. ASSUME NEW a \in Addrs, OtherTogglesAddr(a) PROVE UpInv'
    BY <1>11, <1>13 DEF OtherTogglesAddr, Other
  <1>14. CASE OtherRemoves  BY <1>11, <1>14 DEF OtherRemoves, Other
  <1>15. CASE OtherCreates  BY <1>11, <1>15 DEF OtherCreates, Other
  <1>16. CASE UNCHANGED vars  BY <1>1, <1>16 DEF UpInv, Recovers, Watched, vars
  <1> QED  BY <1>2, <1>4, <1>5, <1>6, <1>7, <1>8, <1>9, <1>10, <1>12, <1>13, <1>14, <1>15, <1>16
            DEF Next

\* assignAddress leaves an interface up that was up, whatever fails but the
\* SIOCSIFFLAGS that brings it up again.
THEOREM StaysUpAlways == Spec => []StaysUp
  <1>1. UpInv => StaysUp
    <2> SUFFICES ASSUME UpInv, job # NoJob, job.fn = "assignAddress", ret # "none", quiet, ~upFails,
                        "UP" \in base.flags
                 PROVE  "UP" \in kern.flags
      BY DEF StaysUp
    <2> QED  BY DEF UpInv, Recovers, Watched
  <1> QED  BY <1>1, InitUp, NextUp, PTL DEF Spec

-----------------------------------------------------------------------------
(* What is left of a program, and SuccessIsComplete *)

\* The steps of assignRoute and of the calls that set flags.
RouteStep ==
    [op: {"pass"}] \cup [op: {"addroute", "delroute", "msgroute"}, dest: Dests \cup {"none"},
                         via: {"none", "if", "gw", "maskedgw"}]
FlagStep == [op: {"setflags"}, set: SUBSET Flags, keep: SUBSET Flags]
AnyStep == AddrStep \cup RouteStep \cup FlagStep

\* What a step puts into a list of the interface, and what it takes away.
Lists == {"addrs", "routes"}
Put(f, s) ==
    IF f = "addrs" /\ s.op = "add" THEN {s.addr}
    ELSE IF f = "routes" /\ s.op = "addroute" THEN {s.dest} ELSE {}
Drop(f, s) ==
    IF f = "addrs" /\ s.op = "remove" THEN {s.addr}
    ELSE IF f = "routes" /\ s.op = "delroute" THEN {s.dest} ELSE {}

\* A program has a step op; puts x and does not take it away later; takes x away.
Left(op, p) == \E n \in DOMAIN p : p[n].op = op
Added(f, x, p) ==
    \E n \in DOMAIN p : x \in Put(f, p[n]) /\ \A m \in DOMAIN p : n < m => x \notin Drop(f, p[m])
Dropped(f, x, p) == \E m \in DOMAIN p : x \in Drop(f, p[m])

\* The steps that handle flags come in order, each at most once.
MacOps == {"getflags", "down", "up"}
MacOrder(p) ==
    /\ \A m, n \in DOMAIN p : p[m].op \in MacOps /\ p[m].op = p[n].op => m = n
    /\ \A m, n \in DOMAIN p : p[m].op = "getflags" /\ p[n].op = "down" => m < n
    /\ \A m, n \in DOMAIN p : p[m].op = "down" /\ p[n].op = "up" => m < n
    /\ Left("getflags", p) => Left("down", p)
    /\ Left("down", p) => Left("up", p)
    /\ ~Left("setflags", p)

\* Two programs in a row, by position.
LEMMA InARow ==
    ASSUME NEW S, NEW p \in Seq(S), NEW q \in Seq(S)
    PROVE  /\ p \o q \in Seq(S) /\ Len(p) \in Nat /\ Len(q) \in Nat
           /\ DOMAIN p = 1..Len(p) /\ DOMAIN q = 1..Len(q)
           /\ DOMAIN (p \o q) = 1..(Len(p) + Len(q))
           /\ \A i \in DOMAIN p : i \in DOMAIN (p \o q) /\ (p \o q)[i] = p[i]
           /\ \A i \in DOMAIN q : Len(p) + i \in DOMAIN (p \o q) /\ (p \o q)[Len(p) + i] = q[i]
           /\ \A i \in DOMAIN (p \o q) :
                 \/ i \in DOMAIN p
                 \/ i > Len(p) /\ i - Len(p) \in DOMAIN q /\ i = Len(p) + (i - Len(p))
  <1> DEFINE r == p \o q
  <1>1. r \in Seq(S) /\ Len(r) = Len(p) + Len(q)
        /\ \A i \in 1..(Len(p) + Len(q)) : r[i] = IF i <= Len(p) THEN p[i] ELSE q[i - Len(p)]
    BY ConcatProperties
  <1> HIDE DEF r
  <1>2. Len(p) \in Nat /\ Len(q) \in Nat /\ DOMAIN p = 1..Len(p) /\ DOMAIN q = 1..Len(q)
        /\ DOMAIN r = 1..(Len(p) + Len(q))
    BY <1>1, LenProperties
  <1>3. \A i \in DOMAIN p : i \in DOMAIN r /\ r[i] = p[i]  BY <1>1, <1>2
  <1>4. ASSUME NEW i \in DOMAIN q PROVE Len(p) + i \in DOMAIN r /\ r[Len(p) + i] = q[i]
    <2>1. Len(p) + i \in 1..(Len(p) + Len(q)) /\ ~(Len(p) + i <= Len(p)) /\ (Len(p) + i) - Len(p) = i
      BY <1>2
    <2> QED  BY <1>1, <1>2, <2>1
  <1>5. \A i \in DOMAIN r : \/ i \in DOMAIN p
                            \/ i > Len(p) /\ i - Len(p) \in DOMAIN q /\ i = Len(p) + (i - Len(p))
    BY <1>2
  <1> QED  BY <1>1, <1>2, <1>3, <1>4, <1>5 DEF r

\* What two programs in a row do.
LEMMA RowEffect ==
    ASSUME NEW S, NEW p \in Seq(S), NEW q \in Seq(S)
    PROVE  /\ \A op : Left(op, p \o q) <=> Left(op, p) \/ Left(op, q)
           /\ \A f, x : Dropped(f, x, p \o q) <=> Dropped(f, x, p) \/ Dropped(f, x, q)
           /\ \A f, x : Added(f, x, p \o q) <=>
                           Added(f, x, q) \/ (Added(f, x, p) /\ ~Dropped(f, x, q))
  <1> DEFINE r == p \o q
  <1>1. /\ Len(p) \in Nat /\ Len(q) \in Nat /\ DOMAIN p = 1..Len(p) /\ DOMAIN q = 1..Len(q)
        /\ DOMAIN r = 1..(Len(p) + Len(q))
        /\ \A i \in DOMAIN p : i \in DOMAIN r /\ r[i] = p[i]
        /\ \A i \in DOMAIN q : Len(p) + i \in DOMAIN r /\ r[Len(p) + i] = q[i]
        /\ \A i \in DOMAIN r :
              i \in DOMAIN p \/ (i > Len(p) /\ i - Len(p) \in DOMAIN q /\ i = Len(p) + (i - Len(p)))
    BY InARow
  <1> HIDE DEF r
  <1>2. \A i \in DOMAIN r : i \in DOMAIN p \/ \E k \in DOMAIN q : i = Len(p) + k  BY <1>1
  <1>3. ASSUME NEW op PROVE Left(op, r) <=> Left(op, p) \/ Left(op, q)
    <2>1. Left(op, p) \/ Left(op, q) => Left(op, r)  BY <1>1 DEF Left
    <2>2. Left(op, r) => Left(op, p) \/ Left(op, q)
      BY <1>1, <1>2 DEF Left
    <2> QED  BY <2>1, <2>2
  <1>4. ASSUME NEW f, NEW x PROVE Dropped(f, x, r) <=> Dropped(f, x, p) \/ Dropped(f, x, q)
    <2>1. Dropped(f, x, p) \/ Dropped(f, x, q) => Dropped(f, x, r)  BY <1>1 DEF Dropped
    <2>2. Dropped(f, x, r) => Dropped(f, x, p) \/ Dropped(f, x, q)  BY <1>1, <1>2 DEF Dropped
    <2> QED  BY <2>1, <2>2
  <1>5. ASSUME NEW f, NEW x
        PROVE  Added(f, x, r) <=> Added(f, x, q) \/ (Added(f, x, p) /\ ~Dropped(f, x, q))
    <2>1. ASSUME Added(f, x, q) PROVE Added(f, x, r)
      <3>1. PICK n \in DOMAIN q : x \in Put(f, q[n]) /\ \A m \in DOMAIN q : n < m => x \notin Drop(f, q[m])
        BY <2>1 DEF Added
      <3>2. ASSUME NEW m \in DOMAIN r, Len(p) + n < m PROVE x \notin Drop(f, r[m])
        <4>1. PICK k \in DOMAIN q : m = Len(p) + k  BY <1>1, <1>2, <3>2
        <4>2. n < k  BY <1>1, <3>2, <4>1
        <4> QED  BY <1>1, <3>1, <4>1, <4>2
      <3>3. Len(p) + n \in DOMAIN r /\ x \in Put(f, r[Len(p) + n])  BY <1>1, <3>1
      <3> QED  BY <3>2, <3>3 DEF Added
    <2>2. ASSUME Added(f, x, p), ~Dropped(f, x, q) PROVE Added(f, x, r)
      <3>1. PICK n \in DOMAIN p : x \in Put(f, p[n]) /\ \A m \in DOMAIN p : n < m => x \notin Drop(f, p[m])
        BY <2>2 DEF Added
      <3>2. ASSUME NEW m \in DOMAIN r, n < m PROVE x \notin Drop(f, r[m])
        <4>1. CASE m \in DOMAIN p  BY <1>1, <3>1, <3>2, <4>1
        <4>2. ASSUME NEW k \in DOMAIN q, m = Len(p) + k PROVE x \notin Drop(f, r[m])
          BY <1>1, <2>2, <4>2 DEF Dropped
        <4> QED  BY <1>2, <4>1, <4>2
      <3>3. n \in DOMAIN r /\ x \in Put(f, r[n])  BY <1>1, <3>1
      <3> QED  BY <3>2, <3>3 DEF Added
    <2>3. ASSUME Added(f, x, r) PROVE Added(f, x, q) \/ (Added(f, x, p) /\ ~Dropped(f, x, q))
      <3>1. PICK n \in DOMAIN r : x \in Put(f, r[n]) /\ \A m \in DOMAIN r : n < m => x \notin Drop(f, r[m])
        BY <2>3 DEF Added
      <3>2. CASE n \in DOMAIN p
        <4>1. x \in Put(f, p[n])  BY <1>1, <3>1, <3>2
        <4>2. \A m \in DOMAIN p : n < m => x \notin Drop(f, p[m])  BY <1>1, <3>1
        <4>3. ASSUME NEW k \in DOMAIN q PROVE x \notin Drop(f, q[k])
          <5>1. Len(p) + k \in DOMAIN r /\ n < Len(p) + k /\ r[Len(p) + k] = q[k]  BY <1>1, <3>2
          <5> QED  BY <3>1, <5>1
        <4> QED  BY <3>2, <4>1, <4>2, <4>3 DEF Added, Dropped
      <3>3. ASSUME NEW k \in DOMAIN q, n = Len(p) + k PROVE Added(f, x, q)
        <4>1. x \in Put(f, q[k])  BY <1>1, <3>1, <3>3
        <4>2. ASSUME NEW m \in DOMAIN q, k < m PROVE x \notin Drop(f, q[m])
          <5>1. Len(p) + m \in DOMAIN r /\ n < Len(p) + m /\ r[Len(p) + m] = q[m]  BY <1>1, <3>3, <4>2
          <5> QED  BY <3>1, <5>1
        <4> QED  BY <4>1, <4>2 DEF Added
      <3> QED  BY <1>2, <3>2, <3>3
    <2> QED  BY <2>1, <2>2, <2>3
  <1> QED  BY <1>3, <1>4, <1>5 DEF r

\* The order of the steps that handle flags is that of the one part that has some.
LEMMA RowOrder ==
    ASSUME NEW S, NEW p \in Seq(S), NEW q \in Seq(S),
           \/ MacOrder(p) /\ \A n \in DOMAIN q : q[n].op \notin MacOps \cup {"setflags"}
           \/ MacOrder(q) /\ \A n \in DOMAIN p : p[n].op \notin MacOps \cup {"setflags"}
    PROVE  MacOrder(p \o q)
  <1> DEFINE r == p \o q
  <1>1. /\ Len(p) \in Nat /\ Len(q) \in Nat /\ DOMAIN p = 1..Len(p) /\ DOMAIN q = 1..Len(q)
        /\ DOMAIN r = 1..(Len(p) + Len(q))
        /\ \A i \in DOMAIN p : i \in DOMAIN r /\ r[i] = p[i]
        /\ \A i \in DOMAIN q : Len(p) + i \in DOMAIN r /\ r[Len(p) + i] = q[i]
        /\ \A i \in DOMAIN r :
              i \in DOMAIN p \/ (i > Len(p) /\ i - Len(p) \in DOMAIN q /\ i = Len(p) + (i - Len(p)))
    BY ONLY InARow, p \in Seq(S), q \in Seq(S)
  <1>2. \A op : Left(op, r) <=> Left(op, p) \/ Left(op, q)  BY RowEffect
  <1> HIDE DEF r
  <1>3. \A i \in DOMAIN r : i \in DOMAIN p \/ \E k \in DOMAIN q : i = Len(p) + k  BY <1>1
  <1>4. CASE MacOrder(p) /\ \A n \in DOMAIN q : q[n].op \notin MacOps \cup {"setflags"}
    <2>1. \A i \in DOMAIN r : r[i].op \in MacOps => i \in DOMAIN p /\ r[i] = p[i]  BY <1>1, <1>3, <1>4
    <2>2. \A op \in MacOps \cup {"setflags"} : ~Left(op, q)  BY <1>4 DEF Left
    <2>3. MacOrder(r)  BY <1>2, <1>4, <2>1, <2>2 DEF MacOrder, MacOps
    <2> QED  BY <2>3 DEF r
  <1>5. CASE MacOrder(q) /\ \A n \in DOMAIN p : p[n].op \notin MacOps \cup {"setflags"}
    <2>1. \A i \in DOMAIN r : r[i].op \in MacOps => \E k \in DOMAIN q : i = Len(p) + k /\ r[i] = q[k]
      BY <1>1, <1>3, <1>5
    <2>2. \A op \in MacOps \cup {"setflags"} : ~Left(op, p)  BY <1>5 DEF Left
    <2>3. \A k, l \in DOMAIN q : (k < l <=> Len(p) + k < Len(p) + l) /\ k \in Nat /\ l \in Nat  BY <1>1
    <2>4. \A m, n \in DOMAIN r : r[m].op \in MacOps /\ r[m].op = r[n].op => m = n
      BY <1>5, <2>1 DEF MacOrder
    <2>5. \A m, n \in DOMAIN r : r[m].op = "getflags" /\ r[n].op = "down" => m < n
      BY <1>5, <2>1, <2>3 DEF MacOrder, MacOps
    <2>6. \A m, n \in DOMAIN r : r[m].op = "down" /\ r[n].op = "up" => m < n
      BY <1>5, <2>1, <2>3 DEF MacOrder, MacOps
    <2>7. MacOrder(r)  BY <1>2, <1>5, <2>2, <2>4, <2>5, <2>6 DEF MacOrder, MacOps
    <2> QED  BY <2>7 DEF r
  <1> QED  BY <1>4, <1>5

ListOps == {"add", "remove", "addroute", "delroute"}

\* Steps with other operations leave the lists alone.
LEMMA PlainEffect ==
    ASSUME NEW p, \A n \in DOMAIN p : p[n].op \notin ListOps
    PROVE  \A f, x : ~Added(f, x, p) /\ ~Dropped(f, x, p)
  BY DEF Added, Dropped, Put, Drop, ListOps

\* The second step of a pair.
LEMMA Doubles ==
    \A k \in Nat : \A i \in 1..k : 2 * i \in 1..2 * k /\ (2 * i) % 2 # 1 /\ (2 * i + 1) \div 2 = i
  OBVIOUS

\* The elements of a list of addresses that are strings.
Strings(as) == ToSet(as) \ {NoAddr}

\* Adding and removing addresses one after the other.
LEMMA EachEffect ==
    ASSUME NEW op \in {"add", "remove"}, NEW as \in Seq(Addrs \cup {NoAddr})
    PROVE  /\ Each(op, as) \in Seq(AnyStep)
           /\ \A n \in DOMAIN Each(op, as) : Each(op, as)[n].op \in {"pass", "index", op}
           /\ \A x : ~Added("routes", x, Each(op, as)) /\ ~Dropped("routes", x, Each(op, as))
           /\ \A x : Added("addrs", x, Each(op, as)) <=> op = "add" /\ x \in Strings(as)
           /\ \A x : Dropped("addrs", x, Each(op, as)) <=> op = "remove" /\ x \in Strings(as)
  <1> DEFINE e == Each(op, as)
  <1>1. e \in Seq(AddrStep)  BY EachRestores DEF Restores
  <1>2. e \in Seq(AnyStep)
    <2>1. \A n \in 1..Len(e) : e[n] \in AnyStep  BY <1>1, ElementOfSeq DEF AnyStep
    <2>2. e \in [1..Len(e) -> AnyStep] /\ Len(e) \in Nat  BY <1>1, <2>1, LenProperties
    <2> HIDE DEF e
    <2> QED  BY <2>2, SeqDef
  <1>3. Len(as) \in Nat /\ DOMAIN as = 1..Len(as) /\ DOMAIN e = 1..2 * Len(as)
    BY LenProperties DEF Each
  <1>4. \A n \in DOMAIN e :
           e[n] = IF as[(n + 1) \div 2] = NoAddr THEN [op |-> "pass"]
                  ELSE IF n % 2 = 1 THEN [op |-> "index"] ELSE [op |-> op, addr |-> as[(n + 1) \div 2]]
    BY DEF Each, Do, DoAddr
  <1>5. \A n \in DOMAIN e : (n + 1) \div 2 \in DOMAIN as  BY <1>3, Halves
  <1>6. ASSUME NEW i \in DOMAIN as, as[i] # NoAddr
        PROVE  2 * i \in DOMAIN e /\ e[2 * i].op = op /\ e[2 * i].addr = as[i]
    <2>1. 2 * i \in 1..2 * Len(as) /\ (2 * i) % 2 # 1 /\ (2 * i + 1) \div 2 = i  BY <1>3, Doubles
    <2> DEFINE m == 2 * i
               y == as[i]
    <2>2. m \in DOMAIN e /\ e[m] = [op |-> op, addr |-> y]  BY <1>3, <1>4, <1>6, <2>1
    <2> HIDE DEF e, m, y
    <2>3. m \in DOMAIN e /\ e[m].op = op /\ e[m].addr = y  BY ONLY <2>2
    <2> QED  BY <2>3 DEF m, y
  <1> HIDE DEF e
  <1>7. \A n \in DOMAIN e :
           e[n].op \in {"pass", "index"} \/ (e[n].op = op /\ e[n].addr \in Strings(as))
    <2> TAKE n \in DOMAIN e
    <2> DEFINE y == as[(n + 1) \div 2]
    <2>1. y = NoAddr \/ y \in Strings(as)  BY <1>5 DEF ToSet, Strings
    <2>2. e[n] = IF y = NoAddr THEN [op |-> "pass"]
                 ELSE IF n % 2 = 1 THEN [op |-> "index"] ELSE [op |-> op, addr |-> y]
      BY <1>4
    <2> DEFINE z == e[n]
    <2>3. z = [op |-> "pass"] \/ z = [op |-> "index"] \/ (z = [op |-> op, addr |-> y] /\ y \in Strings(as))
      BY <2>1, <2>2
    <2> HIDE DEF y, z
    <2>4. z.op \in {"pass", "index"} \/ (z.op = op /\ z.addr \in Strings(as))
      <3>1. CASE z = [op |-> "pass"]  BY ONLY <3>1
      <3>2. CASE z = [op |-> "index"]  BY ONLY <3>2
      <3>3. CASE z = [op |-> op, addr |-> y] /\ y \in Strings(as)
        <4>1. z.op = op /\ z.addr = y  BY ONLY <3>3
        <4> QED  BY <3>3, <4>1
      <3> QED  BY <2>3, <3>1, <3>2, <3>3
    <2> QED  BY <2>4 DEF z
  <1>8. \A f, x : \A n \in DOMAIN e : x \in Put(f, e[n]) => op = "add" /\ f = "addrs" /\ x \in Strings(as)
    BY <1>7 DEF Put
  <1>9. \A f, x : \A n \in DOMAIN e : x \in Drop(f, e[n]) => op = "remove" /\ f = "addrs" /\ x \in Strings(as)
    BY <1>7 DEF Drop
  <1>10. ASSUME NEW x \in Strings(as)
         PROVE  /\ op = "add" => \E n \in DOMAIN e : x \in Put("addrs", e[n])
                /\ op = "remove" => \E n \in DOMAIN e : x \in Drop("addrs", e[n])
    <2>1. PICK i \in DOMAIN as : x = as[i] /\ as[i] # NoAddr  BY DEF ToSet, Strings
    <2>2. 2 * i \in DOMAIN e /\ e[2 * i].op = op /\ e[2 * i].addr = x  BY <1>6, <2>1
    <2>3. (op = "add" => x \in Put("addrs", e[2 * i])) /\ (op = "remove" => x \in Drop("addrs", e[2 * i]))
      BY <2>2 DEF Put, Drop
    <2> QED  BY <2>2, <2>3
  <1>11. \A x : /\ Added("addrs", x, e) <=> op = "add" /\ x \in Strings(as)
                /\ Dropped("addrs", x, e) <=> op = "remove" /\ x \in Strings(as)
                /\ ~Added("routes", x, e) /\ ~Dropped("routes", x, e)
    <2> TAKE x
    <2>1. ~Added("routes", x, e) /\ ~Dropped("routes", x, e)
      <3>1. \A n \in DOMAIN e : e[n].op # "addroute" /\ e[n].op # "delroute"  BY <1>7
      <3>2. \A n \in DOMAIN e : Put("routes", e[n]) = {} /\ Drop("routes", e[n]) = {}
        BY <3>1 DEF Put, Drop
      <3> QED  BY <3>2 DEF Added, Dropped
    <2>2. Dropped("addrs", x, e) <=> op = "remove" /\ x \in Strings(as)  BY <1>9, <1>10 DEF Dropped
    <2>3. Added("addrs", x, e) => op = "add" /\ x \in Strings(as)  BY <1>8 DEF Added
    <2>4. ASSUME op = "add", x \in Strings(as) PROVE Added("addrs", x, e)
      <3>1. PICK n \in DOMAIN e : x \in Put("addrs", e[n])  BY <1>10, <2>4
      <3>2. \A m \in DOMAIN e : x \notin Drop("addrs", e[m])  BY <1>9, <2>4
      <3> QED  BY <3>1, <3>2 DEF Added
    <2> QED  BY <2>1, <2>2, <2>3, <2>4
  <1> QED  BY <1>2, <1>7, <1>11 DEF e

\* The destinations of the entries that are complete.
DestsOf(act, es) == {e.dest : e \in {x \in ToSet(es) : Complete(act, x)}}

\* Adding and deleting routes one after the other.
LEMMA RouteEffect ==
    ASSUME NEW act \in {"addroute", "delroute", "msgroute"}, NEW es \in Seq(Entries)
    PROVE  /\ RouteSteps(act, es) \in Seq(AnyStep)
           /\ \A n \in DOMAIN RouteSteps(act, es) : RouteSteps(act, es)[n].op \in {"pass", act}
           /\ \A x : ~Added("addrs", x, RouteSteps(act, es)) /\ ~Dropped("addrs", x, RouteSteps(act, es))
           /\ \A x : Added("routes", x, RouteSteps(act, es)) <=> act = "addroute" /\ x \in DestsOf(act, es)
           /\ \A x : Dropped("routes", x, RouteSteps(act, es)) <=> act = "delroute" /\ x \in DestsOf(act, es)
  <1> DEFINE p == RouteSteps(act, es)
  <1>1. Len(es) \in Nat /\ DOMAIN es = 1..Len(es) /\ \A n \in 1..Len(es) : es[n] \in Entries
    BY LenProperties, ElementOfSeq
  <1>2. DOMAIN p = 1..Len(es)
        /\ \A n \in 1..Len(es) : p[n] = IF Complete(act, es[n])
                                        THEN [op |-> act, dest |-> es[n].dest, via |-> es[n].via]
                                        ELSE [op |-> "pass"]
    BY DEF RouteSteps, Do
  <1>3. p \in Seq(AnyStep)
    <2>1. ASSUME NEW n \in 1..Len(es) PROVE p[n] \in AnyStep
      <3>1. es[n].dest \in Dests \cup {"none"} /\ es[n].via \in {"none", "if", "gw", "maskedgw"}
        BY <1>1 DEF Entries
      <3>2. [op |-> act, dest |-> es[n].dest, via |-> es[n].via] \in RouteStep
        BY <3>1 DEF RouteStep
      <3>3. [op |-> "pass"] \in RouteStep  BY DEF RouteStep
      <3> QED  BY <1>2, <3>2, <3>3 DEF AnyStep
    <2>2. p \in [1..Len(es) -> AnyStep]
      <3>1. p = [n \in 1..Len(es) |-> p[n]]  BY DEF RouteSteps
      <3> HIDE DEF p
      <3> QED  BY <2>1, <3>1
    <2> HIDE DEF p
    <2> QED  BY <1>1, <2>2, SeqDef
  <1> HIDE DEF p
  <1>4. \A n \in DOMAIN p : p[n].op \in {"pass", act}  BY <1>2
  <1>5. \A f, x : \A n \in DOMAIN p : x \in Put(f, p[n]) => act = "addroute" /\ f = "routes" /\ x \in DestsOf(act, es)
    BY <1>1, <1>2 DEF Put, ToSet, DestsOf
  <1>6. \A f, x : \A n \in DOMAIN p : x \in Drop(f, p[n]) => act = "delroute" /\ f = "routes" /\ x \in DestsOf(act, es)
    BY <1>1, <1>2 DEF Drop, ToSet, DestsOf
  <1>7. ASSUME NEW x \in DestsOf(act, es)
        PROVE  /\ act = "addroute" => \E n \in DOMAIN p : x \in Put("routes", p[n])
               /\ act = "delroute" => \E n \in DOMAIN p : x \in Drop("routes", p[n])
    <2>1. PICK i \in DOMAIN es : Complete(act, es[i]) /\ x = es[i].dest  BY DEF ToSet, DestsOf
    <2>2. i \in DOMAIN p /\ p[i].op = act /\ p[i].dest = x  BY <1>1, <1>2, <2>1
    <2>3. (act = "addroute" => x \in Put("routes", p[i])) /\ (act = "delroute" => x \in Drop("routes", p[i]))
      BY <2>2 DEF Put, Drop
    <2> QED  BY <2>2, <2>3
  <1>8. \A x : /\ Added("routes", x, p) <=> act = "addroute" /\ x \in DestsOf(act, es)
               /\ Dropped("routes", x, p) <=> act = "delroute" /\ x \in DestsOf(act, es)
               /\ ~Added("addrs", x, p) /\ ~Dropped("addrs", x, p)
    BY <1>5, <1>6, <1>7 DEF Added, Dropped
  <1> QED  BY <1>3, <1>4, <1>8 DEF p

\* What the program of a call without flags of its own is going to do to the interface k.
Achieves(p, k, a) ==
    /\ a.idx = k.idx
    /\ \A f \in Lists : \A x : x \in a[f] <=> Added(f, x, p) \/ (x \in k[f] /\ ~Dropped(f, x, p))
    /\ a.mtu = IF Left("mtu", p) THEN "new" ELSE k.mtu
    /\ a.mac = IF Left("mac", p) THEN "new" ELSE k.mac

\* inet6.addr, if it is not passed over.
FirstAddr(j) == {j.addr} \ (Short \cup {NoAddr})

\* What is asked of the interface k, less the parts that are passed over.
Understood(j, k) ==
    CASE j.fn = "assignAddress" ->
            [k EXCEPT !.mtu = IF j.mtu THEN "new" ELSE @,
                      !.mac = IF j.mac = "good" THEN "new" ELSE @,
                      !.addrs = ((@ \cup FirstAddr(j)) \ Strings(j.remove_addr))
                                   \cup Strings(j.add_addr)]
      [] j.fn = "assignRoute" ->
            [k EXCEPT !.routes = (@ \cup DestsOf("addroute", j.add_route6))
                                    \ DestsOf("delroute", j.del_route6)]
      [] OTHER -> Asked(j, k)

IsInterface(k) == k = [f \in Fields |-> k[f]]

\* assignRoute is a program for what it is asked to do.
LEMMA RouteAsked ==
    ASSUME NEW j \in Jobs, j.fn = "assignRoute", NEW k, IsInterface(k)
    PROVE  /\ Program(j) \in Seq(AnyStep) /\ MacOrder(Program(j))
           /\ Left("up", Program(j)) => Left("getflags", Program(j))
           /\ Achieves(Program(j), k, Understood(j, k)) /\ Understood(j, k).flags = k.flags
           /\ IsInterface(Understood(j, k))
  <1> DEFINE ad == RouteSteps("addroute", j.add_route6)
             de == RouteSteps("delroute", j.del_route6)
             ms == IF j.delIsArray THEN RouteSteps("msgroute", j.msg_route6) ELSE <<>>
             a == Understood(j, k)
  <1>1. j.add_route6 \in Seq(Entries) /\ j.del_route6 \in Seq(Entries) /\ j.msg_route6 \in Seq(Entries)
    BY RouteJobs
  <1>2. Program(j) = (ad \o de) \o ms  BY DEF Program, AssignRoute
  <1>3. /\ ad \in Seq(AnyStep) /\ \A n \in DOMAIN ad : ad[n].op \in {"pass", "addroute"}
        /\ \A x : ~Added("addrs", x, ad) /\ ~Dropped("addrs", x, ad) /\ ~Dropped("routes", x, ad)
        /\ \A x : Added("routes", x, ad) <=> x \in DestsOf("addroute", j.add_route6)
    BY <1>1, RouteEffect
  <1>4. /\ de \in Seq(AnyStep) /\ \A n \in DOMAIN de : de[n].op \in {"pass", "delroute"}
        /\ \A x : ~Added("addrs", x, de) /\ ~Dropped("addrs", x, de) /\ ~Added("routes", x, de)
        /\ \A x : Dropped("routes", x, de) <=> x \in DestsOf("delroute", j.del_route6)
    BY <1>1, RouteEffect
  <1>5. /\ ms \in Seq(AnyStep) /\ \A n \in DOMAIN ms : ms[n].op \in {"pass", "msgroute"}
        /\ \A f \in Lists : \A x : ~Added(f, x, ms) /\ ~Dropped(f, x, ms)
    <2>1. <<>> \in Seq(AnyStep) /\ DOMAIN <<>> = {}  BY EmptySeq
    <2>2. \A f, x : ~Added(f, x, <<>>) /\ ~Dropped(f, x, <<>>)  BY <2>1 DEF Added, Dropped
    <2> QED  BY <1>1, <2>1, <2>2, RouteEffect DEF Lists
  <1> HIDE DEF ad, de, ms
  <1>6. ad \o de \in Seq(AnyStep)
        /\ \A n \in DOMAIN (ad \o de) : (ad \o de)[n].op \in {"pass", "addroute", "delroute"}
    BY <1>3, <1>4, InARow
  <1>7. Program(j) \in Seq(AnyStep)
        /\ \A n \in DOMAIN Program(j) : Program(j)[n].op \in {"pass", "addroute", "delroute", "msgroute"}
    <2> DEFINE ab == ad \o de
    <2> HIDE DEF ab
    <2>1. ab \in Seq(AnyStep) /\ \A n \in DOMAIN ab : ab[n].op \in {"pass", "addroute", "delroute"}
      BY <1>6 DEF ab
    <2>2. ab \o ms \in Seq(AnyStep)
          /\ \A n \in DOMAIN (ab \o ms) : (ab \o ms)[n].op \in {"pass", "addroute", "delroute", "msgroute"}
      BY <1>5, <2>1, InARow
    <2> QED  BY <1>2, <2>2 DEF ab
  <1>8. MacOrder(Program(j)) /\ ~Left("mtu", Program(j)) /\ ~Left("mac", Program(j))
        /\ ~Left("up", Program(j))
    BY <1>7 DEF MacOrder, MacOps, Left
  <1>9. \A x : /\ Added("routes", x, Program(j)) <=>
                     x \in DestsOf("addroute", j.add_route6) /\ x \notin DestsOf("delroute", j.del_route6)
               /\ Dropped("routes", x, Program(j)) <=> x \in DestsOf("delroute", j.del_route6)
               /\ ~Added("addrs", x, Program(j)) /\ ~Dropped("addrs", x, Program(j))
    <2>1. \A x : /\ Added("routes", x, ad \o de) <=>
                     x \in DestsOf("addroute", j.add_route6) /\ x \notin DestsOf("delroute", j.del_route6)
                 /\ Dropped("routes", x, ad \o de) <=> x \in DestsOf("delroute", j.del_route6)
                 /\ ~Added("addrs", x, ad \o de) /\ ~Dropped("addrs", x, ad \o de)
      BY <1>3, <1>4, RowEffect
    <2> DEFINE ab == ad \o de
    <2> HIDE DEF ab
    <2>2. ab \in Seq(AnyStep)  BY <1>6 DEF ab
    <2>3. \A f, x : /\ Added(f, x, ab \o ms) <=> Added(f, x, ms) \/ (Added(f, x, ab) /\ ~Dropped(f, x, ms))
                    /\ Dropped(f, x, ab \o ms) <=> Dropped(f, x, ab) \/ Dropped(f, x, ms)
      BY <1>5, <2>2, RowEffect
    <2> QED  BY <1>2, <1>5, <2>1, <2>3 DEF Lists, ab
  <1>10. a = [k EXCEPT !.routes = (k.routes \cup DestsOf("addroute", j.add_route6)) \ DestsOf("delroute", j.del_route6)]
    BY DEF Understood
  <1>11. /\ a.idx = k.idx /\ a.mtu = k.mtu /\ a.mac = k.mac /\ a.addrs = k.addrs /\ a.flags = k.flags
         /\ a.routes = (k.routes \cup DestsOf("addroute", j.add_route6)) \ DestsOf("delroute", j.del_route6)
         /\ IsInterface(a)
    BY <1>10 DEF IsInterface, Fields
  <1> HIDE DEF a
  <1>12. Achieves(Program(j), k, a)  BY <1>8, <1>9, <1>11 DEF Achieves, Lists
  <1> QED  BY <1>7, <1>8, <1>11, <1>12 DEF a

\* The steps of a MAC address.
LEMMA MacParts ==
    ASSUME NEW j \in Jobs, j.fn = "assignAddress"
    PROVE  /\ MacSteps(j) \in Seq(AnyStep) /\ MacOrder(MacSteps(j))
           /\ \A n \in DOMAIN MacSteps(j) : MacSteps(j)[n].op \in MacOps \cup {"mac", "fail"}
           /\ Left("mac", MacSteps(j)) <=> j.mac = "good"
           /\ Left("up", MacSteps(j)) => Left("getflags", MacSteps(j))
  <1>1. j.mac \in {"none", "bad", "good"}  BY AddressJobs
  <1>2. CASE j.mac = "none"
    <2>1. MacSteps(j) = <<>>  BY <1>2 DEF MacSteps
    <2>2. <<>> \in Seq(AnyStep) /\ DOMAIN <<>> = {}  BY EmptySeq
    <2> QED  BY <1>2, <2>1, <2>2 DEF MacOrder, Left
  <1>3. CASE j.mac = "bad"
    <2>1. MacSteps(j) = <<[op |-> "fail"]>>  BY <1>3 DEF MacSteps, Do
    <2>2. [op |-> "fail"] \in AnyStep  BY DEF AnyStep, AddrStep, AddressOps
    <2> DEFINE s == <<[op |-> "fail"]>>
    <2>3. s \in Seq(AnyStep) /\ DOMAIN s = {1} /\ s[1].op = "fail"  BY <2>2
    <2> HIDE DEF s
    <2>4. MacOrder(s) /\ ~Left("mac", s) /\ ~Left("up", s)  BY <2>3 DEF MacOrder, Left, MacOps
    <2> QED  BY <1>3, <2>1, <2>3, <2>4 DEF s
  <1>4. CASE j.mac = "good"
    <2> DEFINE s == <<Do("getflags"), Do("down"), Do("mac"), Do("up")>>
    <2>1. MacSteps(j) = s  BY <1>4 DEF MacSteps
    <2>2. Do("getflags") \in AnyStep /\ Do("down") \in AnyStep /\ Do("mac") \in AnyStep
          /\ Do("up") \in AnyStep
      BY DEF Do, AnyStep, AddrStep, AddressOps
    <2>3. s \in Seq(AnyStep) /\ DOMAIN s = 1..4  BY <2>2
    <2>4. s[1].op = "getflags" /\ s[2].op = "down" /\ s[3].op = "mac" /\ s[4].op = "up"  BY DEF Do
    <2> HIDE DEF s
    <2>5. \A n \in DOMAIN s : n = 1 \/ n = 2 \/ n = 3 \/ n = 4  BY <2>3
    <2>6. 1 \in DOMAIN s /\ 2 \in DOMAIN s /\ 3 \in DOMAIN s /\ 4 \in DOMAIN s  BY <2>3
    <2>7. /\ Left("mac", s) /\ Left("getflags", s) /\ Left("down", s) /\ Left("up", s)
          /\ ~Left("setflags", s)
      BY <2>4, <2>5, <2>6 DEF Left
    <2>8. MacOrder(s)  BY <2>4, <2>5, <2>7 DEF MacOrder, MacOps
    <2>9. \A n \in DOMAIN s : s[n].op \in MacOps \cup {"mac"}  BY <2>4, <2>5 DEF MacOps
    <2> QED  BY <1>4, <2>1, <2>3, <2>7, <2>8, <2>9
  <1> QED  BY <1>1, <1>2, <1>3, <1>4

\* The steps of the MTU, and those of the netmask.
LEMMA MtuMaskParts ==
    ASSUME NEW j \in Jobs, j.fn = "assignAddress"
    PROVE  /\ MtuSteps(j) \in Seq(AnyStep) /\ MaskSteps(j) \in Seq(AnyStep)
           /\ \A n \in DOMAIN MtuSteps(j) : MtuSteps(j)[n].op \in {"index", "mtu", "forget"}
           /\ \A n \in DOMAIN MaskSteps(j) : MaskSteps(j)[n].op \in {"index", "mask"}
           /\ Left("mtu", MtuSteps(j)) <=> j.mtu
  <1>0. <<>> \in Seq(AnyStep) /\ DOMAIN <<>> = {} /\ j.mtu \in BOOLEAN /\ j.mask \in BOOLEAN
    BY EmptySeq, AddressJobs
  <1>1. /\ MtuSteps(j) \in Seq(AnyStep)
        /\ \A n \in DOMAIN MtuSteps(j) : MtuSteps(j)[n].op \in {"index", "mtu", "forget"}
        /\ Left("mtu", MtuSteps(j)) <=> j.mtu
    <2>1. CASE ~j.mtu  BY <1>0, <2>1 DEF MtuSteps, Left
    <2>2. CASE j.mtu
      <3> DEFINE s == <<Do("index"), Do("mtu"), Do("forget")>>
      <3>1. Do("index") \in AnyStep /\ Do("mtu") \in AnyStep /\ Do("forget") \in AnyStep
        BY DEF Do, AnyStep, AddrStep, AddressOps
      <3>2. s \in Seq(AnyStep) /\ DOMAIN s = 1..3  BY <3>1
      <3>3. s[1].op = "index" /\ s[2].op = "mtu" /\ s[3].op = "forget"  BY DEF Do
      <3>4. MtuSteps(j) = s  BY <2>2 DEF MtuSteps
      <3> HIDE DEF s
      <3>5. 2 \in DOMAIN s /\ \A n \in DOMAIN s : n = 1 \/ n = 2 \/ n = 3  BY <3>2
      <3> QED  BY <2>2, <3>2, <3>3, <3>4, <3>5 DEF Left
    <2> QED  BY <1>0, <2>1, <2>2
  <1>2. /\ MaskSteps(j) \in Seq(AnyStep)
        /\ \A n \in DOMAIN MaskSteps(j) : MaskSteps(j)[n].op \in {"index", "mask"}
    <2>1. CASE ~j.mask  BY <1>0, <2>1 DEF MaskSteps
    <2>2. CASE j.mask
      <3> DEFINE s == <<Do("index"), Do("mask")>>
      <3>1. Do("index") \in AnyStep /\ Do("mask") \in AnyStep  BY DEF Do, AnyStep, AddrStep, AddressOps
      <3>2. s \in Seq(AnyStep) /\ DOMAIN s = 1..2  BY <3>1
      <3>3. s[1].op = "index" /\ s[2].op = "mask"  BY DEF Do
      <3>4. MaskSteps(j) = s  BY <2>2 DEF MaskSteps
      <3> HIDE DEF s
      <3>5. \A n \in DOMAIN s : n = 1 \/ n = 2  BY <3>2
      <3> QED  BY <3>2, <3>3, <3>4, <3>5
    <2> QED  BY <1>0, <2>1, <2>2
  <1> QED  BY <1>1, <1>2

\* inet6.addr, the addresses to remove and the addresses to add, in this order.
LEMMA AddressParts ==
    ASSUME NEW j \in Jobs, j.fn = "assignAddress"
    PROVE  /\ AddressSteps(j) \in Seq(AnyStep)
           /\ \A n \in DOMAIN AddressSteps(j) : AddressSteps(j)[n].op \in {"pass", "index", "add", "remove"}
           /\ \A x : ~Added("routes", x, AddressSteps(j)) /\ ~Dropped("routes", x, AddressSteps(j))
           /\ \A x : Dropped("addrs", x, AddressSteps(j)) <=> x \in Strings(j.remove_addr)
           /\ \A x : Added("addrs", x, AddressSteps(j)) <=>
                 \/ x \in Strings(j.add_addr)
                 \/ x \in FirstAddr(j) /\ x \notin Strings(j.remove_addr)
  <1> DEFINE one == IF j.addr \in Short \cup {NoAddr} THEN <<>> ELSE Each("add", <<j.addr>>)
             rm == Each("remove", j.remove_addr)
             ad == Each("add", j.add_addr)
             both == one \o rm
  <1>1. j.addr \in Addrs \cup {NoAddr} /\ j.remove_addr \in Seq(Addrs \cup {NoAddr})
          /\ j.add_addr \in Seq(Addrs \cup {NoAddr})
    BY AddressJobs
  <1>2. /\ one \in Seq(AnyStep) /\ \A n \in DOMAIN one : one[n].op \in {"pass", "index", "add"}
        /\ \A x : ~Added("routes", x, one) /\ ~Dropped("routes", x, one) /\ ~Dropped("addrs", x, one)
        /\ \A x : Added("addrs", x, one) <=> x \in FirstAddr(j)
    <2>1. CASE j.addr \in Short \cup {NoAddr}
      <3>1. one = <<>>  BY <2>1
      <3>2. <<>> \in Seq(AnyStep) /\ DOMAIN <<>> = {}  BY EmptySeq
      <3>3. \A f, x : ~Added(f, x, <<>>) /\ ~Dropped(f, x, <<>>)  BY <3>2 DEF Added, Dropped
      <3> HIDE DEF one
      <3> QED  BY <2>1, <3>1, <3>2, <3>3 DEF FirstAddr
    <2>2. CASE j.addr \notin Short \cup {NoAddr}
      <3> DEFINE e == Each("add", <<j.addr>>)
      <3>1. one = e  BY <2>2
      <3>2. <<j.addr>> \in Seq(Addrs \cup {NoAddr})  BY <1>1, <2>2
      <3>3. Strings(<<j.addr>>) = FirstAddr(j)  BY <2>2 DEF ToSet, Strings, FirstAddr
      <3>4. /\ e \in Seq(AnyStep) /\ \A n \in DOMAIN e : e[n].op \in {"pass", "index", "add"}
            /\ \A x : ~Added("routes", x, e) /\ ~Dropped("routes", x, e)
            /\ \A x : Added("addrs", x, e) <=> x \in Strings(<<j.addr>>)
            /\ \A x : ~Dropped("addrs", x, e)
        BY <3>2, EachEffect
      <3> HIDE DEF one, e
      <3> QED  BY <2>2, <3>1, <3>3, <3>4
    <2> QED  BY <2>1, <2>2
  <1>3. /\ rm \in Seq(AnyStep) /\ \A n \in DOMAIN rm : rm[n].op \in {"pass", "index", "remove"}
        /\ \A x : ~Added("routes", x, rm) /\ ~Dropped("routes", x, rm) /\ ~Added("addrs", x, rm)
        /\ \A x : Dropped("addrs", x, rm) <=> x \in Strings(j.remove_addr)
    BY <1>1, EachEffect
  <1>4. /\ ad \in Seq(AnyStep) /\ \A n \in DOMAIN ad : ad[n].op \in {"pass", "index", "add"}
        /\ \A x : ~Added("routes", x, ad) /\ ~Dropped("routes", x, ad) /\ ~Dropped("addrs", x, ad)
        /\ \A x : Added("addrs", x, ad) <=> x \in Strings(j.add_addr)
    BY <1>1, EachEffect
  <1>5. AddressSteps(j) = both \o ad  BY DEF AddressSteps
  <1> HIDE DEF one, rm, ad
  <1>6. /\ both \in Seq(AnyStep) /\ \A n \in DOMAIN both : both[n].op \in {"pass", "index", "add", "remove"}
        /\ \A x : ~Added("routes", x, both) /\ ~Dropped("routes", x, both)
        /\ \A x : Dropped("addrs", x, both) <=> x \in Strings(j.remove_addr)
        /\ \A x : Added("addrs", x, both) <=> x \in FirstAddr(j) /\ x \notin Strings(j.remove_addr)
    <2>1. both \in Seq(AnyStep) /\ \A n \in DOMAIN both : both[n].op \in {"pass", "index", "add", "remove"}
      BY <1>2, <1>3, InARow
    <2>2. \A f, x : /\ Added(f, x, both) <=> Added(f, x, rm) \/ (Added(f, x, one) /\ ~Dropped(f, x, rm))
                    /\ Dropped(f, x, both) <=> Dropped(f, x, one) \/ Dropped(f, x, rm)
      BY <1>2, <1>3, RowEffect
    <2> QED  BY <1>2, <1>3, <2>1, <2>2
  <1> HIDE DEF both
  <1>7. both \o ad \in Seq(AnyStep)
        /\ \A n \in DOMAIN (both \o ad) : (both \o ad)[n].op \in {"pass", "index", "add", "remove"}
    BY <1>4, <1>6, InARow
  <1>8. \A f, x : /\ Added(f, x, both \o ad) <=> Added(f, x, ad) \/ (Added(f, x, both) /\ ~Dropped(f, x, ad))
                  /\ Dropped(f, x, both \o ad) <=> Dropped(f, x, both) \/ Dropped(f, x, ad)
    BY <1>4, <1>6, RowEffect
  <1> QED  BY <1>4, <1>5, <1>6, <1>7, <1>8

\* assignAddress is a program for what it is asked to do, and leaves the flags.
LEMMA AddressAsked ==
    ASSUME NEW j \in Jobs, j.fn = "assignAddress", NEW k, IsInterface(k)
    PROVE  /\ Program(j) \in Seq(AnyStep) /\ MacOrder(Program(j))
           /\ Left("up", Program(j)) => Left("getflags", Program(j))
           /\ Achieves(Program(j), k, Understood(j, k)) /\ Understood(j, k).flags = k.flags
           /\ IsInterface(Understood(j, k))
  <1> DEFINE mt == MtuSteps(j)
             mc == MacSteps(j)
             as == AddressSteps(j)
             mk == MaskSteps(j)
             p1 == mt \o mc
             p2 == p1 \o as
             p3 == p2 \o mk
             gain == Strings(j.add_addr) \cup (FirstAddr(j) \ Strings(j.remove_addr))
             a == Understood(j, k)
  <1>1. Program(j) = p3  BY DEF Program, AssignAddress
  <1>2. /\ mt \in Seq(AnyStep) /\ mk \in Seq(AnyStep)
        /\ \A n \in DOMAIN mt : mt[n].op \in {"index", "mtu", "forget"}
        /\ \A n \in DOMAIN mk : mk[n].op \in {"index", "mask"}
        /\ Left("mtu", mt) <=> j.mtu
    BY MtuMaskParts
  <1>3. /\ mc \in Seq(AnyStep) /\ MacOrder(mc)
        /\ \A n \in DOMAIN mc : mc[n].op \in MacOps \cup {"mac", "fail"}
        /\ Left("mac", mc) <=> j.mac = "good"
        /\ Left("up", mc) => Left("getflags", mc)
    BY MacParts
  <1>4. /\ as \in Seq(AnyStep)
        /\ \A n \in DOMAIN as : as[n].op \in {"pass", "index", "add", "remove"}
        /\ \A x : ~Added("routes", x, as) /\ ~Dropped("routes", x, as)
        /\ \A x : Dropped("addrs", x, as) <=> x \in Strings(j.remove_addr)
        /\ \A x : Added("addrs", x, as) <=> x \in gain
    BY AddressParts
  <1> HIDE DEF mt, mc, as, mk, gain
  <1>5. /\ \A f, x : ~Added(f, x, mt) /\ ~Dropped(f, x, mt)
        /\ \A f, x : ~Added(f, x, mc) /\ ~Dropped(f, x, mc)
        /\ \A f, x : ~Added(f, x, mk) /\ ~Dropped(f, x, mk)
    <2>1. /\ \A n \in DOMAIN mt : mt[n].op \notin ListOps
          /\ \A n \in DOMAIN mc : mc[n].op \notin ListOps
          /\ \A n \in DOMAIN mk : mk[n].op \notin ListOps
      BY <1>2, <1>3 DEF ListOps, MacOps
    <2> QED  BY <2>1, PlainEffect
  <1>6. /\ ~Left("mac", mt) /\ ~Left("mtu", mc) /\ ~Left("mac", as) /\ ~Left("mtu", as)
        /\ ~Left("mac", mk) /\ ~Left("mtu", mk)
        /\ ~Left("up", mt) /\ ~Left("up", as) /\ ~Left("up", mk)
    BY <1>2, <1>3, <1>4 DEF Left, MacOps
  <1>7. /\ p1 \in Seq(AnyStep) /\ MacOrder(p1)
        /\ \A f, x : ~Added(f, x, p1) /\ ~Dropped(f, x, p1)
        /\ (Left("mtu", p1) <=> j.mtu) /\ (Left("mac", p1) <=> j.mac = "good")
        /\ Left("up", p1) => Left("getflags", p1)
    <2>1. \A n \in DOMAIN mt : mt[n].op \notin MacOps \cup {"setflags"}  BY <1>2 DEF MacOps
    <2>2. MacOrder(p1)  BY <1>2, <1>3, <2>1, RowOrder
    <2>3. p1 \in Seq(AnyStep)  BY <1>2, <1>3, InARow
    <2>4. /\ \A op : Left(op, p1) <=> Left(op, mt) \/ Left(op, mc)
          /\ \A f, x : Dropped(f, x, p1) <=> Dropped(f, x, mt) \/ Dropped(f, x, mc)
          /\ \A f, x : Added(f, x, p1) <=> Added(f, x, mc) \/ (Added(f, x, mt) /\ ~Dropped(f, x, mc))
      BY <1>2, <1>3, RowEffect
    <2> QED  BY <1>2, <1>3, <1>5, <1>6, <2>2, <2>3, <2>4
  <1> HIDE DEF p1
  <1>8. /\ p2 \in Seq(AnyStep) /\ MacOrder(p2)
        /\ \A x : ~Added("routes", x, p2) /\ ~Dropped("routes", x, p2)
        /\ \A x : Dropped("addrs", x, p2) <=> x \in Strings(j.remove_addr)
        /\ \A x : Added("addrs", x, p2) <=> x \in gain
        /\ (Left("mtu", p2) <=> j.mtu) /\ (Left("mac", p2) <=> j.mac = "good")
        /\ Left("up", p2) => Left("getflags", p2)
    <2>1. \A n \in DOMAIN as : as[n].op \notin MacOps \cup {"setflags"}  BY <1>4 DEF MacOps
    <2>2. MacOrder(p2)  BY <1>4, <1>7, <2>1, RowOrder
    <2>3. p2 \in Seq(AnyStep)  BY <1>4, <1>7, InARow
    <2>4. /\ \A op : Left(op, p2) <=> Left(op, p1) \/ Left(op, as)
          /\ \A f, x : Dropped(f, x, p2) <=> Dropped(f, x, p1) \/ Dropped(f, x, as)
          /\ \A f, x : Added(f, x, p2) <=> Added(f, x, as) \/ (Added(f, x, p1) /\ ~Dropped(f, x, as))
      BY <1>4, <1>7, RowEffect
    <2> QED  BY <1>4, <1>6, <1>7, <2>2, <2>3, <2>4
  <1> HIDE DEF p2
  <1>9. /\ p3 \in Seq(AnyStep) /\ MacOrder(p3)
        /\ \A x : ~Added("routes", x, p3) /\ ~Dropped("routes", x, p3)
        /\ \A x : Dropped("addrs", x, p3) <=> x \in Strings(j.remove_addr)
        /\ \A x : Added("addrs", x, p3) <=> x \in gain
        /\ (Left("mtu", p3) <=> j.mtu) /\ (Left("mac", p3) <=> j.mac = "good")
        /\ Left("up", p3) => Left("getflags", p3)
    <2>1. \A n \in DOMAIN mk : mk[n].op \notin MacOps \cup {"setflags"}  BY <1>2 DEF MacOps
    <2>2. MacOrder(p3)  BY <1>2, <1>8, <2>1, RowOrder
    <2>3. p3 \in Seq(AnyStep)  BY <1>2, <1>8, InARow
    <2>4. /\ \A op : Left(op, p3) <=> Left(op, p2) \/ Left(op, mk)
          /\ \A f, x : Dropped(f, x, p3) <=> Dropped(f, x, p2) \/ Dropped(f, x, mk)
          /\ \A f, x : Added(f, x, p3) <=> Added(f, x, mk) \/ (Added(f, x, p2) /\ ~Dropped(f, x, mk))
      BY <1>2, <1>8, RowEffect
    <2> QED  BY <1>5, <1>6, <1>8, <2>2, <2>3, <2>4
  <1> HIDE DEF p3
  <1>10. a = [k EXCEPT !.mtu = IF j.mtu THEN "new" ELSE k.mtu,
                       !.mac = IF j.mac = "good" THEN "new" ELSE k.mac,
                       !.addrs = ((k.addrs \cup FirstAddr(j)) \ Strings(j.remove_addr))
                                    \cup Strings(j.add_addr)]
    BY DEF Understood
  <1>11. /\ a.idx = k.idx /\ a.routes = k.routes /\ a.flags = k.flags
         /\ a.mtu = (IF j.mtu THEN "new" ELSE k.mtu)
         /\ a.mac = (IF j.mac = "good" THEN "new" ELSE k.mac)
         /\ a.addrs = ((k.addrs \cup FirstAddr(j)) \ Strings(j.remove_addr)) \cup Strings(j.add_addr)
         /\ IsInterface(a)
    BY <1>10 DEF IsInterface, Fields
  <1> HIDE DEF a
  <1>12. \A x : x \in a.addrs <=> x \in gain \/ (x \in k.addrs /\ x \notin Strings(j.remove_addr))
    BY <1>11 DEF gain
  <1>13. Achieves(p3, k, a)  BY <1>9, <1>11, <1>12 DEF Achieves, Lists
  <1> QED  BY <1>1, <1>9, <1>11, <1>13 DEF a

\* The rest of a program, by position.
LEMMA Rest ==
    ASSUME NEW p \in Seq(AnyStep), p # <<>>
    PROVE  /\ Head(p) \in AnyStep /\ Tail(p) \in Seq(AnyStep)
           /\ 1 \in DOMAIN p /\ p[1] = Head(p)
           /\ \A n \in DOMAIN Tail(p) : n \in Nat \ {0} /\ n + 1 \in DOMAIN p /\ p[n + 1] = Tail(p)[n]
           /\ \A n \in DOMAIN p : n = 1 \/ \E m \in DOMAIN Tail(p) : n = m + 1
  <1> DEFINE t == Tail(p)
  <1>1. Head(p) \in AnyStep /\ t \in Seq(AnyStep) /\ Len(t) = Len(p) - 1
        /\ \A i \in 1..Len(t) : t[i] = p[i + 1]
    BY HeadTailProperties
  <1>2. Len(p) \in Nat /\ DOMAIN p = 1..Len(p) /\ Len(t) \in Nat /\ DOMAIN t = 1..Len(t)
    BY <1>1, LenProperties
  <1>3. Head(p) = p[1]  OBVIOUS
  <1> HIDE DEF t
  <1>4. \A n \in DOMAIN p : n = 1 \/ (n - 1 \in DOMAIN t /\ n = (n - 1) + 1)  BY <1>1, <1>2
  <1>5. \A n \in DOMAIN t : n \in Nat \ {0} /\ n + 1 \in DOMAIN p  BY <1>1, <1>2
  <1> QED  BY <1>1, <1>2, <1>3, <1>4, <1>5 DEF t

\* What the rest of a program has left to do.
LEMMA RestEffect ==
    ASSUME NEW p \in Seq(AnyStep), p # <<>>
    PROVE  /\ \A op : Left(op, p) <=> Head(p).op = op \/ Left(op, Tail(p))
           /\ \A f, x : Dropped(f, x, p) <=> x \in Drop(f, Head(p)) \/ Dropped(f, x, Tail(p))
           /\ \A f, x : Added(f, x, p) <=>
                 Added(f, x, Tail(p)) \/ (x \in Put(f, Head(p)) /\ ~Dropped(f, x, Tail(p)))
  <1> DEFINE h == <<Head(p)>>
  <1>1. Head(p) \in AnyStep /\ Tail(p) \in Seq(AnyStep) /\ p = h \o Tail(p)
    BY HeadTailProperties
  <1>2. h \in Seq(AnyStep) /\ DOMAIN h = {1} /\ h[1] = Head(p)  BY <1>1
  <1> HIDE DEF h
  <1>3. /\ \A op : Left(op, h) <=> Head(p).op = op
        /\ \A f, x : Dropped(f, x, h) <=> x \in Drop(f, Head(p))
        /\ \A f, x : Added(f, x, h) <=> x \in Put(f, Head(p))
    <2>1. ~(1 < 1)  OBVIOUS
    <2> QED  BY <1>2, <2>1 DEF Left, Dropped, Added
  <1>4. /\ \A op : Left(op, h \o Tail(p)) <=> Left(op, h) \/ Left(op, Tail(p))
        /\ \A f, x : Dropped(f, x, h \o Tail(p)) <=> Dropped(f, x, h) \/ Dropped(f, x, Tail(p))
        /\ \A f, x : Added(f, x, h \o Tail(p)) <=>
              Added(f, x, Tail(p)) \/ (Added(f, x, h) /\ ~Dropped(f, x, Tail(p)))
    BY <1>1, <1>2, RowEffect
  <1> QED  BY <1>1, <1>3, <1>4

\* The rest of a program keeps the order; a step of the MAC address is the last of its
\* kind and the next one is still to come.
LEMMA RestOrder ==
    ASSUME NEW p \in Seq(AnyStep), p # <<>>, MacOrder(p)
    PROVE  /\ MacOrder(Tail(p)) /\ Head(p).op # "setflags"
           /\ Head(p).op = "getflags" => ~Left("getflags", Tail(p)) /\ Left("down", Tail(p))
           /\ Head(p).op = "down" => /\ ~Left("getflags", p) /\ ~Left("down", Tail(p))
                                     /\ Left("up", Tail(p))
           /\ Head(p).op = "up" => ~Left("getflags", p) /\ ~Left("down", p) /\ ~Left("up", Tail(p))
  <1> DEFINE t == Tail(p)
             h == Head(p)
  <1>1. /\ 1 \in DOMAIN p /\ p[1] = h
        /\ \A n \in DOMAIN t : n \in Nat \ {0} /\ n + 1 \in DOMAIN p /\ p[n + 1] = t[n]
        /\ \A n \in DOMAIN p : n = 1 \/ \E m \in DOMAIN t : n = m + 1
    BY Rest
  <1>2. \A op : Left(op, p) <=> h.op = op \/ Left(op, t)  BY RestEffect
  <1> HIDE DEF t, h
  <1>4. \A m, n \in DOMAIN t : (m = n <=> m + 1 = n + 1) /\ (m < n <=> m + 1 < n + 1)  BY <1>1
  <1>5. /\ \A m, n \in DOMAIN t : t[m].op \in MacOps /\ t[m].op = t[n].op => m = n
        /\ \A m, n \in DOMAIN t : t[m].op = "getflags" /\ t[n].op = "down" => m < n
        /\ \A m, n \in DOMAIN t : t[m].op = "down" /\ t[n].op = "up" => m < n
    BY <1>1, <1>4 DEF MacOrder
  <1>6. \A n \in DOMAIN t : n + 1 # 1 /\ ~(n + 1 < 1)  BY <1>1
  <1>7. \A op \in MacOps : h.op = op => ~Left(op, t)
    BY <1>1, <1>6 DEF MacOrder, Left
  <1>8. h.op = "down" => ~Left("getflags", t)
    BY <1>1, <1>6 DEF MacOrder, Left
  <1>9. h.op = "up" => ~Left("down", t)
    BY <1>1, <1>6 DEF MacOrder, Left
  <1>10. /\ Left("getflags", p) => Left("down", p)
         /\ Left("down", p) => Left("up", p)
         /\ ~Left("setflags", p)
    BY DEF MacOrder
  <1>11. /\ h.op = "getflags" => ~Left("getflags", t) /\ Left("down", t)
         /\ h.op = "down" => ~Left("getflags", p) /\ ~Left("down", t) /\ Left("up", t)
         /\ h.op = "up" => ~Left("getflags", p) /\ ~Left("down", p) /\ ~Left("up", t)
         /\ h.op # "setflags"
         /\ Left("getflags", t) => Left("down", t)
         /\ Left("down", t) => Left("up", t)
         /\ ~Left("setflags", t)
    BY <1>2, <1>7, <1>8, <1>9, <1>10 DEF MacOps
  <1>12. MacOrder(t)  BY <1>5, <1>11 DEF MacOrder
  <1> QED  BY <1>11, <1>12 DEF t, h

-----------------------------------------------------------------------------
(* The calls that set flags *)

AssignFns == {"assignAddress", "assignRoute"}
FlagOps == {"index", "getflags", "setflags"}

\* The flags are read before they are set, and setting them is the last step.
FlagOrder(p) ==
    /\ \A n \in DOMAIN p : p[n].op \in FlagOps
    /\ \A m, n \in DOMAIN p : p[m].op = "setflags" => n <= m

\* Every step that sets flags gives the interface k the flags fs, if they were read from k.
GivesFlags(p, k, fs) ==
    \A n \in DOMAIN p : p[n].op = "setflags" => p[n].set \cup (k.flags \cap p[n].keep) = fs

\* The flags read are those of k, as far as a step that is left keeps them.
HasRead(p, k, fs) ==
    ~Left("getflags", p) =>
        \A n \in DOMAIN p : p[n].op = "setflags" => fs \cap p[n].keep = k.flags \cap p[n].keep

\* initIfFlags, setIfFlags and unsetIfFlags are programs for what they are asked to do.
LEMMA FlagsAsked ==
    ASSUME NEW j \in Jobs, j.fn \notin AssignFns, NEW k, IsInterface(k), k.flags \subseteq Flags
    PROVE  /\ Program(j) \in Seq(AnyStep) /\ FlagOrder(Program(j)) /\ Left("setflags", Program(j))
           /\ Achieves(Program(j), k, Understood(j, k)) /\ IsInterface(Understood(j, k))
           /\ GivesFlags(Program(j), k, Understood(j, k).flags) /\ HasRead(Program(j), k, {})
  <1> DEFINE p == Program(j)
             a == Understood(j, k)
  <1>1. j.fn \in {"initIfFlags", "setIfFlags", "unsetIfFlags"} /\ j.flags \subseteq Flags
    BY JobNames, FlagJobs DEF AssignFns
  <1>2. Do("index") \in AnyStep /\ Do("getflags") \in AnyStep
    BY DEF Do, AnyStep, AddrStep, AddressOps
  <1>3. ASSUME NEW st \in SUBSET Flags, NEW kp \in SUBSET Flags
        PROVE  [op |-> "setflags", set |-> st, keep |-> kp] \in AnyStep
    BY DEF AnyStep, FlagStep
  <1>4. a.idx = k.idx /\ a.mtu = k.mtu /\ a.mac = k.mac /\ a.addrs = k.addrs /\ a.routes = k.routes
        /\ IsInterface(a)
        /\ a.flags = CASE j.fn = "initIfFlags" -> j.flags
                       [] j.fn = "setIfFlags" -> k.flags \cup j.flags
                       [] j.fn = "unsetIfFlags" -> k.flags \ j.flags
    <2>1. a = Asked(j, k)  BY <1>1 DEF Understood
    <2> QED  BY <1>1, <2>1 DEF Asked, IsInterface, Fields
  <1> HIDE DEF a
  <1>5. p \in Seq(AnyStep) /\ FlagOrder(p) /\ Left("setflags", p) /\ GivesFlags(p, k, a.flags)
        /\ HasRead(p, k, {})
    <2>1. CASE j.fn = "initIfFlags"
      <3> DEFINE s == [op |-> "setflags", set |-> j.flags, keep |-> {}]
      <3>1. s \in AnyStep  BY <1>1, <1>3
      <3>2. s.op = "setflags" /\ s.set = j.flags /\ s.keep = {}  OBVIOUS
      <3>3. p = <<Do("index"), s>>  BY <2>1 DEF Program, InitIfFlags
      <3> HIDE DEF p, s
      <3>4. p \in Seq(AnyStep) /\ DOMAIN p = 1..2 /\ p[1].op = "index" /\ p[2] = s
        BY <1>2, <3>1, <3>3 DEF Do
      <3>5. 2 \in DOMAIN p /\ \A n \in DOMAIN p : n \in Nat /\ (n = 1 \/ n = 2)  BY <3>4
      <3>6. /\ FlagOrder(p) /\ Left("setflags", p)
            /\ \A n \in DOMAIN p : p[n].op = "setflags" => p[n] = s
        BY <3>2, <3>4, <3>5 DEF FlagOrder, FlagOps, Left
      <3>7. GivesFlags(p, k, a.flags) /\ HasRead(p, k, {})
        BY <1>4, <2>1, <3>2, <3>6 DEF GivesFlags, HasRead
      <3> QED  BY <3>4, <3>6, <3>7
    <2>2. CASE j.fn \in {"setIfFlags", "unsetIfFlags"}
      <3> DEFINE s == IF j.fn = "setIfFlags" THEN [op |-> "setflags", set |-> j.flags, keep |-> Flags]
                      ELSE [op |-> "setflags", set |-> {}, keep |-> Flags \ j.flags]
      <3>1. s \in AnyStep  BY <1>1, <1>3
      <3>2. s.op = "setflags" /\ s.set \cup (k.flags \cap s.keep) = a.flags
        <4>1. CASE j.fn = "setIfFlags"
          <5>1. s.op = "setflags" /\ s.set = j.flags /\ s.keep = Flags  BY <4>1
          <5>2. a.flags = k.flags \cup j.flags  BY <1>4, <4>1
          <5> QED  BY <5>1, <5>2
        <4>2. CASE j.fn = "unsetIfFlags"
          <5>1. s.op = "setflags" /\ s.set = {} /\ s.keep = Flags \ j.flags  BY <4>2
          <5>2. a.flags = k.flags \ j.flags  BY <1>4, <4>2
          <5> QED  BY <5>1, <5>2
        <4> QED  BY <2>2, <4>1, <4>2
      <3>3. p = <<Do("index"), Do("getflags"), s>>  BY <2>2 DEF Program, SetIfFlags, UnsetIfFlags
      <3> HIDE DEF p, s
      <3>4. p \in Seq(AnyStep) /\ DOMAIN p = 1..3 /\ p[1].op = "index" /\ p[2].op = "getflags" /\ p[3] = s
        BY <1>2, <3>1, <3>3 DEF Do
      <3>5. 2 \in DOMAIN p /\ 3 \in DOMAIN p /\ \A n \in DOMAIN p : n \in Nat /\ (n = 1 \/ n = 2 \/ n = 3)
        BY <3>4
      <3>6. /\ FlagOrder(p) /\ Left("setflags", p) /\ Left("getflags", p)
            /\ \A n \in DOMAIN p : p[n].op = "setflags" => p[n] = s
        BY <3>2, <3>4, <3>5 DEF FlagOrder, FlagOps, Left
      <3>7. GivesFlags(p, k, a.flags) /\ HasRead(p, k, {})
        BY <3>2, <3>6 DEF GivesFlags, HasRead
      <3> QED  BY <3>4, <3>6, <3>7
    <2> QED  BY <1>1, <2>1, <2>2
  <1> HIDE DEF p
  <1>8. \A n \in DOMAIN p : p[n].op \notin ListOps /\ p[n].op # "mtu" /\ p[n].op # "mac"
    BY <1>5 DEF FlagOrder, FlagOps, ListOps
  <1>9. ~Left("mtu", p) /\ ~Left("mac", p) /\ \A f, x : ~Added(f, x, p) /\ ~Dropped(f, x, p)
    BY <1>8, PlainEffect DEF Left
  <1>10. Achieves(p, k, a)  BY <1>4, <1>9 DEF Achieves, Lists
  <1> QED  BY <1>4, <1>5, <1>10 DEF p, a

\* The rest of a program that sets flags; nothing comes after setting them.
LEMMA RestFlags ==
    ASSUME NEW p \in Seq(AnyStep), p # <<>>, FlagOrder(p)
    PROVE  /\ FlagOrder(Tail(p)) /\ Head(p).op \in FlagOps
           /\ Head(p).op = "setflags" => /\ \A op : ~Left(op, Tail(p))
                                         /\ ~Left("getflags", p)
           /\ \A k, fs : GivesFlags(p, k, fs) => GivesFlags(Tail(p), k, fs)
           /\ \A k, fs : HasRead(p, k, fs) /\ Head(p).op # "getflags" => HasRead(Tail(p), k, fs)
  <1> DEFINE t == Tail(p)
             h == Head(p)
  <1>1. /\ 1 \in DOMAIN p /\ p[1] = h
        /\ \A n \in DOMAIN t : n \in Nat \ {0} /\ n + 1 \in DOMAIN p /\ p[n + 1] = t[n]
    BY Rest
  <1>2. \A op : Left(op, p) <=> h.op = op \/ Left(op, t)  BY RestEffect
  <1> HIDE DEF t, h
  <1>3. \A m, n \in DOMAIN t : n + 1 <= m + 1 => n <= m  BY <1>1
  <1>4. h.op \in FlagOps /\ FlagOrder(t)
    <2>1. \A n \in DOMAIN t : t[n].op \in FlagOps  BY <1>1 DEF FlagOrder
    <2>2. \A m, n \in DOMAIN t : t[m].op = "setflags" => n <= m  BY <1>1, <1>3 DEF FlagOrder
    <2> QED  BY <1>1, <2>1, <2>2 DEF FlagOrder
  <1>5. \A n \in DOMAIN t : ~(n + 1 <= 1)  BY <1>1
  <1>6. h.op = "setflags" => \A op : ~Left(op, t)  BY <1>1, <1>5 DEF FlagOrder, Left
  <1>7. \A k, fs : GivesFlags(p, k, fs) => GivesFlags(t, k, fs)  BY <1>1 DEF GivesFlags
  <1>8. \A k, fs : HasRead(p, k, fs) /\ h.op # "getflags" => HasRead(t, k, fs)
    BY <1>1, <1>2 DEF HasRead
  <1> QED  BY <1>2, <1>4, <1>6, <1>7, <1>8 DEF t, h

-----------------------------------------------------------------------------
(* The types the argument needs *)

\* What a program, the interface and the flags are made of; the interface the call
\* found was whole, and the steps that handle flags are in order.
ProgInv ==
    /\ KernRecord /\ prog \in Seq(AnyStep)
    /\ kern.flags \subseteq Flags /\ flags \subseteq Flags
    /\ job # NoJob =>
          /\ job \in Jobs /\ IsInterface(base) /\ base.flags \subseteq Flags
          /\ IF job.fn \in AssignFns THEN MacOrder(prog) ELSE FlagOrder(prog)

\* No call has been made at first.
LEMMA InitProg == Init => ProgInv
  <1> SUFFICES ASSUME Init PROVE ProgInv  OBVIOUS
  <1>1. KernRecord  BY InitKern
  <1>2. kern \in [idx: {0, 1}, flags: SUBSET Flags, mtu: {"old"}, mac: {"old"},
                 addrs: SUBSET Addrs, routes: SUBSET Dests]  BY DEF Init
  <1>3. kern.flags \subseteq Flags  BY <1>2
  <1>4. prog = <<>> /\ flags = {} /\ job = NoJob  BY DEF Init
  <1> QED  BY <1>1, <1>3, <1>4, EmptySeq DEF ProgInv

\* The program of a call, whatever it is.
LEMMA ProgramOf ==
    ASSUME NEW j \in Jobs, NEW k, IsInterface(k), k.flags \subseteq Flags
    PROVE  /\ Program(j) \in Seq(AnyStep)
           /\ IF j.fn \in AssignFns THEN MacOrder(Program(j)) ELSE FlagOrder(Program(j))
           /\ Achieves(Program(j), k, Understood(j, k)) /\ IsInterface(Understood(j, k))
  <1>1. CASE j.fn = "assignAddress"  BY <1>1, AddressAsked DEF AssignFns
  <1>2. CASE j.fn = "assignRoute"  BY <1>2, RouteAsked DEF AssignFns
  <1>3. CASE j.fn \notin AssignFns  BY <1>3, FlagsAsked
  <1> QED  BY <1>1, <1>2, <1>3 DEF AssignFns

\* A step that sets flags names flags.
LEMMA SetStep == \A s \in AnyStep : s.op = "setflags" => s.set \subseteq Flags
  BY DEF AnyStep, AddrStep, RouteStep, FlagStep, AddressOps

\* The steps preserve ProgInv.
LEMMA NextProg == ProgInv /\ [Next]_vars => ProgInv'
  <1> SUFFICES ASSUME ProgInv, [Next]_vars PROVE ProgInv'  OBVIOUS
  <1>1. KernRecord'  BY NextKern DEF ProgInv
  <1>2. ASSUME NEW j \in Jobs, Begin(j) PROVE ProgInv'
    <2>1. IsInterface(kern) /\ kern.flags \subseteq Flags  BY DEF ProgInv, KernRecord, IsInterface
    <2>2. kern' = kern /\ prog' = Program(j) /\ flags' = {} /\ job' = j /\ base' = kern
      BY <1>2 DEF Begin
    <2>3. /\ Program(j) \in Seq(AnyStep)
          /\ IF j.fn \in AssignFns THEN MacOrder(Program(j)) ELSE FlagOrder(Program(j))
      BY <2>1, ProgramOf
    <2> QED  BY <1>1, <2>1, <2>2, <2>3 DEF ProgInv
  <1>3. ASSUME Ahead, prog # <<>>, UNCHANGED <<job, base>>,
               kern'.flags \subseteq Flags, flags' \subseteq Flags
        PROVE  ProgInv'
    <2>1. prog \in Seq(AnyStep) /\ prog' = Tail(prog)  BY <1>3 DEF ProgInv, Ahead
    <2>2. prog' \in Seq(AnyStep)  BY <1>3, <2>1, Rest
    <2>3. MacOrder(prog) => MacOrder(prog')  BY <1>3, <2>1, RestOrder
    <2>4. FlagOrder(prog) => FlagOrder(prog')  BY <1>3, <2>1, RestFlags
    <2> QED  BY <1>1, <1>3, <2>2, <2>3, <2>4 DEF ProgInv
  <1>4. CASE Skip \/ LookUp \/ AlreadyDown \/ Fails
    BY <1>3, <1>4 DEF Skip, LookUp, AlreadyDown, Fails, Changes, ProgInv
  <1>5. CASE GetFlags
    <2>1. flags' \subseteq Flags /\ kern' = kern  BY <1>5 DEF GetFlags, ProgInv
    <2> QED  BY <1>3, <1>5, <2>1 DEF GetFlags, ProgInv
  <1>6. CASE Succeeds
    <2>1. kern' = Effect /\ flags' = flags /\ prog # <<>>  BY <1>6 DEF Succeeds, Changes
    <2>2. Step \in AnyStep  BY <2>1, Rest DEF ProgInv, Step
    <2>3. Step.op = "setflags" => Step.set \subseteq Flags  BY <2>2, SetStep
    <2>4. Effect.flags \in {kern.flags, flags \ {"UP"}, flags \cup {"UP"}}
          \/ (Step.op = "setflags" /\ Effect.flags = Step.set \cup (flags \cap Step.keep))
      BY DEF Effect, ProgInv, KernRecord, Fields
    <2>5. kern'.flags \subseteq Flags  BY <2>1, <2>3, <2>4, FlagsHaveUp DEF ProgInv
    <2> QED  BY <1>3, <1>6, <2>1, <2>5 DEF Succeeds, ProgInv
  <1>7. CASE Return  BY <1>1, <1>7 DEF Return, ProgInv
  <1>8. ASSUME NEW k, Other(k), kern'.flags \subseteq Flags PROVE ProgInv'
    BY <1>1, <1>8 DEF Other, ProgInv
  <1>9. ASSUME NEW fs \in SUBSET Flags, OtherSetsFlags(fs) PROVE ProgInv'
    <2>1. kern'.flags = fs  BY <1>9 DEF OtherSetsFlags, Other, ProgInv, KernRecord, Fields
    <2> QED  BY <1>8, <1>9, <2>1 DEF OtherSetsFlags
  <1>10. ASSUME NEW a \in Addrs, OtherTogglesAddr(a) PROVE ProgInv'
    <2>1. kern'.flags = kern.flags  BY <1>10 DEF OtherTogglesAddr, Other, ProgInv, KernRecord, Fields
    <2> QED  BY <1>8, <1>10, <2>1 DEF OtherTogglesAddr, ProgInv
  <1>11. CASE OtherRemoves
    <2>1. kern'.flags = {}  BY <1>11 DEF OtherRemoves, Other, ProgInv, KernRecord, Fields
    <2> QED  BY <1>8, <1>11, <2>1 DEF OtherRemoves
  <1>12. CASE OtherCreates
    <2>1. kern'.flags = kern.flags  BY <1>12 DEF OtherCreates, Other, ProgInv, KernRecord, Fields
    <2> QED  BY <1>8, <1>12, <2>1 DEF OtherCreates, ProgInv
  <1>13. CASE UNCHANGED vars  BY <1>1, <1>13 DEF vars, ProgInv
  <1> QED  BY <1>2, <1>4, <1>5, <1>6, <1>7, <1>9, <1>10, <1>11, <1>12, <1>13 DEF Next

-----------------------------------------------------------------------------
(* A call that has met no error yet is still going to do what it was asked to *)

\* The flags of an interface whose MAC address is being set: it is brought down only
\* if it was up, and then brought up again.
MacFlags ==
    /\ Left("down", prog) => kern.flags = base.flags /\ ~down
    /\ ~Left("getflags", prog) /\ Left("up", prog) => flags = base.flags
    /\ ~Left("down", prog) /\ Left("up", prog) =>
          (down <=> "UP" \in base.flags) /\ kern.flags = base.flags \ {"UP"}
    /\ ~Left("up", prog) => kern.flags = base.flags

\* The flags of an interface whose flags are being set.
SetFlags ==
    IF Left("setflags", prog)
    THEN /\ kern.flags = base.flags
         /\ GivesFlags(prog, base, Understood(job, base).flags) /\ HasRead(prog, base, flags)
    ELSE kern.flags = Understood(job, base).flags

\* What is left of the program leads from here to what was asked.
EndsAsAsked ==
    /\ Achieves(prog, kern, Understood(job, base))
    /\ IF job.fn \in AssignFns THEN MacFlags ELSE SetFlags

DoneInv ==
    /\ job # NoJob /\ quiet /\ ~err => EndsAsAsked
    /\ ret = "ok" => job # NoJob /\ ~err /\ prog = <<>>

\* What a step does to the lists, the MTU and the MAC address.
Does(s, k, k2) ==
    /\ k2.idx = k.idx
    /\ \A f \in Lists : k2[f] = (k[f] \cup Put(f, s)) \ Drop(f, s)
    /\ k2.mtu = IF s.op = "mtu" THEN "new" ELSE k.mtu
    /\ k2.mac = IF s.op = "mac" THEN "new" ELSE k.mac

\* When the first step is done, the rest leads to the same end.
LEMMA AchievesRest ==
    ASSUME NEW p \in Seq(AnyStep), p # <<>>, NEW k, NEW k2, NEW a,
           Achieves(p, k, a), Does(Head(p), k, k2)
    PROVE  Achieves(Tail(p), k2, a)
  <1> DEFINE t == Tail(p)
             h == Head(p)
  <1>1. /\ \A op : Left(op, p) <=> h.op = op \/ Left(op, t)
        /\ \A f, x : Dropped(f, x, p) <=> x \in Drop(f, h) \/ Dropped(f, x, t)
        /\ \A f, x : Added(f, x, p) <=> Added(f, x, t) \/ (x \in Put(f, h) /\ ~Dropped(f, x, t))
    BY RestEffect
  <1>2. \A f, x : ~(x \in Put(f, h) /\ x \in Drop(f, h))  BY DEF Put, Drop
  <1> HIDE DEF t, h
  <1>3. ASSUME NEW f \in Lists, NEW x
        PROVE  x \in a[f] <=> Added(f, x, t) \/ (x \in k2[f] /\ ~Dropped(f, x, t))
    <2>1. x \in a[f] <=> Added(f, x, p) \/ (x \in k[f] /\ ~Dropped(f, x, p))  BY DEF Achieves
    <2>2. x \in k2[f] <=> (x \in k[f] \/ x \in Put(f, h)) /\ x \notin Drop(f, h)  BY DEF Does, h
    <2> QED  BY <1>1, <1>2, <2>1, <2>2
  <1>4. /\ a.mtu = IF Left("mtu", t) THEN "new" ELSE k2.mtu
        /\ a.mac = IF Left("mac", t) THEN "new" ELSE k2.mac
    BY <1>1 DEF Achieves, Does, h
  <1>5. a.idx = k2.idx  BY DEF Achieves, Does
  <1> QED  BY <1>3, <1>4, <1>5 DEF Achieves, t

\* A program with nothing left has achieved it.
LEMMA AchievedAll ==
    ASSUME NEW k, NEW a, Achieves(<<>>, k, a), IsInterface(k), IsInterface(a), a.flags = k.flags
    PROVE  k = a
  <1>1. DOMAIN <<>> = {}  OBVIOUS
  <1>2. \A op : ~Left(op, <<>>)  BY <1>1 DEF Left
  <1>3. \A f, x : ~Added(f, x, <<>>) /\ ~Dropped(f, x, <<>>)  BY <1>1 DEF Added, Dropped
  <1>4. a.idx = k.idx /\ a.mtu = k.mtu /\ a.mac = k.mac  BY <1>2 DEF Achieves
  <1>5. \A f \in Lists : \A x : x \in a[f] <=> x \in k[f]  BY <1>3 DEF Achieves
  <1>6. (\A x : x \in a.addrs <=> x \in k.addrs) /\ (\A x : x \in a.routes <=> x \in k.routes)
    BY <1>5 DEF Lists
  <1>7. a.addrs = k.addrs /\ a.routes = k.routes  BY <1>6
  <1> QED  BY <1>4, <1>7 DEF IsInterface, Fields

\* A system call that succeeds does what its step says.
LEMMA SucceedsDoes ==
    ASSUME ProgInv, Succeeds
    PROVE  /\ Does(Step, kern, kern')
           /\ kern'.flags = IF Step.op = "down" THEN flags \ {"UP"}
                            ELSE IF Step.op = "up" THEN flags \cup {"UP"}
                            ELSE IF Step.op = "setflags" THEN Step.set \cup (flags \cap Step.keep)
                            ELSE kern.flags
  <1>1. kern' = Effect  BY DEF Succeeds
  <1>2. kern = [f \in Fields |-> kern[f]]  BY DEF ProgInv, KernRecord
  <1>3. CASE Step.op = "add"
    BY <1>1, <1>2, <1>3 DEF Effect, Does, Lists, Put, Drop, Fields
  <1>4. CASE Step.op = "remove"
    BY <1>1, <1>2, <1>4 DEF Effect, Does, Lists, Put, Drop, Fields
  <1>5. CASE Step.op = "addroute"
    BY <1>1, <1>2, <1>5 DEF Effect, Does, Lists, Put, Drop, Fields
  <1>6. CASE Step.op = "delroute"
    BY <1>1, <1>2, <1>6 DEF Effect, Does, Lists, Put, Drop, Fields
  <1>7. CASE Step.op \notin ListOps
    <2>1. \A f : Put(f, Step) = {} /\ Drop(f, Step) = {}  BY <1>7 DEF Put, Drop, ListOps
    <2>2. /\ Effect.idx = kern.idx /\ Effect.addrs = kern.addrs /\ Effect.routes = kern.routes
          /\ Effect.mtu = IF Step.op = "mtu" THEN "new" ELSE kern.mtu
          /\ Effect.mac = IF Step.op = "mac" THEN "new" ELSE kern.mac
          /\ Effect.flags = IF Step.op = "down" THEN flags \ {"UP"}
                            ELSE IF Step.op = "up" THEN flags \cup {"UP"}
                            ELSE IF Step.op = "setflags" THEN Step.set \cup (flags \cap Step.keep)
                            ELSE kern.flags
      BY <1>2, <1>7 DEF Effect, ListOps, Fields
    <2> QED  BY <1>1, <2>1, <2>2 DEF Does, Lists
  <1> QED  BY <1>3, <1>4, <1>5, <1>6, <1>7 DEF ListOps

\* A step that touches neither a list, the MTU nor the MAC address.
LEMMA DoesNothing ==
    ASSUME NEW s, s.op \notin ListOps \cup {"mtu", "mac"}, NEW k PROVE Does(s, k, k)
  BY DEF Does, Put, Drop, ListOps

\* No call has been made at first.
LEMMA InitDone == Init => DoneInv
  BY DEF Init, DoneInv

\* The steps preserve DoneInv.
LEMMA NextDone == ProgInv /\ ProgInv' /\ DoneInv /\ [Next]_vars => DoneInv'
  <1> SUFFICES ASSUME ProgInv, ProgInv', DoneInv, [Next]_vars PROVE DoneInv'  OBVIOUS
  <1>1. ASSUME NEW j \in Jobs, Begin(j) PROVE DoneInv'
    <2>1. IsInterface(kern) /\ kern.flags \subseteq Flags  BY DEF ProgInv, KernRecord, IsInterface
    <2>2. /\ kern' = kern /\ prog' = Program(j) /\ flags' = {} /\ job' = j /\ base' = kern
          /\ ~down' /\ ret' = "none"
      BY <1>1 DEF Begin
    <2>3. Achieves(prog', kern', Understood(job', base'))  BY <2>1, <2>2, ProgramOf
    <2>4. CASE j.fn \in AssignFns
      <3>1. MacOrder(prog')  BY <2>1, <2>2, <2>4, ProgramOf
      <3>2. /\ Left("getflags", prog') => Left("down", prog')
            /\ Left("down", prog') => Left("up", prog')
        BY <3>1 DEF MacOrder
      <3>3. Left("up", prog') => Left("getflags", prog')
        <4>1. CASE j.fn = "assignRoute"
          BY <2>1, <2>2, <4>1, RouteAsked
        <4>2. CASE j.fn = "assignAddress"
          BY <2>1, <2>2, <4>2, AddressAsked
        <4> QED  BY <2>4, <4>1, <4>2 DEF AssignFns
      <3>4. MacFlags'  BY <2>2, <3>2, <3>3 DEF MacFlags
      <3> QED  BY <2>2, <2>3, <2>4, <3>4 DEF DoneInv, EndsAsAsked
    <2>5. CASE j.fn \notin AssignFns
      <3>1. /\ Left("setflags", prog') /\ GivesFlags(prog', base', Understood(job', base').flags)
            /\ HasRead(prog', base', flags')
        BY <2>1, <2>2, <2>5, FlagsAsked
      <3>2. SetFlags'  BY <2>2, <3>1 DEF SetFlags
      <3> QED  BY <2>2, <2>3, <2>5, <3>2 DEF DoneInv, EndsAsAsked
    <2> QED  BY <2>4, <2>5
  <1>2. ASSUME Ahead, prog # <<>>, Running, UNCHANGED <<job, base, quiet, ret>>,
               ~err' /\ job # NoJob /\ quiet => ~err /\ (EndsAsAsked => EndsAsAsked')
        PROVE  DoneInv'
    BY <1>2 DEF DoneInv, Running
  <1>3. ASSUME ~err, EndsAsAsked, job # NoJob, prog # <<>>, Ahead, UNCHANGED <<job, base>>,
               Does(Step, kern, kern'), Step.op # "setflags",
               IF job.fn \in AssignFns THEN MacFlags' ELSE UNCHANGED kern,
               job.fn \notin AssignFns => IF Step.op = "getflags" THEN flags' = kern.flags
                                          ELSE flags' = flags
        PROVE  EndsAsAsked'
    <2>1. prog \in Seq(AnyStep) /\ prog' = Tail(prog) /\ Step = Head(prog)
      BY <1>3 DEF ProgInv, Ahead, Step
    <2>2. Achieves(prog', kern', Understood(job', base'))
      BY <1>3, <2>1, AchievesRest DEF EndsAsAsked
    <2>3. CASE job.fn \in AssignFns  BY <1>3, <2>2, <2>3 DEF EndsAsAsked
    <2>4. CASE job.fn \notin AssignFns
      <3>1. FlagOrder(prog) /\ SetFlags  BY <1>3, <2>4 DEF ProgInv, EndsAsAsked
      <3>2. Left("setflags", prog) <=> Left("setflags", prog')  BY <1>3, <2>1, RestEffect
      <3>3. GivesFlags(prog, base, Understood(job, base).flags) => GivesFlags(prog', base, Understood(job, base).flags)
        BY <1>3, <2>1, <3>1, RestFlags
      <3>4. HasRead(prog, base, flags) /\ Step.op # "getflags" => HasRead(prog', base, flags)
        BY <1>3, <2>1, <3>1, RestFlags
      <3>5. kern.flags = base.flags /\ Step.op = "getflags" => HasRead(prog', base, flags')
        BY <1>3, <2>4 DEF HasRead
      <3>6. SetFlags'  BY <1>3, <2>4, <3>1, <3>2, <3>3, <3>4, <3>5 DEF SetFlags
      <3> QED  BY <1>3, <2>2, <2>4, <3>6 DEF EndsAsAsked
    <2> QED  BY <2>3, <2>4
  \* What is left of the steps that handle flags, when the first step is done.
  <1>4. ASSUME prog # <<>>, Ahead, MacOrder(prog)
        PROVE  /\ \A op : Left(op, prog) <=> Step.op = op \/ Left(op, prog')
               /\ Left("getflags", prog) => Left("down", prog)
               /\ Left("down", prog) => Left("up", prog)
               /\ Step.op # "setflags"
               /\ Step.op = "getflags" => ~Left("getflags", prog') /\ Left("down", prog')
               /\ Step.op = "down" => /\ ~Left("getflags", prog) /\ ~Left("down", prog')
                                      /\ Left("up", prog')
               /\ Step.op = "up" => /\ ~Left("getflags", prog) /\ ~Left("down", prog)
                                    /\ ~Left("up", prog')
    <2>1. prog \in Seq(AnyStep) /\ prog' = Tail(prog) /\ Step = Head(prog)
      BY <1>4 DEF ProgInv, Ahead, Step
    <2> QED  BY <1>4, <2>1, RestEffect, RestOrder DEF MacOrder
  <1>5. ASSUME job # NoJob, job.fn \in AssignFns PROVE MacOrder(prog)  BY <1>5 DEF ProgInv
  <1>6. ASSUME job # NoJob, job.fn \notin AssignFns, prog # <<>> PROVE Step.op \in FlagOps
    <2>1. FlagOrder(prog) /\ prog \in Seq(AnyStep)  BY <1>6 DEF ProgInv
    <2> QED  BY <1>6, <2>1, RestFlags DEF Step
  <1>7. CASE Skip
    <2>1. ASSUME ~err, EndsAsAsked, job # NoJob PROVE EndsAsAsked'
      <3>1. Step.op \in {"pass", "up"} /\ (Step.op = "up" => ~down)
        BY <1>7, <2>1 DEF Skip, Skipped
      <3>2. /\ prog # <<>> /\ Ahead /\ UNCHANGED <<job, base, kern, flags, down>>
        BY <1>7 DEF Skip
      <3>3. Does(Step, kern, kern')  BY <3>1, <3>2, DoesNothing DEF ListOps
      <3>4. CASE job.fn \in AssignFns
        <4>1. MacFlags  BY <2>1, <3>4 DEF EndsAsAsked
        <4>2. MacOrder(prog)  BY <1>5, <2>1, <3>4
        <4>3. MacFlags'  BY <1>4, <3>1, <3>2, <4>1, <4>2 DEF MacFlags
        <4> QED  BY <1>3, <2>1, <3>1, <3>2, <3>3, <3>4, <4>3
      <3>5. job.fn \in AssignFns  BY <1>6, <2>1, <3>1, <3>2 DEF FlagOps
      <3> QED  BY <3>4, <3>5
    <2> QED  BY <1>2, <1>7, <2>1 DEF Skip
  <1>8. CASE LookUp
    <2>1. ~err  BY <1>8 DEF LookUp, Skipped
    <2>2. ASSUME EndsAsAsked, job # NoJob PROVE EndsAsAsked'
      <3>1. Step.op \in {"index", "forget"} /\ prog # <<>> /\ Ahead
            /\ UNCHANGED <<job, base, kern, flags, down>>
        BY <1>8 DEF LookUp
      <3>2. Does(Step, kern, kern')  BY <3>1, DoesNothing DEF ListOps
      <3>3. ASSUME job.fn \in AssignFns PROVE MacFlags'
        <4>1. MacFlags  BY <2>2, <3>3 DEF EndsAsAsked
        <4>2. MacOrder(prog)  BY <1>5, <2>2, <3>3
        <4> QED  BY <1>4, <3>1, <4>1, <4>2 DEF MacFlags
      <3> QED  BY <1>3, <2>1, <2>2, <3>1, <3>2, <3>3
    <2> QED  BY <1>2, <1>8, <2>1, <2>2 DEF LookUp
  <1>9. CASE GetFlags
    <2>1. ~err  BY <1>9 DEF GetFlags, Skipped
    <2>2. ASSUME EndsAsAsked, job # NoJob, ~err' PROVE EndsAsAsked'
      <3>1. Step.op = "getflags" /\ prog # <<>> /\ Ahead /\ flags' = kern.flags
            /\ UNCHANGED <<job, base, kern, down>>
        BY <1>9, <2>2 DEF GetFlags
      <3>2. Does(Step, kern, kern')  BY <3>1, DoesNothing DEF ListOps
      <3>3. ASSUME job.fn \in AssignFns PROVE MacFlags'
        <4>1. MacFlags  BY <2>2, <3>3 DEF EndsAsAsked
        <4>2. MacOrder(prog)  BY <1>5, <2>2, <3>3
        <4> QED  BY <1>4, <3>1, <4>1, <4>2 DEF MacFlags
      <3> QED  BY <1>3, <2>1, <2>2, <3>1, <3>2, <3>3
    <2> QED  BY <1>2, <1>9, <2>1, <2>2 DEF GetFlags
  <1>10. CASE AlreadyDown
    <2>1. ~err  BY <1>10 DEF AlreadyDown, Skipped
    <2>2. ASSUME EndsAsAsked, job # NoJob PROVE EndsAsAsked'
      <3>1. Step.op = "down" /\ "UP" \notin flags /\ prog # <<>> /\ Ahead
            /\ UNCHANGED <<job, base, kern, flags, down>>
        BY <1>10 DEF AlreadyDown
      <3>2. Does(Step, kern, kern')  BY <3>1, DoesNothing DEF ListOps
      <3>3. job.fn \in AssignFns  BY <1>6, <2>2, <3>1 DEF FlagOps
      <3>4. MacFlags'
        <4>1. MacFlags  BY <2>2, <3>3 DEF EndsAsAsked
        <4>2. MacOrder(prog)  BY <1>5, <2>2, <3>3
        <4> QED  BY <1>4, <3>1, <4>1, <4>2 DEF MacFlags
      <3> QED  BY <1>3, <2>1, <2>2, <3>1, <3>2, <3>3, <3>4
    <2> QED  BY <1>2, <1>10, <2>1, <2>2 DEF AlreadyDown
  <1>11. CASE Succeeds
    <2>1. /\ prog # <<>> /\ Ahead /\ Running /\ ~Skipped
          /\ Step.op \notin {"index", "forget", "getflags"} /\ (Step.op = "down" => "UP" \in flags)
          /\ down' = (down \/ Step.op = "down") /\ UNCHANGED <<job, base, quiet, ret, err, flags>>
      BY <1>11 DEF Succeeds, Changes
    <2>2. Does(Step, kern, kern')  BY <1>11, SucceedsDoes
    <2>3. kern'.flags = IF Step.op = "down" THEN flags \ {"UP"}
                        ELSE IF Step.op = "up" THEN flags \cup {"UP"}
                        ELSE IF Step.op = "setflags" THEN Step.set \cup (flags \cap Step.keep)
                        ELSE kern.flags
      BY <1>11, SucceedsDoes
    <2>4. ASSUME ~err, EndsAsAsked, job # NoJob PROVE EndsAsAsked'
      <3>1. CASE job.fn \in AssignFns
        <4>1. MacFlags  BY <2>4, <3>1 DEF EndsAsAsked
        <4>2. MacOrder(prog)  BY <1>5, <2>4, <3>1
        <4>3. Step.op # "setflags"  BY <1>4, <2>1, <4>2
        <4>4. ASSUME Step.op = "down" PROVE MacFlags'
          <5>1. flags = base.flags /\ "UP" \in base.flags
            BY <1>4, <2>1, <4>1, <4>2, <4>4 DEF MacFlags
          <5> QED  BY <1>4, <2>1, <2>3, <4>2, <4>4, <5>1 DEF MacFlags
        <4>5. ASSUME Step.op = "up" PROVE MacFlags'
          <5>1. flags = base.flags /\ "UP" \in base.flags
            BY <1>4, <2>1, <4>1, <4>2, <4>5 DEF MacFlags, Skipped
          <5>2. kern'.flags = base.flags  BY <2>3, <4>5, <5>1
          <5> QED  BY <1>4, <2>1, <4>2, <4>5, <5>2 DEF MacFlags
        <4>6. ASSUME Step.op \notin {"down", "up"} PROVE MacFlags'
          BY <1>4, <2>1, <2>3, <4>1, <4>2, <4>3, <4>6 DEF MacFlags
        <4>7. MacFlags'  BY <4>4, <4>5, <4>6
        <4> QED  BY <1>3, <2>1, <2>2, <2>4, <3>1, <4>3, <4>7
      <3>2. CASE job.fn \notin AssignFns
        <4>1. Step.op = "setflags"  BY <1>6, <2>1, <2>4, <3>2 DEF FlagOps
        <4>2. FlagOrder(prog) /\ SetFlags /\ prog \in Seq(AnyStep)
          BY <2>4, <3>2 DEF ProgInv, EndsAsAsked
        <4>3. prog' = Tail(prog) /\ Step = Head(prog)  BY <2>1 DEF Ahead, Step
        <4>4. 1 \in DOMAIN prog /\ prog[1] = Step  BY <2>1, <4>2, <4>3, Rest
        <4>5. ~Left("setflags", prog') /\ ~Left("getflags", prog)
          BY <2>1, <4>1, <4>2, <4>3, RestFlags
        <4>6. Left("setflags", prog)  BY <4>1, <4>4 DEF Left
        <4>7. /\ Step.set \cup (base.flags \cap Step.keep) = Understood(job, base).flags
              /\ flags \cap Step.keep = base.flags \cap Step.keep
          BY <4>1, <4>2, <4>4, <4>5, <4>6 DEF SetFlags, GivesFlags, HasRead
        <4>8. kern'.flags = Understood(job, base).flags  BY <2>3, <4>1, <4>7
        <4>9. SetFlags'  BY <2>1, <4>5, <4>8 DEF SetFlags
        <4>10. Achieves(prog', kern', Understood(job', base'))
          BY <2>1, <2>2, <2>4, <4>2, <4>3, AchievesRest DEF EndsAsAsked
        <4> QED  BY <2>1, <3>2, <4>9, <4>10 DEF EndsAsAsked
      <3> QED  BY <3>1, <3>2
    <2> QED  BY <1>2, <2>1, <2>4
  <1>12. CASE Fails  BY <1>2, <1>12 DEF Fails, Changes
  <1>13. CASE Return
    BY <1>13 DEF Return, Running, DoneInv, EndsAsAsked, MacFlags, SetFlags
  <1>14. ASSUME quiet' = FALSE, UNCHANGED <<job, prog, err, ret>> PROVE DoneInv'
    BY <1>14 DEF DoneInv
  <1>15. ASSUME NEW fs \in SUBSET Flags, OtherSetsFlags(fs) PROVE DoneInv'
    BY <1>14, <1>15 DEF OtherSetsFlags, Other
  <1>16. ASSUME NEW a \in Addrs, OtherTogglesAddr(a) PROVE DoneInv'
    BY <1>14, <1>16 DEF OtherTogglesAddr, Other
  <1>17. CASE OtherRemoves  BY <1>14, <1>17 DEF OtherRemoves, Other
  <1>18. CASE OtherCreates  BY <1>14, <1>18 DEF OtherCreates, Other
  <1>19. CASE UNCHANGED vars
    BY <1>19 DEF vars, DoneInv, EndsAsAsked, MacFlags, SetFlags
  <1> QED  BY <1>1, <1>7, <1>8, <1>9, <1>10, <1>11, <1>12, <1>13, <1>15, <1>16, <1>17, <1>18, <1>19
            DEF Next

\* A request of which no part is passed over is understood as it was asked.
LEMMA UnderstoodAsAsked ==
    ASSUME NEW j \in Jobs, NEW k, ~PassedOver(j) PROVE Understood(j, k) = Asked(j, k)
  <1>1. CASE j.fn = "assignAddress"
    <2>1. j.addr \notin Short /\ NoAddr \notin ToSet(j.remove_addr) /\ NoAddr \notin ToSet(j.add_addr)
      BY <1>1 DEF PassedOver
    <2>2. /\ FirstAddr(j) = {j.addr} \ {NoAddr} /\ Strings(j.remove_addr) = ToSet(j.remove_addr)
          /\ Strings(j.add_addr) = ToSet(j.add_addr)
      BY <2>1 DEF FirstAddr, Strings
    <2> QED  BY <1>1, <2>2 DEF Understood, Asked
  <1>2. CASE j.fn = "assignRoute"
    <2> DEFINE ad == ToSet(j.add_route6)
               de == ToSet(j.del_route6)
    <2>1. /\ \A e \in ad : e.dest # "none" /\ e.metric /\ e.via # "none" /\ e.flags
          /\ \A e \in de : e.dest # "none" /\ e.metric /\ e.via # "none"
      BY <1>2 DEF PassedOver
    <2> HIDE DEF ad, de
    <2>2. (\A e \in ad : Complete("addroute", e)) /\ (\A e \in de : Complete("delroute", e))
      BY <2>1 DEF Complete
    <2>3. /\ {e \in ad : Complete("addroute", e)} = ad
          /\ {e \in de : Complete("delroute", e)} = de
      BY <2>2
    <2>4. /\ DestsOf("addroute", j.add_route6) = {e.dest : e \in ad}
          /\ DestsOf("delroute", j.del_route6) = {e.dest : e \in de}
      BY <2>3 DEF DestsOf, ad, de
    <2> QED  BY <1>2, <2>4 DEF Understood, Asked, ad, de
  <1>3. CASE j.fn \notin {"assignAddress", "assignRoute"}  BY <1>3 DEF Understood
  <1> QED  BY <1>1, <1>2, <1>3

\* A call of network.cc that reports success, that no other process disturbed and of
\* which no part is passed over has done all it was asked to do and nothing else.
THEOREM SuccessIsCompleteAlways == Spec => []SuccessIsComplete
  <1>1. ProgInv /\ DoneInv => SuccessIsComplete
    <2> SUFFICES ASSUME ProgInv, DoneInv, ret = "ok", quiet, ~PassedOver(job)
                 PROVE  kern = Asked(job, base)
      BY DEF SuccessIsComplete
    <2>1. job # NoJob /\ ~err /\ prog = <<>> /\ EndsAsAsked  BY DEF DoneInv
    <2>2. job \in Jobs /\ IsInterface(base) /\ base.flags \subseteq Flags /\ IsInterface(kern)
      BY <2>1 DEF ProgInv, KernRecord, IsInterface
    <2>3. IsInterface(Understood(job, base)) /\ Achieves(<<>>, kern, Understood(job, base))
      BY <2>1, <2>2, ProgramOf DEF EndsAsAsked
    <2>4. \A op : ~Left(op, prog)
      <3>1. DOMAIN <<>> = {}  OBVIOUS
      <3> QED  BY <2>1, <3>1 DEF Left
    <2>5. kern.flags = Understood(job, base).flags
      <3>1. CASE job.fn = "assignAddress"
        <4>1. Understood(job, base).flags = base.flags  BY <2>2, <3>1, AddressAsked
        <4> QED  BY <2>1, <2>4, <3>1, <4>1 DEF EndsAsAsked, MacFlags, AssignFns
      <3>2. CASE job.fn = "assignRoute"
        <4>1. Understood(job, base).flags = base.flags  BY <2>2, <3>2, RouteAsked
        <4> QED  BY <2>1, <2>4, <3>2, <4>1 DEF EndsAsAsked, MacFlags, AssignFns
      <3>3. CASE job.fn \notin AssignFns  BY <2>1, <2>4, <3>3 DEF EndsAsAsked, SetFlags
      <3> QED  BY <3>1, <3>2, <3>3 DEF AssignFns
    <2>6. kern = Understood(job, base)  BY <2>2, <2>3, <2>5, AchievedAll
    <2> QED  BY <2>2, <2>6, UnderstoodAsAsked
  <1> QED  BY <1>1, InitProg, NextProg, InitDone, NextDone, PTL DEF Spec

-----------------------------------------------------------------------------
(* The number of the interface, and OneInterface *)

\* The number is forgotten only before the first address is added or removed.
ForgetFirst(p) ==
    \A m, n \in DOMAIN p : p[m].op = "forget" /\ p[n].op \in {"add", "remove"} => m < n

\* A second program that does not forget the number keeps the order.
LEMMA RowForget ==
    ASSUME NEW S, NEW p \in Seq(S), NEW q \in Seq(S),
           ForgetFirst(p), \A n \in DOMAIN q : q[n].op # "forget"
    PROVE  p \o q \in Seq(S) /\ ForgetFirst(p \o q)
  <1> DEFINE r == p \o q
  <1>1. /\ r \in Seq(S) /\ Len(p) \in Nat /\ DOMAIN p = 1..Len(p) /\ DOMAIN q = 1..Len(q)
        /\ \A i \in DOMAIN p : i \in DOMAIN r /\ r[i] = p[i]
        /\ \A i \in DOMAIN q : Len(p) + i \in DOMAIN r /\ r[Len(p) + i] = q[i]
        /\ \A i \in DOMAIN r :
              i \in DOMAIN p \/ (i > Len(p) /\ i - Len(p) \in DOMAIN q /\ i = Len(p) + (i - Len(p)))
    BY ONLY InARow, p \in Seq(S), q \in Seq(S)
  <1> HIDE DEF r
  <1>2. ASSUME NEW m \in DOMAIN r, NEW n \in DOMAIN r,
               r[m].op = "forget", r[n].op \in {"add", "remove"}
        PROVE  m < n
    <2>1. m \in DOMAIN p /\ r[m] = p[m]
      <3>1. CASE m > Len(p) /\ m - Len(p) \in DOMAIN q /\ m = Len(p) + (m - Len(p))
        <4>1. r[m] = q[m - Len(p)]  BY <1>1, <3>1
        <4> QED  BY <1>2, <3>1, <4>1
      <3> QED  BY <1>1, <3>1
    <2>2. CASE n \in DOMAIN p
      <3>1. r[n] = p[n]  BY <1>1, <2>2
      <3> QED  BY <1>2, <2>1, <2>2, <3>1 DEF ForgetFirst
    <2>3. CASE n > Len(p) /\ n - Len(p) \in DOMAIN q
      <3>1. m \in 1..Len(p)  BY <1>1, <2>1
      <3>2. n - Len(p) \in 1..Len(q)  BY <1>1, <2>3
      <3> QED  BY <1>1, <2>3, <3>1, <3>2
    <2> QED  BY <1>1, <2>2, <2>3
  <1>3. ForgetFirst(r)  BY <1>2 DEF ForgetFirst
  <1> QED  BY <1>1, <1>3 DEF r

\* Every call forgets the number only before the first address.
LEMMA ProgramForgets ==
    ASSUME NEW j \in Jobs, NEW k, IsInterface(k), k.flags \subseteq Flags
    PROVE  ForgetFirst(Program(j))
  <1>1. CASE j.fn = "assignAddress"
    <2> DEFINE mt == MtuSteps(j)
               mc == MacSteps(j)
               as == AddressSteps(j)
               mk == MaskSteps(j)
    <2>1. Program(j) = ((mt \o mc) \o as) \o mk  BY <1>1 DEF Program, AssignAddress
    <2>2. /\ mt \in Seq(AnyStep) /\ mk \in Seq(AnyStep)
          /\ \A n \in DOMAIN mt : mt[n].op \in {"index", "mtu", "forget"}
          /\ \A n \in DOMAIN mk : mk[n].op \in {"index", "mask"}
      BY <1>1, MtuMaskParts
    <2>3. mc \in Seq(AnyStep) /\ \A n \in DOMAIN mc : mc[n].op \in MacOps \cup {"mac", "fail"}
      BY <1>1, MacParts
    <2>4. as \in Seq(AnyStep) /\ \A n \in DOMAIN as : as[n].op \in {"pass", "index", "add", "remove"}
      BY <1>1, AddressParts
    <2> HIDE DEF mt, mc, as, mk
    <2>5. ForgetFirst(mt)  BY <2>2 DEF ForgetFirst
    <2>6. /\ \A n \in DOMAIN mc : mc[n].op # "forget"
          /\ \A n \in DOMAIN as : as[n].op # "forget"
          /\ \A n \in DOMAIN mk : mk[n].op # "forget"
      BY <2>2, <2>3, <2>4 DEF MacOps
    <2>7. mt \o mc \in Seq(AnyStep) /\ ForgetFirst(mt \o mc)  BY <2>2, <2>3, <2>5, <2>6, RowForget
    <2>8. (mt \o mc) \o as \in Seq(AnyStep) /\ ForgetFirst((mt \o mc) \o as)
      BY <2>4, <2>6, <2>7, RowForget
    <2>9. ForgetFirst(((mt \o mc) \o as) \o mk)  BY <2>2, <2>6, <2>8, RowForget
    <2> QED  BY <2>1, <2>9
  <1>2. CASE j.fn = "assignRoute"
    <2> DEFINE ad == RouteSteps("addroute", j.add_route6)
               de == RouteSteps("delroute", j.del_route6)
               ms == IF j.delIsArray THEN RouteSteps("msgroute", j.msg_route6) ELSE <<>>
    <2>1. j.add_route6 \in Seq(Entries) /\ j.del_route6 \in Seq(Entries) /\ j.msg_route6 \in Seq(Entries)
      BY <1>2, RouteJobs
    <2>2. Program(j) = (ad \o de) \o ms  BY <1>2 DEF Program, AssignRoute
    <2>3. /\ ad \in Seq(AnyStep) /\ \A n \in DOMAIN ad : ad[n].op \in {"pass", "addroute"}
          /\ de \in Seq(AnyStep) /\ \A n \in DOMAIN de : de[n].op \in {"pass", "delroute"}
      BY <2>1, RouteEffect
    <2>4. ms \in Seq(AnyStep) /\ \A n \in DOMAIN ms : ms[n].op \in {"pass", "msgroute"}
      <3>1. <<>> \in Seq(AnyStep) /\ DOMAIN <<>> = {}  BY EmptySeq
      <3> QED  BY <2>1, <3>1, RouteEffect
    <2> HIDE DEF ad, de, ms
    <2>5. ForgetFirst(ad)  BY <2>3 DEF ForgetFirst
    <2>6. (\A n \in DOMAIN de : de[n].op # "forget") /\ (\A n \in DOMAIN ms : ms[n].op # "forget")
      BY <2>3, <2>4
    <2>7. ad \o de \in Seq(AnyStep) /\ ForgetFirst(ad \o de)  BY <2>3, <2>5, <2>6, RowForget
    <2>8. ForgetFirst((ad \o de) \o ms)  BY <2>4, <2>6, <2>7, RowForget
    <2> QED  BY <2>2, <2>8
  <1>3. CASE j.fn \notin AssignFns
    <2>1. FlagOrder(Program(j))  BY <1>3, FlagsAsked
    <2> QED  BY <2>1 DEF FlagOrder, FlagOps, ForgetFirst
  <1> QED  BY <1>1, <1>2, <1>3 DEF AssignFns

\* What is left of a program keeps the order; after an address nothing is forgotten.
LEMMA RestForgets ==
    ASSUME NEW p \in Seq(AnyStep), p # <<>>, ForgetFirst(p)
    PROVE  /\ ForgetFirst(Tail(p))
           /\ Left("forget", Tail(p)) => Left("forget", p)
           /\ Head(p).op \in {"add", "remove"} => ~Left("forget", Tail(p))
           /\ Head(p).op = "forget" => Left("forget", p)
  <1> DEFINE t == Tail(p)
             h == Head(p)
  <1>1. /\ 1 \in DOMAIN p /\ p[1] = h
        /\ \A n \in DOMAIN t : n \in Nat \ {0} /\ n + 1 \in DOMAIN p /\ p[n + 1] = t[n]
    BY Rest
  <1> HIDE DEF t, h
  <1>2. \A m, n \in DOMAIN t : m + 1 < n + 1 => m < n  BY <1>1
  <1>3. ForgetFirst(t)  BY <1>1, <1>2 DEF ForgetFirst
  <1>4. Left("forget", t) => Left("forget", p)  BY <1>1 DEF Left
  <1>5. \A n \in DOMAIN t : ~(n + 1 < 1)  BY <1>1
  <1>6. h.op \in {"add", "remove"} => ~Left("forget", t)  BY <1>1, <1>5 DEF Left, ForgetFirst
  <1>7. h.op = "forget" => Left("forget", p)  BY <1>1 DEF Left
  <1> QED  BY <1>3, <1>4, <1>6, <1>7 DEF t, h

\* Once an address has been changed, the number of the interface stays known.
HitInv ==
    /\ job # NoJob => ForgetFirst(prog)
    /\ hit # {} => hit = {index} /\ index # 0 /\ ~Left("forget", prog)

\* No call has been made at first.
LEMMA InitHit == Init => HitInv
  BY DEF Init, HitInv

\* The steps preserve HitInv.
LEMMA NextHit == ProgInv /\ HitInv /\ [Next]_vars => HitInv'
  <1> SUFFICES ASSUME ProgInv, HitInv, [Next]_vars PROVE HitInv'  OBVIOUS
  <1>1. ASSUME NEW j \in Jobs, Begin(j) PROVE HitInv'
    <2>1. prog' = Program(j) /\ hit' = {}  BY <1>1 DEF Begin
    <2>2. IsInterface(kern) /\ kern.flags \subseteq Flags  BY DEF ProgInv, KernRecord, IsInterface
    <2> QED  BY <2>1, <2>2, ProgramForgets DEF HitInv
  <1>2. ASSUME Running, prog # <<>>, Ahead
        PROVE  /\ ForgetFirst(prog') /\ (Left("forget", prog') => Left("forget", prog))
               /\ Step.op \in {"add", "remove"} => ~Left("forget", prog')
               /\ Step.op = "forget" => Left("forget", prog)
    <2>1. prog \in Seq(AnyStep) /\ ForgetFirst(prog)  BY <1>2 DEF ProgInv, HitInv, Running
    <2> QED  BY <1>2, <2>1, RestForgets DEF Ahead, Step
  <1>3. ASSUME Running, prog # <<>>, Ahead, UNCHANGED <<index, hit>> PROVE HitInv'
    BY <1>2, <1>3 DEF HitInv
  <1>4. CASE Skip \/ GetFlags \/ AlreadyDown \/ Fails
    BY <1>3, <1>4 DEF Skip, GetFlags, AlreadyDown, Fails, Changes
  <1>5. CASE LookUp
    <2>1. /\ Running /\ prog # <<>> /\ Ahead /\ hit' = hit
          /\ index' = IF Step.op = "forget" THEN 0 ELSE IF index = 0 THEN kern.idx ELSE index
      BY <1>5 DEF LookUp
    <2> QED  BY <1>2, <2>1 DEF HitInv
  <1>6. CASE Succeeds
    <2>1. /\ Running /\ prog # <<>> /\ Ahead /\ index' = index
          /\ hit' = IF Step.op \in {"add", "remove"} THEN hit \cup {kern.idx} ELSE hit
          /\ kern.idx # 0 /\ (Step.op \in {"add", "remove"} => index = kern.idx)
      BY <1>6 DEF Succeeds, Changes, Possible
    <2>2. CASE Step.op \in {"add", "remove"}
      <3>1. hit' = {index'} /\ index' # 0  BY <2>1, <2>2 DEF HitInv
      <3> QED  BY <1>2, <2>1, <2>2, <3>1 DEF HitInv
    <2>3. CASE Step.op \notin {"add", "remove"}  BY <1>3, <2>1, <2>3
    <2> QED  BY <2>2, <2>3
  <1>7. ASSUME UNCHANGED <<job, prog, index, hit>> PROVE HitInv'  BY <1>7 DEF HitInv
  <1>8. CASE Return \/ UNCHANGED vars  BY <1>7, <1>8 DEF Return, vars
  <1>9. CASE \/ \E fs \in SUBSET Flags : OtherSetsFlags(fs)
             \/ \E a \in Addrs : OtherTogglesAddr(a)
             \/ OtherRemoves \/ OtherCreates
    BY <1>7, <1>9 DEF OtherSetsFlags, OtherTogglesAddr, OtherRemoves, OtherCreates, Other
  <1> QED  BY <1>1, <1>4, <1>5, <1>6, <1>8, <1>9 DEF Next

\* The addresses one call adds and removes are those of one interface, whatever other
\* processes do to the interface of that name meanwhile.
THEOREM OneInterfaceAlways == Spec => []OneInterface
  <1>1. HitInv => OneInterface
    <2> SUFFICES ASSUME HitInv, NEW m \in hit, NEW n \in hit PROVE m = n  BY DEF OneInterface
    <2>1. hit = {index}  BY DEF HitInv
    <2> QED  BY <2>1
  <1> QED  BY <1>1, InitProg, NextProg, InitHit, NextHit, PTL DEF Spec
=============================================================================
