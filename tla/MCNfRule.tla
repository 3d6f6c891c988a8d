------------------------------ MODULE MCNfRule ------------------------------
(* Constants for model checking NfRule. *)
EXTENDS NfRule

NoValue == [kind |-> "decimal", digits |-> <<>>, octs |-> <<0, 0, 0, 0>>, bits |-> 0]
Dec(ds) == [NoValue EXCEPT !.digits = ds]
HexNum(ds) == [NoValue EXCEPT !.kind = "hex", !.digits = ds]
Net(o, b) == [NoValue EXCEPT !.kind = "net", !.octs = o, !.bits = b]
Host(o) == [NoValue EXCEPT !.kind = "host", !.octs = o]
V6(b) == [NoValue EXCEPT !.kind = "ipv6", !.bits = b]

\* Criteria the compiler handles, and ones it does not: two hexadecimal digits,
\* numbers above the field, host bits, prefixes above 32, octets above 255.
GoodCriteria ==
    ({"dport"} \X {Dec(<<"2", "2">>), Dec(<<"6", "5", "5", "3", "5">>), HexNum(<<"9">>)})
    \cup ({"saddr"} \X {Net(<<192, 168, 56, 0>>, 23), Net(<<10, 0, 0, 0>>, 8), Dec(<<"7">>)})
    \cup ({"daddr"} \X {Net(<<192, 168, 56, 1>>, 32), Net(<<0, 0, 0, 0>>, 0)})
OddCriteria ==
    ({"dport"} \X {HexNum(<<"1", "6">>), Dec(<<"6", "5", "5", "3", "6">>)})
    \cup ({"saddr"} \X {Net(<<10, 1, 0, 0>>, 8), Net(<<10, 0, 0, 1>>, 40), Net(<<256, 0, 0, 0>>, 8),
                       Host(<<10, 0, 0, 1>>), V6(64)})
    \cup ({"prot"} \X {Dec(<<"6">>), Dec(<<"2", "5", "6">>)})
Criteria(S) == {[on |-> x[1], val |-> x[2]] : x \in S}

NoHook == [ty |-> "filter", num |-> "input", prio |-> 0]
Base == [op |-> "add", fam |-> "none", ty |-> "table", tab |-> "fw", ch |-> "edge",
         hook |-> NoHook, proto |-> "tcp", crit |-> <<>>, act |-> "drop"]

\* Every operation on a table and without parameters, every hook, and rules of one
\* or two criteria.
TableCommands ==
    {[Base EXCEPT !.op = o, !.fam = f, !.ty = t, !.tab = n] :
       o \in {"add", "del", "list", "get", "flush"}, f \in {"none", "ip", "ip6"},
       t \in {"table", "rule"}, n \in Names}
ChainCommands ==
    {[Base EXCEPT !.ty = "chain", !.fam = f, !.tab = n,
                  !.hook = [ty |-> t, num |-> h, prio |-> p]] :
       f \in {"none", "ip6"}, n \in Names, t \in {"filter", "route", "nat"},
       h \in {"prerouting", "input", "forward", "output", "postrouting"}, p \in {0, 100}}
Rules(fs, ns, Cs) ==
    {[Base EXCEPT !.ty = "rule", !.fam = f, !.tab = n, !.proto = p, !.crit = c, !.act = a] :
       f \in fs, n \in ns, p \in {"tcp", "udp"}, c \in Cs, a \in {"drop", "accept"}}
Singles(S) == {<<c>> : c \in Criteria(S)}
Pairs == {<<c, d>> : c \in Criteria(GoodCriteria), d \in Criteria(GoodCriteria)}

MCWritten ==
    TableCommands \cup ChainCommands
    \cup Rules({"none", "ip", "ip6"}, Names, Singles(GoodCriteria \cup OddCriteria))
    \cup Rules({"none"}, {"fw"}, Pairs)
MCSlipped ==
    {c \in TableCommands : c.tab = "fw"}
    \cup {c \in ChainCommands : c.tab = "fw" /\ c.hook = NoHook}
    \cup {c \in Rules({"none", "ip6"}, {"fw"}, Singles(GoodCriteria \cup OddCriteria)) : c.act = "drop"}

\* Headers of packets: the fields the criteria are about vary, the others are zero.
Packet(pr, s, d, port) ==
    [net |-> [i \in 1..9 |-> 0] \o <<pr, 0, 0>> \o s \o d, tra |-> <<4, 1>> \o port]
MCPackets ==
    {Packet(pr, s, d, port) :
       pr \in {6, 17}, s \in {<<192, 168, 57, 9>>, <<192, 168, 58, 9>>, <<10, 2, 3, 4>>, <<0, 0, 0, 7>>},
       d \in {<<192, 168, 56, 1>>, <<192, 168, 56, 2>>}, port \in {<<0, 22>>, <<255, 255>>, <<0, 9>>}}
=============================================================================
