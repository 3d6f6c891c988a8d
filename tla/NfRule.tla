------------------------------- MODULE NfRule -------------------------------
(***************************************************************************)
(* A netfilter command from its text to the kernel and back: nfcommand.js  *)
(* parses the text (NfGrammar) and turns the parameters into attributes    *)
(* (NfAttributes); the kernel reads them, runs the rule on packets, and    *)
(* lists it to parseAttrs of nl/nfnetlink.js.                              *)
(*                                                                         *)
(* What the caller means is a record; its spelling is the text, with every *)
(* optional blank left out or every blank doubled.  A slip is a text that  *)
(* lacks one lexeme.  The kernel (external) reads attributes by following  *)
(* the length fields, with attribute numbers of its own.                   *)
(***************************************************************************)
EXTENDS NfGrammar, NfAttributes, Bitwise

CONSTANTS
    Written,  \* commands: [op, fam, ty, tab, ch, hook, proto, crit, act]
    Slipped,  \* commands that are also tried with a lexeme missing
    UserData, \* lengths of the user data of a listed rule; 0 for none
    Packets   \* [net, tra]: bytes of the network and transport headers

VARIABLES
    cmd,     \* what the caller means
    slip,    \* the text lacks a lexeme
    text,    \* what the caller gives
    phase,   \* "given", "refused", "parsed", "sent", "received", "listed"
    parsed,  \* result of the parser
    array,   \* the attributes in the message
    kern,    \* the attributes as the kernel reads them
    listed   \* what parseAttrs made of the kernel's list: field to data

vars == <<cmd, slip, text, phase, parsed, array, kern, listed>>

-----------------------------------------------------------------------------
(* Spelling. *)

RECURSIVE Decimal(_)
Decimal(n) == (IF n < 10 THEN <<>> ELSE Decimal(n \div 10)) \o <<Hex[(n % 10) + 1]>>

Dotted(octs) ==
    FlattenSeq([i \in 1..4 |-> Decimal(octs[i]) \o (IF i < 4 THEN <<".">> ELSE <<>>)])

\* A value is a decimal or hexadecimal number, a network, a host or an IPv6 address.
SpellValue(v) ==
    CASE v.kind = "decimal" -> v.digits
      [] v.kind = "hex" -> <<"0", "x">> \o v.digits
      [] v.kind = "net" -> Dotted(v.octs) \o <<"/">> \o Decimal(v.bits)
      [] v.kind = "host" -> Dotted(v.octs)
      [] v.kind = "ipv6" -> <<"f", "e", ":", ":", "1", "/">> \o Decimal(v.bits)

\* sp is a blank the grammar asks for, opt one that it allows.
Spell(c, sp, opt) ==
    LET crit == [i \in DOMAIN c.crit |-> <<c.crit[i].on>> \o sp \o SpellValue(c.crit[i].val) \o sp]
        tail ==
            CASE c.ty = "table" -> sp \o <<c.tab>> \o opt
              [] c.ty = "chain" ->
                   sp \o <<c.tab>> \o sp \o <<c.ch>> \o opt \o <<"{">> \o opt \o <<"type">> \o sp
                   \o <<c.hook.ty>> \o sp \o <<"hook">> \o sp \o <<c.hook.num>> \o sp
                   \o <<"priority">> \o sp \o Decimal(c.hook.prio) \o opt \o <<"}">>
              [] c.ty = "rule" /\ c.crit = <<>> -> opt
              [] c.ty = "rule" /\ c.crit # <<>> ->
                   opt \o <<c.tab>> \o sp \o <<c.ch>> \o sp \o <<c.proto>> \o sp
                   \o FlattenSeq(crit) \o <<c.act>>
        fam == CASE c.fam = "none" -> <<>> [] c.fam = "ip" -> <<"ip">> \o sp
                 [] c.fam = "ip6" -> <<"ip", "6">> \o sp
    IN  <<c.op>> \o sp \o fam \o <<c.ty>> \o tail

Tight(c) == Spell(c, <<" ">>, <<>>)
Wide(c) == Spell(c, <<" ", " ">>, <<" ", " ">>)

-----------------------------------------------------------------------------
Init ==
    /\ \/ cmd \in Written /\ slip = FALSE /\ text \in {Tight(cmd), Wide(cmd)}
       \/ /\ cmd \in Slipped /\ slip = TRUE
          /\ \E k \in 1..Len(Tight(cmd)) : text = RemoveAt(Tight(cmd), k)
    /\ phase = "given"
    /\ parsed = [out |-> "none"]
    /\ array = <<>>
    /\ kern = <<>>
    /\ listed = <<>>

\* parser.parse in command; what it throws goes to the caller.
ParseText ==
    /\ phase = "given"
    /\ parsed' = Parse(text)
    /\ phase' = IF parsed'.out = "ok" THEN "parsed" ELSE "refused"
    /\ UNCHANGED <<cmd, slip, text, array, kern, listed>>

\* The rest of command: the attributes are built and written into the message.
Send ==
    /\ phase = "parsed"
    /\ \E garbage \in {0, 255} :
         array' = Attributes(parsed.command.type, parsed.command.params, garbage)
    /\ phase' = "sent"
    /\ UNCHANGED <<cmd, slip, text, parsed, kern, listed>>

-----------------------------------------------------------------------------
(* The kernel. *)

\* Numbers of the attributes in linux/netfilter/nf_tables.h.
KernelAttrs ==
    [table |-> <<"NAME", "FLAGS", "USE">>,
     chain |-> <<"TABLE", "HANDLE", "NAME", "HOOK", "POLICY", "USE", "TYPE", "COUNTERS">>,
     rule |-> <<"TABLE", "CHAIN", "HANDLE", "EXPRESSIONS", "COMPAT", "POSITION", "USERDATA">>,
     hook |-> <<"HOOKNUM", "PRIORITY">>, list |-> <<"ELEM">>, expr |-> <<"NAME", "DATA">>,
     payload |-> <<"DREG", "BASE", "OFFSET", "LEN">>, cmp |-> <<"SREG", "OP", "DATA">>,
     bitwise |-> <<"SREG", "DREG", "LEN", "MASK", "XOR">>, immediate |-> <<"DREG", "DATA">>,
     data |-> <<"VALUE", "VERDICT">>, verdict |-> <<"CODE", "CHAIN">>]

\* What the kernel looks for inside an attribute; an expression's data is read by
\* the name in front of it.
Inside(kind, key, before) ==
    CASE key = "HOOK" -> "hook" [] key = "EXPRESSIONS" -> "list" [] key = "ELEM" -> "expr"
      [] key = "VERDICT" -> "verdict" [] key \in {"MASK", "XOR"} -> "data"
      [] key = "DATA" /\ kind \in {"cmp", "immediate"} -> "data"
      [] key = "DATA" /\ kind = "expr" -> before[1]
      [] OTHER -> "plain"

Garbled == <<[key |-> "garbled", str |-> <<>>, bytes |-> <<>>, sub |-> <<>>]>>

\* Where every buffer starts, and where the last one ends.
Offsets(a) ==
    LET off[i \in 1..(Len(a) + 1)] == IF i = 1 THEN 0 ELSE off[i - 1] + a[i - 1].size IN off

\* The attributes of an object of this kind in the buffers from..to.  Each ends
\* where its length field says, or nowhere if that is inside a buffer.
RECURSIVE ReadAttrs(_, _, _, _, _)
ReadAttrs(a, off, from, to, kind) ==
    LET E == {e \in from..to : off[e + 1] = off[from] + Align(a[from].len)}
        end == CHOOSE e \in E : TRUE
        key == KernelAttrs[kind][a[from].type]
        inside == Inside(kind, key, IF from = 1 THEN <<>> ELSE a[from - 1].str)
        sub == IF inside = "plain" THEN <<>> ELSE ReadAttrs(a, off, from + 1, end, inside)
    IN  CASE from > to -> <<>>
          [] from <= to /\ (E = {} \/ a[from].type \notin DOMAIN KernelAttrs[kind]) -> Garbled
          [] OTHER ->
               <<[key |-> key, str |-> a[from].str, bytes |-> a[from].bytes, sub |-> sub]>>
               \o ReadAttrs(a, off, end + 1, to, kind)

\* The kernel takes the message.
Receive ==
    /\ phase = "sent"
    /\ kern' = ReadAttrs(array, Offsets(array), 1, Len(array), parsed.command.type)
    /\ phase' = "received"
    /\ UNCHANGED <<cmd, slip, text, parsed, array, listed>>

RECURSIVE IsGarbled(_)
IsGarbled(attrs) == \E i \in DOMAIN attrs : attrs[i].key = "garbled" \/ IsGarbled(attrs[i].sub)

\* The attribute with this key, and its value as a number.
Nla(attrs, key) == attrs[CHOOSE i \in DOMAIN attrs : attrs[i].key = key]
NlaNumber(attrs, key) == FoldLeft(LAMBDA n, b : 256 * n + b, 0, Nla(attrs, key).bytes)
Keys(attrs) == {attrs[i].key : i \in DOMAIN attrs}

\* One expression on a packet: what is in register 1, and the verdict so far.
RunExpr(r, elem, pkt) ==
    LET d == Nla(elem.sub, "DATA").sub
        nm == Nla(elem.sub, "NAME").str[1]
        at == NlaNumber(d, "OFFSET")
        n == NlaNumber(d, "LEN")
        hdr == IF NlaNumber(d, "BASE") = 1 THEN pkt.net ELSE pkt.tra
        mask == Nla(Nla(d, "MASK").sub, "VALUE").bytes
        xor == Nla(Nla(d, "XOR").sub, "VALUE").bytes
        want == Nla(Nla(d, "DATA").sub, "VALUE").bytes
    IN  CASE r.verdict # "continue" -> r
          [] nm = "payload" /\ at + n > Len(hdr) -> [r EXCEPT !.verdict = "break"]
          [] nm = "payload" /\ at + n <= Len(hdr) -> [r EXCEPT !.reg = SubSeq(hdr, at + 1, at + n)]
          [] nm = "bitwise" ->
               [r EXCEPT !.reg = [i \in 1..n |-> (r.reg[i] & mask[i]) ^^ xor[i]]]
          [] nm = "cmp" ->
               IF Len(want) <= Len(r.reg) /\ SubSeq(r.reg, 1, Len(want)) = want THEN r
               ELSE [r EXCEPT !.verdict = "break"]
          [] nm = "immediate" ->
               LET code == NlaNumber(Nla(Nla(d, "DATA").sub, "VERDICT").sub, "CODE")
               IN  [r EXCEPT !.verdict = IF code = 0 THEN "drop" ELSE "accept"]

\* The verdict of the rule that was received.
Verdicts(pkt) ==
    LET Step(r, elem) == RunExpr(r, elem, pkt)
    IN  FoldLeft(Step, [reg |-> <<0, 0, 0, 0>>, verdict |-> "continue"],
                 Nla(kern, "EXPRESSIONS").sub).verdict

-----------------------------------------------------------------------------
(* The list of a rule. *)

\* A rule as the kernel lists it, with the user data of n bytes another program
\* may have given it (none for 0).
KernelList(n) ==
    LET exprs == array[CHOOSE i \in DOMAIN array : array[i].type = 4 /\ array[i].nested]
    IN  <<Plain(1, StringLen(<<cmd.tab>>), <<cmd.tab>>, <<>>),
          Plain(2, StringLen(<<cmd.ch>>), <<cmd.ch>>, <<>>),
          Plain(3, 8, <<>>, BigEndian(7, 8)),
          Plain(4, exprs.len - 4, <<>>, <<>>)>>
        \o (IF n = 0 THEN <<>> ELSE <<Plain(7, n, <<>>, <<>>)>>)

\* The next attribute is looked for where the length of this one ends.
RoundLenBare(len) == len

\* round_len: where the next attribute starts.
RoundLen(len) == len + (IF len % 4 = 0 THEN 0 ELSE 4 - (len % 4))

\* parseAttrs: the fields of a rule, each with the data of its attribute, or only
\* with the header if the attribute is all that remains of the message.
RECURSIVE parseAttrs(_, _)
parseAttrs(a, index) ==
    LET total_len == SizeOf(a, 1, Len(a))
        I == {i \in DOMAIN a : SizeOf(a, 1, i - 1) = index}
        attr == a[CHOOSE i \in I : TRUE]
        part == IF attr.len = total_len - index THEN "header" ELSE "data"
    IN  CASE index >= total_len -> {}
          [] index < total_len /\ I = {} -> {<<"garbled", "data", <<>>>>}
          [] OTHER -> {<<nft_rule_attributes[attr.type].key, part, attr.str>>}
                      \cup parseAttrs(a, index + RoundLen(attr.len))

\* The answer to "list rule" after the rule was added.
ListRule(n) ==
    /\ phase = "received" /\ ~slip
    /\ cmd.op = "add" /\ cmd.ty = "rule" /\ cmd.crit # <<>>
    /\ listed' = parseAttrs(KernelList(n), 0)
    /\ phase' = "listed"
    /\ UNCHANGED <<cmd, slip, text, parsed, array, kern>>

Next == ParseText \/ Send \/ Receive \/ \E n \in UserData : ListRule(n)

Spec == Init /\ [][Next]_vars

-----------------------------------------------------------------------------
(* What a command means. *)

Width == [dport |-> 2, prot |-> 1, saddr |-> 4, daddr |-> 4]

NumberOf(v) == Number(v.digits, IF v.kind = "hex" THEN 16 ELSE 10)

\* The field of a packet that a criterion is about.
FieldOf(on, pkt) ==
    CASE on = "dport" -> SubSeq(pkt.tra, 3, 4)
      [] on = "saddr" -> SubSeq(pkt.net, 13, 16)
      [] on = "daddr" -> SubSeq(pkt.net, 17, 20)

\* Bits of the ith byte of an address that are behind the prefix.
HostBits(bits, i) ==
    CASE bits >= 8 * i -> 0 [] bits <= 8 * (i - 1) -> 8 [] OTHER -> 8 * i - bits

\* Two addresses agree in the prefix.
SameNet(a, b, bits) ==
    \A i \in 1..4 : a[i] \div 2^HostBits(bits, i) = b[i] \div 2^HostBits(bits, i)

Holds(k, pkt) ==
    IF k.val.kind = "net" THEN SameNet(FieldOf(k.on, pkt), k.val.octs, k.val.bits)
    ELSE FieldOf(k.on, pkt) = BigEndian(NumberOf(k.val), Width[k.on])

Meaning(c, pkt) ==
    IF /\ pkt.net[10] = (IF c.proto = "tcp" THEN 6 ELSE 17)
       /\ \A i \in DOMAIN c.crit : Holds(c.crit[i], pkt)
    THEN c.act ELSE "break"

\* A value that the parser and getGenericBuffer have a buffer for.
HasBuffer(k) ==
    CASE k.val.kind = "net" -> \A i \in 1..4 : k.val.octs[i] < 256
      [] k.val.kind = "decimal" -> Width[k.on] = 4 \/ NumberOf(k.val) < 256^Width[k.on]
      [] k.val.kind = "hex" -> TRUE
      [] OTHER -> FALSE

\* A criterion that is compiled as it is written: not "prot", which is looked for
\* in the transport header; a hexadecimal number of one digit; a network without
\* host bits, as wide as the field.
AsWritten(k) ==
    /\ HasBuffer(k) /\ k.on # "prot"
    /\ k.val.kind = "hex" => Len(k.val.digits) = 1
    /\ k.val.kind = "net" =>
         /\ k.on \in {"saddr", "daddr"} /\ k.val.bits <= 32
         /\ \A i \in 1..4 : k.val.octs[i] % 2^HostBits(k.val.bits, i) = 0

-----------------------------------------------------------------------------
\* A text that the parser calls a syntax error is none that another choice of
\* alternatives would have read: the first alternative that matches never hides
\* the one that was meant (peg$parsefamily, peg$parsenumber, peg$parsecommand).
ChoiceLosesNothing == parsed.out = "syntax" => ~Derivable(text)

\* A command is taken, with any spacing, if its values have a buffer, and the
\* kernel that follows the length fields finds the operation, family and names
\* that were written, the hook of a chain, and all expressions of a rule; a text
\* that was taken by mistake is at least not garbled (parse, parseNfAttrs,
\* updateNestHdrLen, setBuffer).
KernelReadsCommand ==
    LET c == parsed.command
        hook == Nla(kern, "HOOK").sub
    IN  /\ ~slip /\ phase = "refused" => \E i \in DOMAIN cmd.crit : ~HasBuffer(cmd.crit[i])
        /\ phase = "received" => ~IsGarbled(kern)
        /\ ~slip /\ phase = "received" =>
             /\ c.command = cmd.op /\ c.type = cmd.ty
             /\ c.family = IF cmd.fam = "none" THEN "ip" ELSE cmd.fam
             /\ cmd.ty = "table" =>
                  Keys(kern) = {"NAME"} /\ Nla(kern, "NAME").str = <<cmd.tab>>
             /\ cmd.ty = "chain" =>
                  /\ Keys(kern) = {"TABLE", "NAME", "TYPE", "HOOK"}
                  /\ Nla(kern, "TABLE").str = <<cmd.tab>>
                  /\ Nla(kern, "NAME").str = <<cmd.ch>>
                  /\ Nla(kern, "TYPE").str = <<cmd.hook.ty>>
                  /\ cmd.hook.num = HookNums[NlaNumber(hook, "HOOKNUM") + 1]
                  /\ cmd.hook.prio = NlaNumber(hook, "PRIORITY")
             /\ cmd.ty = "rule" /\ cmd.crit # <<>> =>
                  /\ Keys(kern) = {"TABLE", "CHAIN", "EXPRESSIONS"}
                  /\ Nla(kern, "TABLE").str = <<cmd.tab>>
                  /\ Nla(kern, "CHAIN").str = <<cmd.ch>>
                  /\ Len(Nla(kern, "EXPRESSIONS").sub) =
                       3 + FoldLeft(LAMBDA n, k : n + (IF k.val.kind = "net" THEN 3 ELSE 2), 0, cmd.crit)

\* A rule gives every packet the verdict its text promises: the payload that is
\* loaded, the mask and the value are those of the criterion, whatever criteria
\* come before it (rule_expression, payload_len, maskFromCidr, getGenericBuffer).
RuleMeansAsWritten ==
    (/\ phase = "received" /\ ~slip
     /\ cmd.ty = "rule" /\ cmd.crit # <<>> /\ cmd.fam # "ip6"
     /\ \A i \in DOMAIN cmd.crit : AsWritten(cmd.crit[i]))
    => \A pkt \in Packets : Verdicts(pkt) = Meaning(cmd, pkt)

\* The names of a listed rule come back whole, whatever the lengths of the
\* attributes, and its expressions do when user data follows them; as the last
\* attribute they are only a header (parseAttrs).
ListedBack ==
    phase = "listed" =>
      /\ {<<"TABLE", "data", <<cmd.tab>>>>, <<"CHAIN", "data", <<cmd.ch>>>>,
          <<"HANDLE", "data", <<>>>>} \subseteq listed
      /\ <<"EXPRESSIONS", "data", <<>>>> \in listed <=> \E x \in listed : x[1] = "USERDATA"
      /\ ~\E x \in listed : x[1] = "garbled"
=============================================================================
