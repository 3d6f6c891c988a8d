----------------------------- MODULE NfGrammar ------------------------------
(***************************************************************************)
(* The command language of nnf: the parser nf/node-netfilter.js, generated *)
(* by PEG.js from nf/node-netfilter.pegjs.                                 *)
(*                                                                         *)
(* A text is a sequence of lexemes: words, digits, blanks and punctuation, *)
(* one string each.  A word of the text may consist of several lexemes;    *)
(* the literals of the grammar end where a lexeme ends.  A rule of the     *)
(* grammar is a parsing expression, kept as data; Match interprets it the  *)
(* way the generated functions work: a choice takes the first alternative  *)
(* that succeeds and never comes back to it, repetition is greedy, and the *)
(* semantic action of a rule runs as soon as the rule has matched, also    *)
(* when an enclosing rule fails later.                                     *)
(*                                                                         *)
(* The result of a parse is the command with its parameters, an object     *)
(* that nf/nfattributes.js turns into attributes.  An entry of an object   *)
(* has a key (in upper case) and a value, or entries of its own.           *)
(***************************************************************************)
EXTENDS Integers, Sequences, SequencesExt, NfTables

CONSTANT Names  \* words that are not keywords

Hex == <<"0", "1", "2", "3", "4", "5", "6", "7", "8", "9", "a", "b", "c", "d", "e", "f">>
Digits == {Hex[i] : i \in 1..10}
HexDigits == Range(Hex)
Letters == Names \cup (HexDigits \ Digits) \cup
    {"add", "del", "list", "get", "flush", "ip", "table", "chain", "rule", "type", "hook",
     "priority", "filter", "route", "nat", "prerouting", "input", "forward", "output",
     "postrouting", "tcp", "udp", "prot", "saddr", "daddr", "dport", "drop", "accept", "x"}

\* parseInt(digits.join(""), radix).
Number(digits, radix) ==
    FoldLeft(LAMBDA n, d : n * radix + (CHOOSE i \in 0..15 : Hex[i + 1] = d), 0, digits)

Leaf(k, v) == [key |-> k, sub |-> <<>>, val |-> v]
Nest(k, entries) == [key |-> k, sub |-> entries, val |-> 0]

-----------------------------------------------------------------------------
(* Parsing expressions. *)

Lit(lexemes) == [op |-> "lit", of |-> lexemes]
Class(S) == [op |-> "class", of |-> S]
Series(es) == [op |-> "series", of |-> es]
Choice(es) == [op |-> "choice", of |-> es]
Opt(e) == [op |-> "opt", of |-> e]
Many(e) == [op |-> "many", of |-> e]
Act(name, e) == [op |-> "act", of |-> e, name |-> name]

\* One or more; the value is the sequence of values.
Some(e) == Act("some", Series(<<e, Many(e)>>))

\* "_" and "__" of the grammar.
blanks == Some(Class({" "}))
blanks0 == Many(Class({" "}))

operation ==
    Act("operation",
        Series(<<Choice(<<Lit(<<"add">>), Lit(<<"del">>), Lit(<<"list">>), Lit(<<"get">>),
                          Lit(<<"flush">>)>>), blanks>>))

\* "ip" is tried before "ip6".
familyShortFirst == Act("family", Series(<<Choice(<<Lit(<<"ip">>), Lit(<<"ip", "6">>)>>), blanks>>))

family == Act("family", Series(<<Choice(<<Lit(<<"ip", "6">>), Lit(<<"ip">>)>>), blanks>>))

table == Act("word", Series(<<Some(Class(Letters)), blanks0>>))
chain == Act("word", Series(<<Some(Class(Letters)), Opt(blanks)>>))

hooktype == Choice(<<Lit(<<"filter">>), Lit(<<"route">>), Lit(<<"nat">>)>>)
hooknum ==
    Act("hooknum",
        Choice(<<Lit(<<"prerouting">>), Lit(<<"input">>), Lit(<<"forward">>), Lit(<<"output">>),
                 Lit(<<"postrouting">>)>>))
hookprio == Some(Class(Digits))

tcp == Act("tcp", Lit(<<"tcp">>))
udp == Act("udp", Lit(<<"udp">>))
protocol == Act("protocol", Series(<<Choice(<<tcp, udp>>), blanks>>))

saddr == Act("saddr", Lit(<<"saddr">>))
daddr == Act("daddr", Lit(<<"daddr">>))
ipprotocol == Act("ipprotocol", Lit(<<"prot">>))
dport == Act("dport", Lit(<<"dport">>))
network_header == Act("network_header", Series(<<Choice(<<saddr, daddr>>), blanks>>))
transport_header == Act("transport_header", Series(<<Choice(<<ipprotocol, dport>>), blanks>>))
field == Choice(<<transport_header, network_header>>)

hex == Act("hex", Series(<<Lit(<<"0", "x">>), Some(Class(HexDigits))>>))
decimal == Act("decimal", Some(Class(Digits)))

number == Act("number", Series(<<Choice(<<hex, decimal>>), blanks>>))

octets ==
    LET octet == Some(Class(Digits))
        dot == Lit(<<".">>)
    IN  Series(<<octet, dot, octet, dot, octet, dot, octet>>)
ipv4addr == Act("ipv4addr", octets)
ipv4cidr == Act("ipv4cidr", Series(<<Lit(<<"/">>), Class(Digits), Opt(Class(Digits))>>))
ipv6cidr ==
    Act("ipv6cidr",
        Series(<<Lit(<<"/">>), Class(Digits), Opt(Class(Digits)), Opt(Class(Digits))>>))
cidr == Act("cidr", Choice(<<ipv4cidr, ipv6cidr>>))
ipv4 == Act("address", Series(<<ipv4addr, cidr, blanks>>))

startquad == Act("startquad", Opt(Some(Class(HexDigits))))
contquad == Series(<<Lit(<<":">>), Some(Class(HexDigits))>>)
skipequad == Series(<<Lit(<<":", ":">>), Some(Class(HexDigits))>>)
nextequad == Choice(<<contquad, skipequad>>)
quads == Series(<<Opt(startquad), Many(nextequad)>>)
ipv6addr == Act("ipv6addr", quads)
ipv6 == Act("address", Series(<<ipv6addr, cidr, blanks>>))

address == Choice(<<ipv4, ipv6>>)
value == Choice(<<number, address>>)
rule_criteria == Act("rule_criteria", Series(<<field, value>>))

drop == Act("drop", Lit(<<"drop">>))
accept == Act("accept", Lit(<<"accept">>))
action == Choice(<<drop, accept>>)

table_expression == Act("table_expression", table)
hook_expression ==
    Act("hook_expression",
        Series(<<table, chain, Lit(<<"{">>), blanks0, Lit(<<"type">>), blanks, hooktype, blanks,
                 Lit(<<"hook">>), blanks, hooknum, blanks, Lit(<<"priority">>), blanks, hookprio,
                 blanks0, Lit(<<"}">>)>>))
rule_expression ==
    Act("rule_expression", Series(<<table, chain, protocol, Some(rule_criteria), action>>))

command_expression ==
    Choice(<<Act("table command", Series(<<Lit(<<"table">>), blanks, table_expression>>)),
             Act("chain command", Series(<<Lit(<<"chain">>), blanks, hook_expression>>)),
             Act("rule command", Series(<<Lit(<<"rule">>), blanks0, Opt(rule_expression)>>))>>)
start == Act("command", Series(<<operation, Opt(family), command_expression>>))
-----------------------------------------------------------------------------
(* Semantic actions.  payload_len is a variable of the parser that outlives *)
(* a failed alternative. *)

Ok(at, len, v) == [out |-> "ok", at |-> at, payload_len |-> len, val |-> v]
Failed(len) == [out |-> "failed", at |-> 0, payload_len |-> len, val |-> <<>>]
Thrown == [out |-> "thrown", at |-> 0, payload_len |-> 0, val |-> <<>>]

\* The initializer of the parser; nothing ever changes it.
ipfamily == "ip"

Elem(name, data) == Nest("ELEM", <<Leaf("NAME", <<name>>), Nest("DATA", data)>>)
Load(base, offset, len) ==
    Elem("payload", <<Leaf("DREG", NFT_REG_1), Leaf("BASE", base), Leaf("OFFSET", offset),
                      Leaf("LEN", len)>>)
\* Generic data is given as the hexadecimal digits after "0x".
Compare(nibbles) ==
    Elem("cmp", <<Leaf("SREG", NFT_REG_1), Leaf("OP", NFT_CMP_EQ),
                  Nest("DATA", <<Leaf("VALUE", nibbles)>>)>>)
Verdict(code) ==
    Elem("immediate", <<Leaf("DREG", NFT_REG_VERDICT),
                        Nest("DATA", <<Nest("VERDICT", <<Leaf("CODE", code)>>)>>)>>)

Nibbles(bytes) == FlattenSeq([i \in DOMAIN bytes |-> <<bytes[i] \div 16, bytes[i] % 16>>])

\* num.toString(16), filled up with zeros to the length of the field.
Padded(n, len) ==
    LET k == CHOOSE k \in 1..7 : n < 16^k /\ (k = 1 \/ n >= 16^(k - 1))
        w == IF k < 2 * len THEN 2 * len ELSE k
    IN  [i \in 1..w |-> IF w - i > 6 THEN 0 ELSE (n \div 16^(w - i)) % 16]

\* maskFromCidr leaves no bit of the last byte out.
maskWholeBytes(bits, size) == [i \in 1..size |-> IF bits > 8 * (i - 1) THEN 255 ELSE 0]

\* maskFromCidr: bytes of ones, one byte with the rest, zeros.
maskFromCidr(bits, size) ==
    [i \in 1..size |->
       CASE bits >= 8 * i -> 255
         [] bits <= 8 * (i - 1) -> 0
         [] OTHER -> 256 - 2^(8 * i - bits)]

\* The action of rule_expression: the mask of an address goes before it.
RuleParams(tb, ch, pt, ctr, act) ==
    LET tests == [i \in DOMAIN ctr |->
                    IF ctr[i].value.type = "address"
                    THEN <<ctr[i].field, ctr[i].value.value[2], ctr[i].value.value[1]>>
                    ELSE <<ctr[i].field, ctr[i].value.value[1]>>]
    IN  <<Nest("EXPRESSIONS", pt \o FlattenSeq(tests) \o <<act>>),
          Leaf("TABLE", tb), Leaf("CHAIN", ch)>>

HookParams(tb, ch, ht, hn, hp) ==
    <<Leaf("TABLE", tb), Leaf("NAME", ch), Leaf("TYPE", ht),
      Nest("HOOK", <<Leaf("HOOKNUM", hn), Leaf("PRIORITY", Number(hp, 10))>>)>>

\* parseInt("0x1,6", 16): join puts a comma between the prefix and the digits, and
\* another between the digits, so that the first digit is all that is read.
HexValue(v) == Number(<<Head(v[2])>>, 16)

HookNums == <<"prerouting", "input", "forward", "output", "postrouting">>

\* The value of an action, v being the values of the rule.
Value(name, v, len) ==
    CASE name = "some" -> <<v[1]>> \o v[2]
      [] name = "operation" -> v[1][1]
      [] name = "family" -> IF v[1] = <<"ip", "6">> THEN "ip6" ELSE "ip"
      [] name = "word" -> v[1]
      [] name = "hooknum" -> (CHOOSE i \in 1..5 : HookNums[i] = v[1]) - 1
      [] name = "tcp" -> <<0, 6>>
      [] name = "udp" -> <<1, 1>>
      [] name = "protocol" ->
           <<Load(NFT_PAYLOAD_NETWORK_HEADER, iphdr_offsets.protocol, iphdr_sizes.protocol),
             Compare(v[1])>>
      [] name \in {"saddr", "daddr"} ->
           IF ipfamily = "ip" THEN [offset |-> iphdr_offsets[name], len |-> iphdr_sizes[name]]
           ELSE [offset |-> ipv6hdr_offsets[name], len |-> ipv6hdr_sizes[name]]
      [] name = "ipprotocol" -> [offset |-> iphdr_offsets.protocol, len |-> iphdr_sizes.protocol]
      [] name = "dport" -> [offset |-> tcphdr_offsets.dest, len |-> tcphdr_sizes.dest]
      [] name = "network_header" -> Load(NFT_PAYLOAD_NETWORK_HEADER, v[1].offset, v[1].len)
      [] name = "transport_header" -> Load(NFT_PAYLOAD_TRANSPORT_HEADER, v[1].offset, v[1].len)
      [] name = "hex" -> HexValue(v)
      [] name = "decimal" -> Number(v, 10)
      [] name = "number" -> [type |-> "number", value |-> <<Compare(Padded(v[1], len))>>]
      [] name = "ipv4addr" -> Compare(Nibbles([i \in 1..4 |-> Number(v[2 * i - 1], 10)]))
      [] name = "ipv4cidr" -> [val |-> maskFromCidr(Number(<<v[2]>> \o v[3], 10), 4), len |-> 4]
      [] name = "ipv6cidr" ->
           [val |-> maskFromCidr(Number(<<v[2]>> \o v[3] \o v[4], 10), 16), len |-> 16]
      [] name = "cidr" ->
           Elem("bitwise", <<Leaf("SREG", NFT_REG_1), Leaf("DREG", NFT_REG_1),
                             Leaf("LEN", v.len), Nest("MASK", <<Leaf("VALUE", Nibbles(v.val))>>),
                             Nest("XOR", <<Leaf("VALUE", [i \in 1..8 |-> 0])>>)>>)
      [] name = "address" -> [type |-> "address", value |-> <<v[1], v[2]>>]
      [] name = "rule_criteria" -> [field |-> v[1], value |-> v[2]]
      [] name = "drop" -> Verdict(0)
      [] name = "accept" -> Verdict(1)
      [] name = "table_expression" -> <<Leaf("NAME", v)>>
      [] name = "hook_expression" -> HookParams(v[1], v[2], v[7], v[11], v[15])
      [] name = "rule_expression" -> RuleParams(v[1], v[2], v[3], v[4], v[5])
      [] name = "table command" -> [type |-> "table", params |-> v[3]]
      [] name = "chain command" -> [type |-> "chain", params |-> v[3]]
      [] name = "rule command" -> [type |-> "rule", params |-> IF v[3] = <<>> THEN <<>> ELSE v[3][1]]
      [] name = "command" ->
           [command |-> v[1], family |-> IF v[2] = <<>> THEN ipfamily ELSE v[2][1],
            type |-> v[3].type, params |-> v[3].params]

\* A rule that matched runs its action.  startquad joins null when there is no
\* digit; writeUInt8 refuses an octet above 255; an IPv6 address needs a family
\* that ipfamily never is.
Action(name, r) ==
    CASE r.out # "ok" -> r
      [] name = "startquad" /\ r.val = <<>> -> Thrown
      [] name = "ipv4addr" /\ \E i \in {1, 3, 5, 7} : Number(r.val[i], 10) > 255 -> Thrown
      [] name = "ipv6addr" -> Thrown
      [] name \in {"network_header", "transport_header"} ->
           Ok(r.at, r.val[1].len, Value(name, r.val, r.val[1].len))
      [] name \in {"startquad", "quads"} -> r
      [] OTHER -> Ok(r.at, r.payload_len, Value(name, r.val, r.payload_len))

-----------------------------------------------------------------------------
(* The parser. *)

Starts(lexemes, t, at) ==
    at + Len(lexemes) - 1 <= Len(t) /\ SubSeq(t, at, at + Len(lexemes) - 1) = lexemes

RECURSIVE Match(_, _, _, _)
Match(e, t, at, len) ==
    LET Then(r, x) ==
            IF r.out # "ok" THEN r
            ELSE LET m == Match(x, t, r.at, r.payload_len)
                 IN  IF m.out = "ok" THEN Ok(m.at, m.payload_len, Append(r.val, m.val)) ELSE m
        Else(r, x) == IF r.out # "failed" THEN r ELSE Match(x, t, at, r.payload_len)
    IN  CASE e.op = "lit" ->
               IF Starts(e.of, t, at) THEN Ok(at + Len(e.of), len, e.of) ELSE Failed(len)
          [] e.op = "class" ->
               IF at <= Len(t) /\ t[at] \in e.of THEN Ok(at + 1, len, t[at]) ELSE Failed(len)
          [] e.op = "series" -> FoldLeft(Then, Ok(at, len, <<>>), e.of)
          [] e.op = "choice" -> FoldLeft(Else, Failed(len), e.of)
          [] e.op = "opt" ->
               LET m == Match(e.of, t, at, len)
               IN  CASE m.out = "ok" -> Ok(m.at, m.payload_len, <<m.val>>)
                     [] m.out = "failed" -> Ok(at, m.payload_len, <<>>)
                     [] OTHER -> m
          [] e.op = "many" ->
               LET m == Match(e.of, t, at, len)
                   rest == Match(e, t, m.at, m.payload_len)
               IN  CASE m.out = "failed" -> Ok(at, m.payload_len, <<>>)
                     [] m.out = "ok" /\ rest.out = "ok" ->
                          Ok(rest.at, rest.payload_len, <<m.val>> \o rest.val)
                     [] m.out = "ok" -> rest
                     [] OTHER -> m
          [] e.op = "act" -> Action(e.name, Match(e.of, t, at, len))

\* parse: the command, a SyntaxError, or what an action threw.
Parse(t) ==
    LET m == Match(start, t, 1, 0)
    IN  IF m.out = "ok" /\ m.at = Len(t) + 1 THEN [out |-> "ok", command |-> m.val]
        ELSE [out |-> IF m.out = "thrown" THEN "thrown" ELSE "syntax", command |-> <<>>]

\* Reference: where a match of e that starts at i may end if every alternative of
\* a choice may be taken.  Repetition takes all it can.
RECURSIVE Ends(_, _, _)
Ends(e, t, i) ==
    LET Then(S, x) == UNION {Ends(x, t, j) : j \in S}
    IN  CASE e.op = "lit" -> IF Starts(e.of, t, i) THEN {i + Len(e.of)} ELSE {}
          [] e.op = "class" -> IF i <= Len(t) /\ t[i] \in e.of THEN {i + 1} ELSE {}
          [] e.op = "series" -> FoldLeft(Then, {i}, e.of)
          [] e.op = "choice" -> UNION {Ends(e.of[k], t, i) : k \in DOMAIN e.of}
          [] e.op = "opt" -> {i} \cup Ends(e.of, t, i)
          [] e.op = "many" ->
               IF Ends(e.of, t, i) = {} THEN {i} ELSE UNION {Ends(e, t, j) : j \in Ends(e.of, t, i)}
          [] e.op = "act" -> Ends(e.of, t, i)

Derivable(t) == Len(t) + 1 \in Ends(start, t, 1)

=============================================================================
