------------------------------ MODULE NfTables ------------------------------
(***************************************************************************)
(* The tables of nf/nftables.js that the netfilter commands use: header    *)
(* layouts, registers and the attributes of each kind of object.           *)
(*                                                                         *)
(* The attributes of an object are a sequence: the position of an entry is *)
(* the number of the attribute.  Its type is "s" (string), "n" (number of  *)
(* bits bits), "g" (generic data), "b" (binary, which no command builds),   *)
(* "r" (one nested object), "l" (a list) or "e" (an expression, whose name *)
(* tells its attributes).                                                  *)
(***************************************************************************)
EXTENDS Naturals, Sequences

iphdr_offsets == [protocol |-> 9, saddr |-> 12, daddr |-> 16]
iphdr_sizes == [protocol |-> 1, saddr |-> 4, daddr |-> 4]
ipv6hdr_offsets == [saddr |-> 8, daddr |-> 16]
ipv6hdr_sizes == [saddr |-> 8, daddr |-> 8]
tcphdr_offsets == [source |-> 0, dest |-> 2]
tcphdr_sizes == [source |-> 2, dest |-> 2]

NFT_REG_VERDICT == 0
NFT_REG_1 == 1
NFT_PAYLOAD_NETWORK_HEADER == 1
NFT_PAYLOAD_TRANSPORT_HEADER == 2
NFT_CMP_EQ == 0

String(k) == [key |-> k, type |-> "s", bits |-> 0, of |-> ""]
Num(k, bits) == [key |-> k, type |-> "n", bits |-> bits, of |-> ""]
Generic(k) == [key |-> k, type |-> "g", bits |-> 0, of |-> ""]
Binary(k) == [key |-> k, type |-> "b", bits |-> 0, of |-> ""]
Nested(k, of) == [key |-> k, type |-> "r", bits |-> 0, of |-> of]
List(k, of) == [key |-> k, type |-> "l", bits |-> 0, of |-> of]
Expression(k) == [key |-> k, type |-> "e", bits |-> 0, of |-> ""]

nft_hook_attributes == <<Num("HOOKNUM", 32), Num("PRIORITY", 32)>>
nft_table_attributes == <<String("NAME"), Num("FLAGS", 32), Num("USE", 32)>>
nft_chain_attributes ==
    <<String("TABLE"), Num("HANDLE", 64), String("NAME"), Nested("HOOK", "hook"),
      Num("POLICY", 32), Num("USE", 32), String("TYPE"), Nested("COUNTERS", "counter")>>
nft_rule_attributes ==
    <<String("TABLE"), String("CHAIN"), Num("HANDLE", 64), List("EXPRESSIONS", "list"),
      Nested("COMPAT", "compat"), Num("POSITION", 64), Binary("USERDATA")>>
nft_list_attributes == <<Nested("ELEM", "expr")>>
nft_expr_attributes == <<String("NAME"), Expression("DATA")>>
nft_cmp_attributes == <<Num("SREG", 32), Num("OP", 32), Nested("DATA", "data")>>
nft_payload_attributes ==
    <<Num("DREG", 32), Num("BASE", 32), Num("OFFSET", 32), Num("LEN", 32)>>
nft_data_attributes == <<Generic("VALUE"), Nested("VERDICT", "verdict")>>
nft_bitwise_attributes ==
    <<Num("SREG", 32), Num("DREG", 32), Num("LEN", 32), Nested("MASK", "data"),
      Nested("XOR", "data")>>
nft_verdict_attributes == <<Num("CODE", 32), String("CHAIN")>>
nft_immediate_attributes == <<Num("DREG", 32), Nested("DATA", "data")>>

\* getCommandObject: nft['nft_' + type + '_attributes'].
CommandObject ==
    [table |-> nft_table_attributes, chain |-> nft_chain_attributes,
     rule |-> nft_rule_attributes, hook |-> nft_hook_attributes,
     list |-> nft_list_attributes, expr |-> nft_expr_attributes,
     cmp |-> nft_cmp_attributes, payload |-> nft_payload_attributes,
     data |-> nft_data_attributes, bitwise |-> nft_bitwise_attributes,
     verdict |-> nft_verdict_attributes, immediate |-> nft_immediate_attributes]
=============================================================================
