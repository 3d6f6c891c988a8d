---------------------------- MODULE RtAttributes ----------------------------
(***************************************************************************)
(* The rtnetlink messages of nl/rtnetlink.js as byte offsets: how          *)
(* buildRtattrBuf (and the kernel, by the same rules) lays attributes out, *)
(* and how parseRtattributes walks over them.                              *)
(*                                                                         *)
(* A message is the function hdr from the offsets at which an attribute    *)
(* header lies to that header, and its total length.  The parser has no    *)
(* such map: it computes offsets, and what it reads at an offset where no  *)
(* header lies is payload, any two 16-bit numbers.                         *)
(***************************************************************************)
EXTENDS Integers, FiniteSets

CONSTANTS
    MsgTypes,   \* types of the messages that arrive
    AttrTypes,  \* attribute types they carry
    DataLens,   \* lengths of attribute data
    NudStates,  \* the ndm_state of a neighbour message
    Garbage,    \* 16-bit numbers found in payload bytes
    MaxAttrs    \* bound: attributes in a message

NLMSG_DONE == 3
RTM_NEWLINK == 16
RTM_GETLINK == 18
RTM_NEWADDR == 20
RTM_GETADDR == 22
RTM_NEWROUTE == 24
RTM_GETROUTE == 26
RTM_NEWNEIGH == 28
RTM_GETNEIGH == 30

\* A 16-bit field.
IsU16(n) == n \in Nat /\ n < 65536

ASSUME TypesInRange == \A t \in MsgTypes \cup AttrTypes : IsU16(t)
ASSUME LensInRange == MaxAttrs \in Nat /\ \A n \in DataLens : n \in Nat /\ IsU16(4 + n)
ASSUME WordsInRange == \A n \in NudStates \cup Garbage : IsU16(n)

VARIABLES
    phase,   \* "build", "parse" or "done"
    type,    \* nlmsg_type
    state,   \* ndm_state, when it is a neighbour message
    whole,   \* the buffer is as long as nlmsg_len says
    hdr,     \* attribute headers by offset
    total,   \* nlmsg_len
    index,   \* the parser's position
    ret      \* attributes found: attribute type -> bytes of the buffer

vars == <<phase, type, state, whole, hdr, total, index, ret>>

IsLink(t) == RTM_NEWLINK <= t /\ t <= RTM_GETLINK
IsAddr(t) == RTM_NEWADDR <= t /\ t <= RTM_GETADDR
IsRoute(t) == RTM_NEWROUTE <= t /\ t <= RTM_GETROUTE
IsNeigh(t) == RTM_NEWNEIGH <= t /\ t <= RTM_GETNEIGH
Supported(t) == IsLink(t) \/ IsAddr(t) \/ IsRoute(t) \/ IsNeigh(t)

\* The sizes of struct ifinfomsg, ifaddrmsg, rtmsg and ndmsg, as packed by the
\* build functions.  Other messages have no layout here.
StructSize(t) ==
    CASE IsLink(t) -> 16 [] IsAddr(t) -> 8 [] IsRoute(t) -> 12 [] IsNeigh(t) -> 12 [] OTHER -> 8

\* payload_sizes[type - 16]: the table has one entry per named type, so that
\* entries 0..3 are the link types, 4..6 the address types and 7..12 the rest.
PayloadSize(t) ==
    CASE t - 16 \in 0..3 -> 16 [] t - 16 \in 4..6 -> 8 [] t - 16 \in 7..12 -> 12 [] OTHER -> 8

\* Lengths of the four attr_name_map arrays.
MapLength(t) ==
    CASE IsLink(t) -> 36 [] IsAddr(t) -> 9 [] IsRoute(t) -> 18 [] OTHER -> 10

\* The keys that match /name|label/ are "ifname" and "label", both at 3.
IsName(t, k) == k = 3 /\ (IsLink(t) \/ IsAddr(t))

\* (n + 3) & 0xFFFFFFFFFC
Align(n) == ((n + 3) \div 4) * 4

Start(t) == 16 + StructSize(t)

Init ==
    /\ phase = "build"
    /\ type \in MsgTypes
    /\ state \in NudStates
    /\ whole \in BOOLEAN
    /\ hdr = [h \in {} |-> [len |-> 4, typ |-> 0]]
    /\ total = Start(type)
    /\ index = 0
    /\ ret = [k \in {} |-> [from |-> 0, to |-> 0]]

\* One attribute is appended: header, data and padding to a multiple of four.
BuildRtattr(typ, n) ==
    /\ phase = "build"
    /\ Cardinality(DOMAIN hdr) < MaxAttrs
    /\ hdr' = [h \in DOMAIN hdr \cup {total} |->
                 IF h = total THEN [len |-> 4 + n, typ |-> typ] ELSE hdr[h]]
    /\ total' = total + Align(4 + n)
    /\ UNCHANGED <<phase, type, state, whole, index, ret>>

\* parseRtattributes up to the loop: what it refuses is returned as {}.
Refused == ~whole \/ type = NLMSG_DONE \/ ~Supported(type)

ParseRefused ==
    /\ phase = "build" /\ Refused
    /\ phase' = "done"
    /\ UNCHANGED <<type, state, whole, hdr, total, index, ret>>

ParseBegins ==
    /\ phase = "build" /\ ~Refused
    /\ phase' = "parse"
    /\ index' = 16 + PayloadSize(type)
    /\ UNCHANGED <<type, state, whole, hdr, total, ret>>

\* The header the parser sees at an offset.  The last word of an ndmsg holds
\* the state where a length would be, and the flags and RTN_UNICAST (1) where
\* a type would be.
ReadAt(i) ==
    IF i \in DOMAIN hdr THEN {hdr[i]}
    ELSE IF IsNeigh(type) /\ i = 24 THEN {[len |-> state, typ |-> 256]}
    ELSE [len: Garbage, typ: Garbage]

\* The bytes of attribute data, without the NUL of a name.
Value(i, h, t) ==
    [from |-> i + 4, to |-> IF IsName(t, h.typ) THEN i + h.len - 1 ELSE i + h.len]

\* Attributes after the first of a type are dropped.
StoreFirst(i, h) ==
    IF h.typ < MapLength(type) /\ h.typ \notin DOMAIN ret
    THEN [k \in DOMAIN ret \cup {h.typ} |-> IF k = h.typ THEN Value(i, h, type) ELSE ret[k]]
    ELSE ret

\* ret[key] = the bytes, when the type has a key.
Store(i, h) ==
    IF h.typ < MapLength(type)
    THEN [k \in DOMAIN ret \cup {h.typ} |-> IF k = h.typ THEN Value(i, h, type) ELSE ret[k]]
    ELSE ret

\* The padding is forgotten when stepping over an attribute.
NextIndexUnpadded(i, h) == i + h.len

\* The length field is taken to exclude the header, and an empty one stays.
NextIndexData(i, h) == i + Align(h.len - 4)

\* The position after the attribute at i: 4, then len - 4 rounded up.
NextIndex(i, h) == i + 4 + Align(h.len - 4)

\* One turn of the loop of parseAttrs.
ParseAttr ==
    /\ phase = "parse" /\ index < total
    /\ \E h \in ReadAt(index) : ret' = Store(index, h) /\ index' = NextIndex(index, h)
    /\ UNCHANGED <<phase, type, state, whole, hdr, total>>

ParseEnds ==
    /\ phase = "parse" /\ index >= total
    /\ phase' = "done"
    /\ UNCHANGED <<type, state, whole, hdr, total, index, ret>>

Parse == ParseRefused \/ ParseBegins \/ ParseAttr \/ ParseEnds

Next == Parse \/ \E typ \in AttrTypes, n \in DataLens : BuildRtattr(typ, n)

\* A message is delivered and parsed: the loop runs without interruption.
Spec == Init /\ [][Next]_vars /\ WF_vars(Parse)

-----------------------------------------------------------------------------
\* The state keeps to its types: offsets are natural numbers, the headers lie
\* inside the message, and what was found lies inside it too
\* (parseRtattributes).
RtTypeOK ==
    /\ phase \in {"build", "parse", "done"}
    /\ type \in MsgTypes /\ state \in NudStates /\ whole \in BOOLEAN
    /\ total \in Nat /\ index \in Nat
    /\ DOMAIN hdr \subseteq Nat
    /\ \A h \in DOMAIN hdr : IsU16(hdr[h].len) /\ hdr[h].len >= 4 /\ IsU16(hdr[h].typ)
    /\ \A h \in DOMAIN hdr : h + hdr[h].len <= total
    /\ \A k \in DOMAIN ret : ret[k].from <= total /\ ret[k].to <= total

\* The loop of parseAttrs takes a length only from the header of an attribute
\* and stops exactly at the end of the message: alignment and the start offset
\* agree with the layout for every list of attributes.
HeadersOnly == phase = "parse" => index \in DOMAIN hdr \cup {total}

\* The last of the attributes of a type that lie before offset i.
LastBefore(i, k, h) ==
    /\ h \in DOMAIN hdr /\ h < i /\ hdr[h].typ = k
    /\ \A g \in DOMAIN hdr : g < i /\ hdr[g].typ = k => g <= h

\* After any number of turns, what parseAttrs has stored is exactly what lies
\* before its position: no attribute of a known type is missing, none is made
\* up, and of two of one type the later one is kept.
FoundSoFar ==
    phase = "parse" =>
      /\ \A h \in DOMAIN hdr : h < index /\ hdr[h].typ < MapLength(type) => hdr[h].typ \in DOMAIN ret
      /\ \A k \in DOMAIN ret : \E h \in DOMAIN hdr : LastBefore(index, k, h) /\ ret[k] = Value(h, hdr[h], type)

\* Every message that arrives is parsed to the end: the loop of parseAttrs
\* makes progress.
ParseTerminates == <>(phase = "done")
=============================================================================
