------------------------- MODULE RtAttributesProofs -------------------------
(***************************************************************************)
(* For every list of attributes of every length, the parser of             *)
(* nl/rtnetlink.js stays on attribute headers and finds exactly what the   *)
(* message holds, for every message type but RTM_DELNEIGH and              *)
(* RTM_GETNEIGH, whose entries of payload_sizes are wrong.                 *)
(***************************************************************************)
EXTENDS RtAttributes, TLAPS

NoNeighDel == MsgTypes \cap {29, 30} = {}

\* The end of the attribute at h, padding included.
EndOf(h) == h + Align(hdr[h].len)

\* Attributes lie one behind the other, from the struct to the end.
Layout ==
    /\ total \in Nat /\ Start(type) <= total
    /\ Start(type) \in DOMAIN hdr \cup {total}
    /\ \A h \in DOMAIN hdr : h \in Nat /\ Start(type) <= h /\ h < total
    /\ \A h \in DOMAIN hdr : IsU16(hdr[h].len) /\ hdr[h].len >= 4 /\ IsU16(hdr[h].typ)
    /\ \A h \in DOMAIN hdr : EndOf(h) \in DOMAIN hdr \cup {total} /\ EndOf(h) <= total
    /\ \A g, h \in DOMAIN hdr : g > h => EndOf(h) <= g

Types ==
    /\ phase \in {"build", "parse", "done"}
    /\ type \in MsgTypes /\ state \in NudStates /\ whole \in BOOLEAN
    /\ index \in Nat
    /\ phase = "build" => DOMAIN ret = {}
    /\ phase = "parse" => Supported(type)

\* What was found has a key and lies in the message.
Inside ==
    \A k \in DOMAIN ret : k < MapLength(type) /\ ret[k].from <= total /\ ret[k].to <= total

IInv == Types /\ Layout /\ Inside /\ HeadersOnly /\ FoundSoFar

-----------------------------------------------------------------------------
\* Rounding up to a multiple of four: what both sides of the layout use
\* (buildRtattrBuf, parseAttrs).
LEMMA AlignFacts ==
    ASSUME NEW n \in Nat
    PROVE  /\ Align(n) \in Nat /\ n <= Align(n)
           /\ Align(4 + n) = 4 + Align(n)
BY DEF Align

\* The size table agrees with the structs for the types that are left.
LEMMA StartFacts ==
    ASSUME NoNeighDel, NEW t \in MsgTypes
    PROVE  /\ Start(t) \in Nat
           /\ Supported(t) => 16 + PayloadSize(t) = Start(t)
<1>1. t \in Nat
    BY TypesInRange DEF IsU16
<1>2. t # 29 /\ t # 30
    BY DEF NoNeighDel
<1>3. StructSize(t) \in {8, 12, 16}
    BY DEF StructSize
<1>4. Supported(t) => PayloadSize(t) = StructSize(t)
    BY <1>1, <1>2 DEF Supported, PayloadSize, StructSize, IsLink, IsAddr, IsRoute, IsNeigh,
        RTM_NEWLINK, RTM_GETLINK, RTM_NEWADDR, RTM_GETADDR, RTM_NEWROUTE, RTM_GETROUTE,
        RTM_NEWNEIGH, RTM_GETNEIGH
<1> QED
    BY <1>3, <1>4 DEF Start

\* A message without attributes satisfies the invariant.
LEMMA InitIInv ==
    ASSUME NoNeighDel, Init PROVE IInv
<1>1. Start(type) \in Nat
    BY StartFacts DEF Init
<1>2. DOMAIN hdr = {} /\ DOMAIN ret = {} /\ phase = "build" /\ index = 0 /\ total = Start(type)
    BY DEF Init
<1>3. Types
    BY <1>2 DEF Init, Types
<1>4. Layout
    BY <1>1, <1>2 DEF Layout
<1> QED
    BY <1>2, <1>3, <1>4 DEF IInv, Inside, HeadersOnly, FoundSoFar

\* Appending an attribute keeps the layout (buildRtattrBuf).
LEMMA BuildKeeps ==
    ASSUME IInv, NEW typ \in AttrTypes, NEW n \in DataLens, BuildRtattr(typ, n)
    PROVE  IInv'
<1> DEFINE len == 4 + n
<1>1. n \in Nat /\ IsU16(len) /\ IsU16(typ)
    BY LensInRange, TypesInRange
<1>2. Align(len) \in Nat /\ len <= Align(len) /\ len \in Nat /\ 4 <= len
  <2>1. len \in Nat /\ 4 <= len
    BY <1>1
  <2> QED
    BY <2>1, AlignFacts
<1>3. Types /\ Layout /\ Inside
    BY DEF IInv
<1>4. /\ total' = total + Align(len) /\ DOMAIN hdr' = DOMAIN hdr \cup {total}
      /\ phase = "build" /\ phase' = "build" /\ UNCHANGED <<type, state, whole, index, ret>>
    BY DEF BuildRtattr
<1>5. total \notin DOMAIN hdr /\ total \in Nat /\ Start(type) <= total
    BY <1>3 DEF Layout
<1>6. hdr'[total] = [len |-> len, typ |-> typ] /\ \A h \in DOMAIN hdr : hdr'[h] = hdr[h]
    BY <1>5 DEF BuildRtattr
<1>7. \A h \in DOMAIN hdr : EndOf(h)' = EndOf(h)
    BY <1>6 DEF EndOf
<1>8. \A g \in DOMAIN hdr' : g = total \/ g \in DOMAIN hdr
    BY <1>4
<1>9. hdr'[total].len = len /\ hdr'[total].typ = typ
    BY <1>6
<1>10. total + Align(hdr'[total].len) = total'
    BY <1>4, <1>9
<1>11. Start(type') = Start(type)
    BY <1>4
<1>12. Layout'
  <2>1. total' \in Nat /\ Start(type') <= total' /\ total < total'
    <3>1. Start(type) \in Int
        BY DEF Start, StructSize
    <3> HIDE DEF len
    <3> QED
        BY <1>2, <1>4, <1>5, <1>11, <3>1
  <2>2. Start(type') \in DOMAIN hdr' \cup {total'}
    BY <1>3, <1>4, <1>11 DEF Layout
  <2>3. \A h \in DOMAIN hdr' : h \in Nat /\ Start(type') <= h /\ h < total'
    <3>1. \A h \in DOMAIN hdr : h \in Nat /\ Start(type) <= h /\ h < total
        BY <1>3 DEF Layout
    <3> QED
        BY <1>5, <1>8, <1>11, <2>1, <3>1
  <2>4. \A h \in DOMAIN hdr' : IsU16(hdr'[h].len) /\ hdr'[h].len >= 4 /\ IsU16(hdr'[h].typ)
    <3>1. \A h \in DOMAIN hdr : IsU16(hdr[h].len) /\ hdr[h].len >= 4 /\ IsU16(hdr[h].typ)
        BY <1>3 DEF Layout
    <3> QED
        BY <1>1, <1>2, <1>6, <1>8, <1>9, <3>1
  <2>5. \A h \in DOMAIN hdr' : EndOf(h)' \in DOMAIN hdr' \cup {total'} /\ EndOf(h)' <= total'
    <3>1. \A h \in DOMAIN hdr : EndOf(h) \in DOMAIN hdr \cup {total} /\ EndOf(h) <= total
        BY <1>3 DEF Layout
    <3>2. ASSUME NEW h \in DOMAIN hdr PROVE EndOf(h)' \in DOMAIN hdr' \cup {total'} /\ EndOf(h)' <= total'
      <4>1. EndOf(h)' = EndOf(h) /\ EndOf(h) \in DOMAIN hdr \cup {total}
        BY <1>7, <3>1, <3>2
      <4>2. EndOf(h)' \in DOMAIN hdr'
        BY <1>4, <4>1
      <4>3. EndOf(h) <= total /\ EndOf(h) \in Nat
        BY <3>1, <4>1, <1>3 DEF Layout
      <4> QED
        BY <2>1, <1>5, <4>1, <4>2, <4>3
    <3>3. ASSUME NEW h \in DOMAIN hdr', h = total PROVE EndOf(h)' = total'
        BY <1>10, <3>3 DEF EndOf
    <3> QED
        BY <1>8, <2>1, <3>2, <3>3
  <2>6. \A g, h \in DOMAIN hdr' : g > h => EndOf(h)' <= g
    <3> SUFFICES ASSUME NEW g \in DOMAIN hdr', NEW h \in DOMAIN hdr', g > h
                 PROVE  EndOf(h)' <= g
        OBVIOUS
    <3>1. \A x \in DOMAIN hdr : x \in Nat /\ x < total /\ EndOf(x) <= total
        BY <1>3 DEF Layout
    <3>2. h \in DOMAIN hdr
        BY <1>5, <1>8, <3>1
    <3>3. EndOf(h)' = EndOf(h)
        BY <1>7, <3>2
    <3>4. CASE g = total
        BY <3>1, <3>2, <3>3, <3>4
    <3>5. CASE g \in DOMAIN hdr
        BY <1>3, <3>2, <3>3, <3>5 DEF Layout
    <3> QED
        BY <1>8, <3>4, <3>5
  <2> QED
    BY <2>1, <2>2, <2>3, <2>4, <2>5, <2>6 DEF Layout
<1>13. Types' /\ HeadersOnly' /\ FoundSoFar'
    BY <1>3, <1>4 DEF Types, HeadersOnly, FoundSoFar, Supported
<1>14. Inside'
    BY <1>3, <1>4 DEF Types, Inside
<1> QED
    BY <1>12, <1>13, <1>14 DEF IInv

\* The loop starts at the first attribute (parseRtattributes).
LEMMA BeginKeeps ==
    ASSUME NoNeighDel, IInv, ParseBegins
    PROVE  IInv'
<1>1. Types /\ Layout /\ Inside
    BY DEF IInv
<1>2. Supported(type) /\ type \in MsgTypes
    BY <1>1 DEF ParseBegins, Refused, Types
<1>3. index' = Start(type) /\ Start(type) \in Nat
    BY <1>2, StartFacts DEF ParseBegins
<1>4. /\ phase = "build" /\ phase' = "parse"
      /\ UNCHANGED <<type, state, whole, hdr, total, ret>>
    BY DEF ParseBegins
<1>5. Types'
    BY <1>1, <1>2, <1>3, <1>4 DEF Types, Supported
<1>6. Layout'
    BY <1>1, <1>4 DEF Layout, EndOf
<1>7. Inside'
    BY <1>1, <1>4 DEF Inside
<1>8. HeadersOnly'
    BY <1>1, <1>3, <1>4 DEF HeadersOnly, Layout
<1>9. FoundSoFar'
  <2>1. DOMAIN ret' = {}
    BY <1>1, <1>4 DEF Types
  <2>2. \A h \in DOMAIN hdr' : ~(h < index')
    BY <1>1, <1>3, <1>4 DEF Layout
  <2> QED
    BY <2>1, <2>2 DEF FoundSoFar
<1> QED
    BY <1>5, <1>6, <1>7, <1>8, <1>9 DEF IInv

\* A turn of the loop stores the attribute it stands on and moves to the next
\* one (parseAttrs).
LEMMA AttrKeeps ==
    ASSUME IInv, ParseAttr
    PROVE  IInv'
<1>1. Types /\ Layout /\ Inside /\ HeadersOnly /\ FoundSoFar
    BY DEF IInv
<1>2. /\ phase = "parse" /\ phase' = "parse" /\ index < total
      /\ UNCHANGED <<type, state, whole, hdr, total>>
    BY DEF ParseAttr
<1>3. index \in Nat /\ total \in Nat
    BY <1>1 DEF Types, Layout
<1>4. index \in DOMAIN hdr
    BY <1>1, <1>2, <1>3 DEF HeadersOnly
<1> DEFINE h == hdr[index]
<1>5. ret' = Store(index, h) /\ index' = NextIndex(index, h)
    BY <1>4 DEF ParseAttr, ReadAt
<1>6. IsU16(h.len) /\ 4 <= h.len /\ IsU16(h.typ)
    BY <1>1, <1>4 DEF Layout
<1>7. index' = EndOf(index)
  <2>1. h.len - 4 \in Nat /\ 4 + (h.len - 4) = h.len
    BY <1>6 DEF IsU16
  <2>2. Align(h.len) = 4 + Align(h.len - 4) /\ Align(h.len - 4) \in Nat
    BY <2>1, AlignFacts
  <2> QED
    BY <1>3, <1>5, <2>2 DEF NextIndex, EndOf
<1>8. /\ index' \in DOMAIN hdr \cup {total} /\ index' <= total
      /\ index' \in Nat /\ index < index' /\ index + h.len <= index'
  <2>1. EndOf(index) \in DOMAIN hdr \cup {total} /\ EndOf(index) <= total
    BY <1>1, <1>4 DEF Layout
  <2>2. Align(h.len) \in Nat /\ h.len <= Align(h.len) /\ h.len \in Nat
    BY <1>6, AlignFacts DEF IsU16
  <2> QED
    BY <1>3, <1>6, <1>7, <2>1, <2>2 DEF EndOf
<1>9. Types'
    BY <1>1, <1>2, <1>8 DEF Types, Supported
<1>10. Layout'
    BY <1>1, <1>2 DEF Layout, EndOf
<1>11. HeadersOnly'
    BY <1>2, <1>8 DEF HeadersOnly
<1>12. \A g \in DOMAIN hdr : g < index' <=> (g < index \/ g = index)
    BY <1>1, <1>3, <1>4, <1>7, <1>8 DEF Layout
<1>13. Inside' /\ FoundSoFar'
  <2>1. CASE h.typ < MapLength(type)
    <3>1. /\ DOMAIN ret' = DOMAIN ret \cup {h.typ}
          /\ ret'[h.typ] = Value(index, h, type)
          /\ \A k \in DOMAIN ret : k # h.typ => ret'[k] = ret[k]
        BY <1>5, <2>1 DEF Store
    <3>2. Inside'
      <4>1. Value(index, h, type).from <= total /\ Value(index, h, type).to <= total
        BY <1>3, <1>6, <1>8 DEF Value, IsU16
      <4>2. ASSUME NEW k \in DOMAIN ret' PROVE k < MapLength(type) /\ ret'[k].from <= total /\ ret'[k].to <= total
        BY <1>1, <2>1, <3>1, <4>1 DEF Inside
      <4> QED
        BY <1>2, <4>2 DEF Inside
    <3>3. \A g \in DOMAIN hdr' : g < index' /\ hdr'[g].typ < MapLength(type') => hdr'[g].typ \in DOMAIN ret'
        BY <1>1, <1>2, <1>12, <3>1 DEF FoundSoFar
    <3>4. ASSUME NEW k \in DOMAIN ret'
          PROVE  \E g \in DOMAIN hdr' : LastBefore(index, k, g)' /\ ret'[k] = Value(g, hdr'[g], type')
      <4>1. CASE k = h.typ
        <5>1. index \in DOMAIN hdr' /\ index < index' /\ hdr'[index].typ = k
            BY <1>2, <1>4, <1>8, <4>1
        <5>2. \A g \in DOMAIN hdr' : g < index' /\ hdr'[g].typ = k => g <= index
            BY <1>1, <1>2, <1>3, <1>12 DEF Layout
        <5>3. ret'[k] = Value(index, hdr'[index], type')
            BY <1>2, <3>1, <4>1
        <5> QED
            BY <5>1, <5>2, <5>3 DEF LastBefore
      <4>2. CASE k # h.typ
        <5>1. k \in DOMAIN ret /\ ret'[k] = ret[k]
            BY <3>1, <4>2
        <5>2. PICK g \in DOMAIN hdr : LastBefore(index, k, g) /\ ret[k] = Value(g, hdr[g], type)
            BY <1>1, <1>2, <5>1 DEF FoundSoFar
        <5>3. LastBefore(index, k, g)'
            BY <1>2, <1>12, <4>2, <5>2 DEF LastBefore
        <5> QED
            BY <1>2, <5>1, <5>2, <5>3
      <4> QED
        BY <4>1, <4>2
    <3> QED
        BY <3>2, <3>3, <3>4 DEF FoundSoFar
  <2>2. CASE ~(h.typ < MapLength(type))
    <3>1. ret' = ret
        BY <1>5, <2>2 DEF Store
    <3>2. Inside'
        BY <1>1, <1>2, <3>1 DEF Inside
    <3>3. \A g \in DOMAIN hdr' : g < index' /\ hdr'[g].typ < MapLength(type') => hdr'[g].typ \in DOMAIN ret'
        BY <1>1, <1>2, <1>12, <2>2, <3>1 DEF FoundSoFar
    <3>4. ASSUME NEW k \in DOMAIN ret'
          PROVE  \E g \in DOMAIN hdr' : LastBefore(index, k, g)' /\ ret'[k] = Value(g, hdr'[g], type')
      <4>1. PICK g \in DOMAIN hdr : LastBefore(index, k, g) /\ ret[k] = Value(g, hdr[g], type)
        BY <1>1, <1>2, <3>1 DEF FoundSoFar
      <4>2. hdr[g].typ = k
        BY <4>1 DEF LastBefore
      <4>3. k # h.typ
        BY <1>1, <2>2, <3>1 DEF Inside
      <4> QED
        BY <1>2, <1>12, <3>1, <4>1, <4>3 DEF LastBefore
    <3> QED
        BY <3>2, <3>3, <3>4 DEF FoundSoFar
  <2> QED
    BY <2>1, <2>2
<1> QED
    BY <1>9, <1>10, <1>11, <1>13 DEF IInv

\* The other steps only change the phase.
LEMMA OthersKeep ==
    ASSUME IInv, ParseRefused \/ ParseEnds \/ UNCHANGED vars
    PROVE  IInv'
<1>1. Types /\ Layout /\ Inside /\ HeadersOnly /\ FoundSoFar
    BY DEF IInv
<1>2. /\ UNCHANGED <<type, state, whole, hdr, total, index, ret>>
      /\ phase' = "done" \/ phase' = phase
    BY DEF ParseRefused, ParseEnds, vars
<1>3. Types'
    BY <1>1, <1>2 DEF Types, Supported
<1>4. Layout' /\ Inside'
    BY <1>1, <1>2 DEF Layout, EndOf, Inside, MapLength, IsLink, IsAddr, IsRoute
<1>5. HeadersOnly'
    BY <1>1, <1>2 DEF HeadersOnly
<1>6. FoundSoFar'
  <2>1. CASE phase' = "done"
    BY <2>1 DEF FoundSoFar
  <2>2. CASE phase' = phase
    BY <1>1, <1>2, <2>2 DEF FoundSoFar, LastBefore
  <2> QED
    BY <1>2, <2>1, <2>2
<1> QED
    BY <1>3, <1>4, <1>5, <1>6 DEF IInv

\* IInv is inductive (buildRtattrBuf, parseRtattributes, parseAttrs).
THEOREM Inductive ==
    ASSUME NoNeighDel PROVE Spec => []IInv
<1>1. Init => IInv
    BY InitIInv
<1>2. IInv /\ [Next]_vars => IInv'
  <2> SUFFICES ASSUME IInv, [Next]_vars PROVE IInv'
    OBVIOUS
  <2>1. CASE \E typ \in AttrTypes, n \in DataLens : BuildRtattr(typ, n)
    BY <2>1, BuildKeeps
  <2>2. CASE ParseBegins
    BY <2>2, BeginKeeps
  <2>3. CASE ParseAttr
    BY <2>3, AttrKeeps
  <2>4. CASE ParseRefused \/ ParseEnds \/ UNCHANGED vars
    BY <2>4, OthersKeep
  <2> QED
    BY <2>1, <2>2, <2>3, <2>4 DEF Next, Parse
<1> QED
    BY <1>1, <1>2, PTL DEF Spec

\* Offsets, headers and found attributes keep to their types and lie inside
\* the message (parseRtattributes).
THEOREM RtTypeCorrect ==
    ASSUME NoNeighDel PROVE Spec => []RtTypeOK
<1>1. IInv => RtTypeOK
  <2> SUFFICES ASSUME IInv PROVE RtTypeOK
    OBVIOUS
  <2>1. ASSUME NEW h \in DOMAIN hdr PROVE h + hdr[h].len <= total
    <3>1. hdr[h].len \in Nat /\ h \in Nat /\ total \in Nat /\ EndOf(h) <= total
        BY DEF IInv, Layout, IsU16
    <3>2. hdr[h].len <= Align(hdr[h].len) /\ Align(hdr[h].len) \in Nat
        BY <3>1, AlignFacts
    <3> QED
        BY <3>1, <3>2 DEF EndOf
  <2> QED
    BY <2>1 DEF IInv, Types, Layout, Inside, RtTypeOK
<1> QED
    BY <1>1, Inductive, PTL

\* parseAttrs takes lengths only from attribute headers and stops exactly at
\* the end of the message, for every list of attributes.
THEOREM HeadersOnlyAlways ==
    ASSUME NoNeighDel PROVE Spec => []HeadersOnly
<1>1. IInv => HeadersOnly
    BY DEF IInv
<1> QED
    BY <1>1, Inductive, PTL

\* parseAttrs has stored exactly the attributes before its position, and of
\* two of one type the later one.
THEOREM FoundSoFarAlways ==
    ASSUME NoNeighDel PROVE Spec => []FoundSoFar
<1>1. IInv => FoundSoFar
    BY DEF IInv
<1> QED
    BY <1>1, Inductive, PTL
=============================================================================
