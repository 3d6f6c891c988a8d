---------------------------- MODULE NfAttributes ----------------------------
(***************************************************************************)
(* The attribute array of a netfilter command (nf/nfattributes.js,         *)
(* nf/nfattr.js): parseNfAttrs walks the parameters depth first and pushes *)
(* one buffer per attribute.  A nest, list or expression pushes a bare     *)
(* header, whose length field is raised when the recursion comes back.     *)
(*                                                                         *)
(* A buffer is the type number and length field of its header, its size in *)
(* bytes, padding included, and its data: words or bytes.                  *)
(***************************************************************************)
EXTENDS Naturals, Sequences, SequencesExt, Functions, NfTables

Align(n) == ((n + 3) \div 4) * 4

\* buildRtattrBuf: header, data of n bytes, padding.
Plain(type, n, str, bytes) ==
    [type |-> type, nested |-> FALSE, size |-> Align(4 + n), len |-> 4 + n, str |-> str,
     bytes |-> bytes]

\* getNestedBuf, getListBuf and getElementBuf: a header with NLA_F_NESTED.
Header(type) ==
    [type |-> type, nested |-> TRUE, size |-> 4, len |-> 4, str |-> <<>>, bytes |-> <<>>]

BigEndian(n, k) == [i \in 1..k |-> (n \div 256^(k - i)) % 256]

\* getNumberBuffer.  val << 32 is val: both halves of a 64-bit number are the same.
NumberBytes(n, bits) ==
    IF bits = 64 THEN BigEndian(n, 4) \o BigEndian(n, 4) ELSE BigEndian(n, bits \div 8)

\* getGenericBuffer of a value given by its hexadecimal digits.  Only a value of
\* one, two or four bytes is written; the buffer of any other is not initialised.
\* (No command has a value of eight bytes, the fourth length that is written.)
GenericBytes(nibbles, garbage) ==
    LET n == Len(nibbles)
    IN  [i \in 1..((n + 1) \div 2) |->
           IF n \in {2, 4, 8} THEN 16 * nibbles[2 * i - 1] + nibbles[2 * i] ELSE garbage]

\* getStringBuffer: the word and a NUL.
StringLen(word) == 1 + FoldLeft(LAMBDA n, lexeme : n + Len(lexeme), 0, word)

\* setBuffer for the attribute with number type.
Buffer(type, spec, val, garbage) ==
    CASE spec.type = "s" -> Plain(type, StringLen(val), val, <<>>)
      [] spec.type = "n" -> Plain(type, spec.bits \div 8, <<>>, NumberBytes(val, spec.bits))
      [] spec.type = "g" ->
           LET bytes == GenericBytes(val, garbage) IN Plain(type, Len(bytes), <<>>, bytes)
      [] spec.type \in {"r", "l", "e"} -> Header(type)

\* getValue, getSpec: the number of a key.
TypeOf(attrs, key) == CHOOSE i \in DOMAIN attrs : attrs[i].key = key

\* getNestedAttributes: an expression takes the attributes its name tells.
NestedAttributes(spec, expr_name) ==
    CommandObject[IF spec.type = "e" THEN expr_name[1] ELSE spec.of]

\* Bytes of the buffers from..to.
SizeOf(array, from, to) == FoldFunctionOnSet(LAMBDA a, n : a.size + n, 0, array, from..to)

\* The sum starts at the nest itself.
updateNestHdrLenSelf(array, p) == [array EXCEPT ![p].len = @ + SizeOf(array, p, Len(array))]

\* push returned the new length, so nstart, counted from 0, is the buffer after
\* the header at p.
updateNestHdrLen(array, p) == [array EXCEPT ![p].len = @ + SizeOf(array, p + 1, Len(array))]

\* The value of "name" in an object, if it has one.
NameIn(params) ==
    LET S == {i \in DOMAIN params : params[i].key = "NAME"}
    IN  IF S = {} THEN <<>> ELSE params[CHOOSE i \in S : TRUE].val

RECURSIVE parseNfAttrs(_, _, _, _, _)
parseNfAttrs(array, params, attrs, expr_name, garbage) ==
    LET Attribute(a, param) ==
            LET type == TypeOf(attrs, param.key)
                spec == attrs[type]
                pushed == Append(a, Buffer(type, spec, param.val, garbage))
            IN  IF spec.type \in {"r", "l", "e"}
                THEN updateNestHdrLen(
                       parseNfAttrs(pushed, param.sub, NestedAttributes(spec, expr_name),
                                    NameIn(param.sub), garbage),
                       Len(pushed))
                ELSE pushed
    IN  FoldLeft(Attribute, array, params)

\* new NfAttributes(command_type, parameters); writeAttributes sends the buffers in
\* this order.
Attributes(command_type, params, garbage) ==
    parseNfAttrs(<<>>, params, CommandObject[command_type], <<>>, garbage)
=============================================================================
