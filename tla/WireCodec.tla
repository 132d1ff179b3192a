----------------------------- MODULE WireCodec ------------------------------
(***************************************************************************)
(* Encoding of values and of the primitives they are made of               *)
(* (dataencode.cpp, bitmask.cpp, pvaproto.h), and the selection of fields  *)
(* (pvrequest.cpp).  The wire is a sequence of bytes and of scalars; a     *)
(* decoder returns [ok, val, rest].                                        *)
(***************************************************************************)
EXTENDS Values

CONSTANTS WordBytes,    \* bytes of a word of a BitMask: 8 in the code
          ByteBits      \* bits of a byte of a BitMask: 8 in the code

WordBits == WordBytes * ByteBits

Bad == [ok |-> FALSE, val |-> <<>>, rest |-> <<>>]
Got(val, rest) == [ok |-> TRUE, val |-> val, rest |-> rest]
-----------------------------------------------------------------------------
\* uint32_t, in the byte order of the connection
U32ToWire(n, be) ==
    LET b == [k \in 1..4 |-> (n \div (256 ^ (k - 1))) % 256]
    IN  IF be THEN Reverse(b) ELSE b
U32FromWire(w, be) ==
    LET b == IF be THEN Reverse(SubSeq(w, 1, 4)) ELSE SubSeq(w, 1, 4)
    IN  IF Len(w) < 4 THEN Bad
        ELSE Got(b[1] + 256 * b[2] + 65536 * b[3] + 16777216 * b[4], SubSeq(w, 5, Len(w)))

\* Size, and Selector, which is -1 for none.
SizeToWire(n, be) == IF n < 254 THEN <<n>> ELSE <<254>> \o U32ToWire(n, be)
SelectorToWire(n, be) == IF n < 0 THEN <<255>> ELSE SizeToWire(n, be)
SelectorFromWire(w, be) ==
    CASE w = <<>> -> Bad
      [] Head(w) < 254 -> Got(Head(w), Tail(w))
      [] Head(w) = 254 -> U32FromWire(Tail(w), be)
      [] OTHER -> Got(-1, Tail(w))
SizeFromWire(w, be, allowNull) ==
    LET r == SelectorFromWire(w, be) IN IF r.ok /\ r.val = -1 /\ ~allowNull THEN Bad ELSE r

\* std::string, a sequence of characters; null is read as empty
StringToWire(s, be) == SizeToWire(Len(s), be) \o s
StringFromWire(w, be) ==
    LET len == SizeFromWire(w, be, TRUE)
    IN  CASE ~len.ok -> Bad
          [] len.val = -1 -> Got(<<>>, len.rest)
          [] len.val > Len(len.rest) -> Bad
          [] OTHER -> Got(SubSeq(len.rest, 1, len.val), SubSeq(len.rest, len.val + 1, Len(len.rest)))

\* Status: Ok without a text is one byte; an unknown code is Fatal
StatusToWire(sts, be) ==
    IF sts.code = 0 /\ sts.msg = <<>> /\ sts.trace = <<>> THEN <<255>>
    ELSE << sts.code>> \o StringToWire(sts.msg, be) \o StringToWire(sts.trace, be)
StatusFromWire(w, be) ==
    CASE w = <<>> -> Bad
      [] Head(w) = 255 -> Got([code |-> 0, msg |-> <<>>, trace |-> <<>>], Tail(w))
      [] OTHER -> LET m == StringFromWire(Tail(w), be)
                      t == StringFromWire(m.rest, be)
                  IN  IF ~m.ok \/ ~t.ok THEN Bad
                      ELSE Got([code |-> IF Head(w) > 3 THEN 3 ELSE Head(w), msg |-> m.val, trace |-> t.val], t.rest)
-----------------------------------------------------------------------------
(***************************************************************************)
(* BitMask: [size, words]; a word and a byte are sets of bits, word i      *)
(* holds the bits from i * WordBits.                                       *)
(***************************************************************************)
Words(bits) == (bits + WordBits - 1) \div WordBits

\* BitMask::resize(), BitMask::BitMask() and operator[]
Resize(mask, bits) ==
    [size |-> bits, words |-> [i \in 1..Words(bits) |-> IF i <= Len(mask.words) THEN mask.words[i] ELSE {}]]
MaskOf(bits, size) ==
    [size |-> size,
     words |-> [i \in 1..Words(size) |-> {b \in 0..(WordBits - 1) : (i - 1) * WordBits + b \in bits}]]
Bit(mask, b) == (b % WordBits) \in mask.words[b \div WordBits + 1]

\* BitMask::findSet(): word by word
RECURSIVE FindSet(_, _)
FindSet(mask, start) ==
    IF start >= mask.size THEN mask.size
    ELSE LET word == start \div WordBits
             masked == {b \in mask.words[word + 1] : b >= start % WordBits}
         IN  IF masked = {} THEN FindSet(mask, (word + 1) * WordBits)
             ELSE word * WordBits + (CHOOSE b \in masked : \A c \in masked : b <= c)

\* BitMask::onlySet()
RECURSIVE OnlySet(_, _)
OnlySet(mask, start) ==
    LET b == FindSet(mask, start) IN IF b >= mask.size THEN <<>> ELSE <<b>> \o OnlySet(mask, b + 1)

\* The bytes of a word, and a word from its bytes, from byte 0.
BytesOf(word) == [k \in 1..WordBytes |-> {b \in 0..(ByteBits - 1) : (k - 1) * ByteBits + b \in word}]
WordOf(bytes) == UNION {{(k - 1) * ByteBits + b : b \in bytes[k]} : k \in DOMAIN bytes}

\* The whole words and the extra bytes of the encoding: trailing zeros are left out.
RECURSIVE NoTrailing(_, _)
NoTrailing(mask, nwords) ==
    LET bytes == BytesOf(mask.words[nwords])
        used == {k \in 1..WordBytes : bytes[k] # {}}
    IN  IF nwords = 0 THEN [nwords |-> 0, extra |-> 0]
        ELSE IF bytes[WordBytes] # {} THEN [nwords |-> nwords, extra |-> 0]
        ELSE IF used = {} THEN NoTrailing(mask, nwords - 1)
        ELSE [nwords |-> nwords - 1, extra |-> CHOOSE k \in used : \A j \in used : j <= k]

\* to_wire() and from_wire(): whole words in the connection's byte order, the
\* extra bytes always from the lowest
MaskToWire(mask, be) ==
    LET n == NoTrailing(mask, Len(mask.words))
        whole(i) == LET b == BytesOf(mask.words[i]) IN IF be THEN Reverse(b) ELSE b
    IN  SizeToWire(n.nwords * WordBytes + n.extra, be)
        \o FlattenSeq([i \in 1..n.nwords |-> whole(i)])
        \o (IF n.extra = 0 THEN <<>> ELSE SubSeq(BytesOf(mask.words[n.nwords + 1]), 1, n.extra))
MaskFromWire(w, be) ==
    LET len == SizeFromWire(w, be, FALSE)
        n == len.val
        whole(i) == LET b == SubSeq(len.rest, (i - 1) * WordBytes + 1, i * WordBytes)
                    IN  WordOf(IF be THEN Reverse(b) ELSE b)
        last == WordOf(SubSeq(len.rest, (n \div WordBytes) * WordBytes + 1, n))
    IN  IF ~len.ok \/ n > Len(len.rest) THEN Bad
        ELSE Got([size |-> ByteBits * n,
                  words |-> [i \in 1..Words(ByteBits * n) |-> IF i <= n \div WordBytes THEN whole(i) ELSE last]],
                 SubSeq(len.rest, n + 1, Len(len.rest)))
-----------------------------------------------------------------------------
(***************************************************************************)
(* Fields.  A sub-structure is its leaves in order.  A decoder of a field  *)
(* returns [ok, val, rest, cache], val the value with the field read.      *)
(***************************************************************************)
RECURSIVE FieldToWire(_, _), ElementsToWire(_)

\* to_wire_full()
FullToWire(val) == FieldToWire(val, 1)

\* the elements of an array of structures or unions
ElementsToWire(elems) ==
    FlattenSeq([k \in 1..Len(elems) |-> IF elems[k] = <<>> THEN <<0>> ELSE <<1>> \o FullToWire(elems[k][1])])

\* to_wire_field()
FieldToWire(val, i) ==
    LET desc == val.d[i]
        v == val.s[i].v
        leaves == SelectSeq([k \in 1..Size(desc) |-> i + k - 1], LAMBDA j : val.d[j].code # "Struct")
    IN  CASE desc.code = "Struct" -> FlattenSeq([k \in 1..Len(leaves) |-> FieldToWire(val, leaves[k])])
          [] desc.code = "Union" ->
                IF v = <<>> THEN SelectorToWire(-1, FALSE)
                ELSE SelectorToWire((CHOOSE k \in 1..Len(desc.miter) : desc.miter[k][2] = v[1].idx) - 1, FALSE)
                     \o FullToWire(v[1].val)
          [] desc.code = "Any" ->
                IF v = <<>> THEN <<"Null">> ELSE TypeToWire(v[1].val.d, 0) \o FullToWire(v[1].val)
          [] desc.code = "Int64A" -> SizeToWire(Len(v), FALSE) \o v
          [] desc.code \in {"StructA", "UnionA"} -> SizeToWire(Len(v), FALSE) \o ElementsToWire(v)
          [] OTHER -> v

\* to_wire_valid(): the marked fields which are in the mask, a marked
\* sub-structure as a whole
RECURSIVE ValidBits(_, _, _)
ValidBits(val, mask, bit) ==
    IF bit >= Len(val.d) THEN {}
    ELSE IF val.s[bit + 1].valid /\ Bit(mask, bit)
         THEN {bit} \cup ValidBits(val, mask, bit + Size(val.d[bit + 1]))
         ELSE ValidBits(val, mask, bit + 1)
ValidToWire(val, mask) ==
    LET valid == MaskOf(ValidBits(val, mask, 0), Len(val.d))
        bits == OnlySet(valid, 0)
    IN  MaskToWire(valid, FALSE) \o FlattenSeq([k \in 1..Len(bits) |-> FieldToWire(val, bits[k] + 1)])

Fail(cache) == [ok |-> FALSE, val |-> <<>>, rest |-> <<>>, cache |-> cache]
Read(val, i, v, rest, cache) == [ok |-> TRUE, val |-> [val EXCEPT !.s[i].v = v], rest |-> rest, cache |-> cache]

RECURSIVE FieldFromWire(_, _, _, _, _), LeavesFromWire(_, _, _, _, _), ElementsFromWire(_, _, _, _, _, _)

\* the leaves of a sub-structure, each marked
LeavesFromWire(val, range, w, cache, depth) ==
    IF range = <<>> THEN [ok |-> TRUE, val |-> val, rest |-> w, cache |-> cache]
    ELSE IF val.d[Head(range)].code = "Struct" THEN LeavesFromWire(val, Tail(range), w, cache, depth)
    ELSE LET r == FieldFromWire(val, Head(range), w, cache, depth + 1)
         IN  IF ~r.ok THEN r
             ELSE LeavesFromWire(Mark(r.val, Head(range)), Tail(range), r.rest, r.cache, depth)

\* n elements of an array of structures, or of unions, of which the choice is kept
ElementsFromWire(desc, n, w, cache, depth, sofar) ==
    IF n = 0 THEN [ok |-> TRUE, val |-> sofar, rest |-> w, cache |-> cache]
    ELSE IF w = <<>> THEN Fail(cache)
    ELSE LET union == desc.code = "UnionA"
             sel == IF union THEN SelectorFromWire(Tail(w), FALSE) ELSE Got(0, Tail(w))
             cdesc == desc.members[1]
             elem == IF union THEN Chosen(cdesc, cdesc.miter[sel.val + 1][2]) ELSE Create(desc.members)
             r == FieldFromWire(elem, 1, sel.rest, cache, depth + 1)
         IN  CASE Head(w) = 0 -> ElementsFromWire(desc, n - 1, Tail(w), cache, depth, Append(sofar, <<>>))
               [] ~sel.ok \/ (union /\ sel.val >= Len(cdesc.miter)) -> Fail(cache)
               [] sel.val = -1 -> ElementsFromWire(desc, n - 1, sel.rest, cache, depth, Append(sofar, <<>>))
               [] OTHER -> IF ~r.ok THEN r
                           ELSE ElementsFromWire(desc, n - 1, r.rest, r.cache, depth, Append(sofar, <<r.val>>))

\* from_wire_field() and, for what a union, an Any or an array holds, from_wire_full()
FieldFromWire(val, i, w, cache, depth) ==
    LET desc == val.d[i]
        sel == SelectorFromWire(w, FALSE)
        size == SizeFromWire(w, FALSE, FALSE)
        type == TypeFromWire(w, cache, depth + 1)
        chosen == FieldFromWire(Chosen(desc, desc.miter[sel.val + 1][2]), 1, sel.rest, cache, depth + 1)
        any == FieldFromWire(Create(type.descs), 1, type.rest, type.cache, depth + 1)
        elems == ElementsFromWire(desc, size.val, size.rest, cache, depth, <<>>)
    IN  CASE depth > MaxNestingDepth -> Fail(cache)
          [] desc.code = "Struct" ->
                LeavesFromWire(val, [k \in 1..Size(desc) |-> i + k - 1], w, cache, depth)
          [] w = <<>> -> Fail(cache)
          [] desc.code = "Union" ->
                (CASE ~sel.ok \/ sel.val >= Len(desc.miter) -> Fail(cache)
                   [] sel.val = -1 -> Read(val, i, <<>>, sel.rest, cache)
                   [] ~chosen.ok -> chosen
                   [] OTHER -> Read(val, i, << [idx |-> desc.miter[sel.val + 1][2], val |-> chosen.val]>>,
                                    chosen.rest, chosen.cache))
          [] desc.code = "Any" ->
                (CASE ~type.ok -> Fail(type.cache)
                   [] type.descs = <<>> -> Read(val, i, <<>>, type.rest, type.cache)
                   [] ~any.ok -> any
                   [] OTHER -> Read(val, i, << [idx |-> 0, val |-> any.val]>>, any.rest, any.cache))
          [] desc.code = "Int64A" ->
                IF ~size.ok \/ size.val > Len(size.rest) THEN Fail(cache)
                ELSE Read(val, i, SubSeq(size.rest, 1, size.val),
                          SubSeq(size.rest, size.val + 1, Len(size.rest)), cache)
          [] desc.code \in {"StructA", "UnionA"} ->
                IF ~size.ok THEN Fail(cache) ELSE IF ~elems.ok THEN elems
                ELSE Read(val, i, elems.val, elems.rest, elems.cache)
          [] OTHER -> Read(val, i, <<Head(w)>>, Tail(w), cache)

\* from_wire_valid(): the fields of the mask, each marked
RECURSIVE BitsFromWire(_, _, _, _, _)
BitsFromWire(val, valid, bit, w, cache) ==
    IF bit >= Len(val.d) THEN [ok |-> TRUE, val |-> val, rest |-> w, cache |-> cache]
    ELSE LET r == FieldFromWire(val, bit + 1, w, cache, 0)
         IN  IF ~r.ok THEN r
             ELSE BitsFromWire(Mark(r.val, bit + 1), valid, FindSet(valid, bit + Size(val.d[bit + 1])), r.rest, r.cache)
ValidFromWire(val, w, cache) ==
    LET m == MaskFromWire(w, FALSE)
        valid == Resize(m.val, Len(val.d))
    IN  IF ~m.ok THEN Fail(cache) ELSE BitsFromWire(val, valid, FindSet(valid, 0), m.rest, cache)
-----------------------------------------------------------------------------
(***************************************************************************)
(* Field selection.  req is the "field" member of a pvRequest, none or one *)
(* value's descriptions.                                                   *)
(***************************************************************************)
\* request2mask(): [ok, mask], not ok when no requested field exists.
Implicit(descs, rd, at) ==
    IF rd.mlookup = {} /\ descs[at + 1].code = "Struct" THEN {at + e[2] : e \in descs[at + 1].mlookup} ELSE {}
Request2Mask(descs, req) ==
    LET n == Size(descs[1])
        asked == IF req = <<>> THEN {} ELSE {e \in req[1].mlookup : req[e[2] + 1].code = "Struct"}
        hits == {<<e, f>> \in asked \X descs[1].mlookup : e[1] = f[1]}
        bits == {0} \cup UNION {{h[2][2]} \cup Implicit(descs, req[h[1][2] + 1], h[2][2]) : h \in hits}
        wild == req = <<>> \/ req[1].mlookup = {}
    IN  [ok |-> wild \/ hits # {},
         mask |-> IF bits = {0} THEN MaskOf(0..(n - 1), n) ELSE MaskOf(bits, n)]

\* testmask(): does the update mark a selected field?
TestMask(val, mask) == \E i \in Fields(val) : val.s[i].valid /\ Bit(mask, i - 1)
=============================================================================
