------------------------------ MODULE TypeDesc ------------------------------
(***************************************************************************)
(* Types of values: the tree of Member a TypeDef is made of, the flat      *)
(* array of FieldDesc it is stored as (type.cpp), and its encoding on the  *)
(* wire (dataencode.cpp).                                                  *)
(*                                                                         *)
(* A Member is [code, name, kids].  A FieldDesc is [code, miter, mlookup,  *)
(* par, members]: miter is a sequence of <<name, index>> of the children,  *)
(* mlookup a set of <<path, index>> of all descendants, par the distance   *)
(* to the parent.  Indices are relative and count from 0, as in the code.  *)
(***************************************************************************)
EXTENDS Integers, Sequences, FiniteSets, SequencesExt

CONSTANT MaxNestingDepth    \* maxNestingDepth, 20 in the code

Member(code, name, kids) == [code |-> code, name |-> name, kids |-> kids]

ScalarOf(code) == CASE code = "StructA" -> "Struct" [] code = "UnionA" -> "Union" [] OTHER -> code
Leaves == {"Bool", "Int8", "Int64", "UInt8", "String", "Any", "Int64A"}

\* Member::_validate() of all of a tree: only (arrays of) structures and unions
\* have members.
RECURSIVE Valid(_)
Valid(node) ==
    /\ node.code \in Leaves \cup {"Struct", "Union", "StructA", "UnionA"}
    /\ node.kids # <<>> => ScalarOf(node.code) \in {"Struct", "Union"}
    /\ \A i \in 1..Len(node.kids) : Valid(node.kids[i])

NoDesc(code) == [code |-> code, miter |-> <<>>, mlookup |-> {}, par |-> 0, members |-> <<>>]

\* FieldDesc::size()
Size(d) == 1 + IF d.members = <<>> THEN Cardinality(d.mlookup) ELSE 0

\* The entry of a child with the descriptions kid at index at, for its parent.
\* Mutant: a sub-structure's names are relative to it.
EntryRelative(name, at, kid) ==
    {<< <<name>>, at>>} \cup
    (IF kid[1].code = "Struct" THEN {<<(<<name>>) \o e[1], e[2]>> : e \in kid[1].mlookup} ELSE {})
Entry(name, at, kid) ==
    {<< <<name>>, at>>} \cup
    (IF kid[1].code = "Struct" THEN {<<(<<name>>) \o e[1], at + e[2]>> : e \in kid[1].mlookup} ELSE {})

\* Adds a child to a structure, the first of descs, whose descriptions follow it.
AddToStruct(descs, name, kid) ==
    LET at == Len(descs)
    IN  [descs EXCEPT ![1].miter = Append(@, <<name, at>>),
                      ![1].mlookup = @ \cup Entry(name, at, kid)] \o [kid EXCEPT ![1].par = at]
\* ... to a union, which keeps those of its choices apart.
AddToUnion(descs, name, kid) ==
    LET at == Len(descs[1].members)
    IN  [descs EXCEPT ![1].miter = Append(@, <<name, at>>),
                      ![1].mlookup = @ \cup {<< <<name>>, at>>},
                      ![1].members = @ \o kid]

\* Member::Helper::build_tree()
RECURSIVE BuildTree(_), BuildKids(_, _, _)
BuildTree(node) ==
    IF node.code \in {"StructA", "UnionA"}
    THEN <<[NoDesc(node.code) EXCEPT !.members = BuildTree([node EXCEPT !.code = ScalarOf(@)])]>>
    ELSE BuildKids(<<NoDesc(node.code)>>, node, 1)
BuildKids(descs, node, i) ==
    IF i > Len(node.kids) THEN descs
    ELSE LET kid == BuildTree(node.kids[i])
             name == node.kids[i].name
         IN  BuildKids(IF node.code = "Struct" THEN AddToStruct(descs, name, kid)
                       ELSE AddToUnion(descs, name, kid), node, i + 1)

\* Member::Helper::copy_tree(): back to a tree, from the description at index i
RECURSIVE CopyTree(_, _, _)
CopyTree(descs, i, name) ==
    LET d == descs[i + 1]
        kids(base, off) == [k \in 1..Len(d.miter) |-> CopyTree(base, off + d.miter[k][2], d.miter[k][1])]
    IN  CASE d.code = "Struct" -> Member(d.code, name, kids(descs, i))
          [] d.code = "Union" -> Member(d.code, name, kids(d.members, 0))
          [] d.code \in {"StructA", "UnionA"} ->
                [CopyTree(d.members, 0, name) EXCEPT !.code = d.code]
          [] OTHER -> Member(d.code, name, <<>>)

\* Value::_equal(): the same fields in the same order, whatever their descriptions'
\* place in memory.
EqualType(a, b) == CopyTree(a, 0, "") = CopyTree(b, 0, "")

\* TypeDef::_append(): children of the same name are merged.  FALSE if a member
\* would change to or from a compound.
Compound(code) == code \in {"Struct", "Union", "StructA", "UnionA", "Any"}
RECURSIVE AppendTo(_, _), AppendAll(_, _, _)
AppendTo(node, adopt) ==
    LET same == {i \in 1..Len(node.kids) : node.kids[i].name = adopt.name}
    IN  IF same = {} THEN [ok |-> TRUE, node |-> [node EXCEPT !.kids = Append(@, adopt)]]
        ELSE LET i == CHOOSE x \in same : TRUE
                 r == AppendAll([node.kids[i] EXCEPT !.code = adopt.code], adopt.kids, 1)
             IN  IF Compound(node.kids[i].code) # Compound(adopt.code) THEN [ok |-> FALSE, node |-> node]
                 ELSE [ok |-> r.ok, node |-> [node EXCEPT !.kids[i] = r.node]]
AppendAll(node, adopts, i) ==
    IF i > Len(adopts) THEN [ok |-> TRUE, node |-> node]
    ELSE LET r == AppendTo(node, adopts[i])
         IN  IF r.ok THEN AppendAll(r.node, adopts, i + 1) ELSE r
-----------------------------------------------------------------------------
\* to_wire() of a description: a sequence of codes, numbers and names
RECURSIVE TypeToWire(_, _)
TypeToWire(descs, i) ==
    LET d == descs[i + 1]
        kid(k) == << d.miter[k][1]>> \o IF d.code = "Struct" THEN TypeToWire(descs, i + d.miter[k][2])
                                        ELSE TypeToWire(d.members, d.miter[k][2])
    IN  << d.code>> \o
        (CASE d.code \in {"StructA", "UnionA"} -> TypeToWire(d.members, 0)
           [] d.code \in {"Struct", "Union"} ->
                << Len(d.miter)>> \o FlattenSeq([k \in 1..Len(d.miter) |-> kid(k)])
           [] OTHER -> <<>>)

Fault(cache) == [ok |-> FALSE, descs |-> <<>>, rest |-> <<>>, cache |-> cache]

\* the cache of types of a connection, key -> descriptions; emplace() keeps what
\* is there
Emplace(cache, key, descs) == IF key \in DOMAIN cache THEN cache ELSE cache @@ (key :> descs)

\* from_wire() of a description.  "SET" and "GET" are the codes 0xfd and 0xfe by
\* which a peer names a type and refers to it again.
RECURSIVE TypeFromWire(_, _, _), KidsFromWire(_, _, _, _, _)
TypeFromWire(w, cache, depth) ==
    IF w = <<>> \/ depth > MaxNestingDepth THEN Fault(cache)
    ELSE LET code == Head(w)
             rest == Tail(w)
         IN  CASE code = "SET" ->
                    LET r == TypeFromWire(Tail(rest), cache, depth + 1)
                    IN  IF ~r.ok \/ r.descs = <<>> THEN Fault(cache)
                        ELSE [r EXCEPT !.cache = Emplace(@, Head(rest), r.descs)]
               [] code = "GET" ->
                    IF Head(rest) \in DOMAIN cache
                    THEN [ok |-> TRUE, descs |-> cache[Head(rest)], rest |-> Tail(rest), cache |-> cache]
                    ELSE Fault(cache)
               [] code = "Null" -> [ok |-> TRUE, descs |-> <<>>, rest |-> rest, cache |-> cache]
               [] code \in {"StructA", "UnionA"} ->
                    LET r == TypeFromWire(rest, cache, depth + 1)
                    IN  IF ~r.ok \/ r.descs = <<>> \/ r.descs[1].code # ScalarOf(code) THEN Fault(r.cache)
                        ELSE [r EXCEPT !.descs = <<[NoDesc(code) EXCEPT !.members = r.descs]>>]
               [] code \in {"Struct", "Union"} ->
                    KidsFromWire(<<NoDesc(code)>>, Head(rest), Tail(rest), cache, depth)
               [] code \in Leaves -> [ok |-> TRUE, descs |-> <<NoDesc(code)>>, rest |-> rest, cache |-> cache]
               [] OTHER -> Fault(cache)
KidsFromWire(descs, n, w, cache, depth) ==
    IF n = 0 THEN [ok |-> TRUE, descs |-> descs, rest |-> w, cache |-> cache]
    ELSE IF w = <<>> THEN Fault(cache)
    ELSE LET r == TypeFromWire(Tail(w), cache, depth + 1)
         IN  IF ~r.ok \/ r.descs = <<>> THEN Fault(r.cache)
             ELSE KidsFromWire(IF descs[1].code = "Struct" THEN AddToStruct(descs, Head(w), r.descs)
                               ELSE AddToUnion(descs, Head(w), r.descs),
                               n - 1, r.rest, r.cache, depth)

\* A peer which names every structure and union it sends and refers to those
\* already sent: the wire and the set of types named, in the order of their keys.
RECURSIVE PeerToWire(_, _), PeerKids(_, _, _)
PeerToWire(node, sent) ==
    LET bare == [node EXCEPT !.name = ""]
        known == {k \in 1..Len(sent) : sent[k] = bare}
        r == IF node.code \in {"StructA", "UnionA"}
             THEN PeerToWire([bare EXCEPT !.code = ScalarOf(@)], sent)
             ELSE PeerKids(node.kids, 1, [wire |-> << Len(node.kids)>>, sent |-> sent])
    IN  IF node.kids = <<>> /\ ScalarOf(node.code) \notin {"Struct", "Union"}
        THEN [wire |-> << node.code>>, sent |-> sent]
        ELSE IF known # {} THEN [wire |-> <<"GET", CHOOSE k \in known : TRUE>>, sent |-> sent]
        ELSE [wire |-> <<"SET", Len(r.sent) + 1, node.code>> \o r.wire, sent |-> Append(r.sent, bare)]
PeerKids(kids, i, acc) ==
    IF i > Len(kids) THEN acc
    ELSE LET r == PeerToWire(kids[i], acc.sent)
         IN  PeerKids(kids, i + 1, [wire |-> acc.wire \o << kids[i].name>> \o r.wire, sent |-> r.sent])
=============================================================================
