------------------------------- MODULE Values -------------------------------
(***************************************************************************)
(* Value (data.cpp): a structure is a flat array of fields, each with its  *)
(* storage and its mark.  A value is [d, s]: d the descriptions of         *)
(* TypeDesc, s a sequence of the same length of [v, valid].                *)
(*                                                                         *)
(* Storage is a sequence: one element of a scalar, none or one of a union  *)
(* or Any, the elements of an array, none of a structure.  What a union    *)
(* holds is [idx, val], idx the index of its choice; what an array of      *)
(* structures holds is a sequence of none or one value.  A string is       *)
(* [t, n]: "num" n if it reads as an integer, else a word.                 *)
(***************************************************************************)
EXTENDS TypeDesc, TLC

\* TypeCode::storedAs()
StoredAs(code) ==
    CASE code \in {"Int8", "Int64"} -> "Integer"
      [] code = "UInt8" -> "UInteger"
      [] code \in {"Bool", "String"} -> code
      [] code \in {"Any", "Union"} -> "Compound"
      [] code \in {"Int64A", "StructA", "UnionA"} -> "Array"
      [] code = "Struct" -> "Null"

Num(n) == [t |-> "num", n |-> n]
Word(w) == [t |-> w, n |-> 0]

\* FieldStorage::init()
Zero(code) ==
    CASE StoredAs(code) \in {"Integer", "UInteger"} -> <<0>>
      [] StoredAs(code) = "Bool" -> <<FALSE>>
      [] StoredAs(code) = "String" -> <<Word("")>>
      [] OTHER -> <<>>

\* Value::Value(), Value::cloneEmpty(), Value::clear()
Create(descs) == [d |-> descs, s |-> [i \in 1..Len(descs) |-> [v |-> Zero(descs[i].code), valid |-> FALSE]]]

Fields(val) == 1..Len(val.d)
Below(val, i) == i..(i + Size(val.d[i]) - 1)

RECURSIVE Above(_, _)
Above(val, i) == IF val.d[i].par = 0 THEN {} ELSE LET p == i - val.d[i].par IN {p} \cup Above(val, p)

\* Value::isMarked()
IsMarked(val, i, parents, children) ==
    \/ val.s[i].valid
    \/ children /\ \E j \in Below(val, i) : val.s[j].valid
    \/ parents /\ \E j \in Above(val, i) : val.s[j].valid

\* Value::mark(), Value::unmark()
Mark(val, i) == [val EXCEPT !.s[i].valid = TRUE]
Unmark(val, i, parents, children) ==
    LET off == {i} \cup (IF children THEN Below(val, i) ELSE {}) \cup (IF parents THEN Above(val, i) ELSE {})
    IN  [val EXCEPT !.s = [j \in DOMAIN @ |-> IF j \in off THEN [@[j] EXCEPT !.valid = FALSE] ELSE @[j]]]

\* _next_marked() of a structure and operator++: the fields visited by imarked().
\* pos and nextcheck count from 0 at the first field below the root.
NextCheck(val, pos) == pos + Size(val.d[pos + 2])

RECURSIVE IMarkedFrom(_, _, _)
IMarkedFrom(val, pos, nextcheck) ==
    IF pos >= Len(val.d) - 1 THEN <<>>
    ELSE IF pos < nextcheck THEN << pos + 2>> \o IMarkedFrom(val, pos + 1, nextcheck)
    ELSE IF val.s[pos + 2].valid THEN << pos + 2>> \o IMarkedFrom(val, pos + 1, NextCheck(val, pos))
    ELSE IMarkedFrom(val, pos + 1, nextcheck)
IMarked(val) == IMarkedFrom(val, 0, 0)

\* nameOf() and operator[] of a path
NameOf(val, i) == (CHOOSE e \in val.d[1].mlookup : e[2] = i - 1)[1]
Lookup(val, path) ==
    LET at == {e \in val.d[1].mlookup : e[1] = path}
    IN  IF at = {} THEN 0 ELSE (CHOOSE e \in at : TRUE)[2] + 1
-----------------------------------------------------------------------------
(***************************************************************************)
(* Scalars: conversions of copyIn().  [ok, v]; ok is FALSE for NoConvert.  *)
(***************************************************************************)
Done(v) == [ok |-> TRUE, v |-> v]
NoConvert == [ok |-> FALSE, v |-> <<>>]

\* narrowed as if assigned to the narrower type
Narrow(code, n) ==
    CASE code = "Int8" -> ((n + 128) % 256) - 128
      [] code = "UInt8" -> n % 256
      [] OTHER -> n

\* copyInScalar() and what follows it; src is the storage of type st
CopyScalar(code, st, src) ==
    LET n == CASE st \in {"Integer", "UInteger"} -> src[1]
               [] st = "Bool" -> (IF src[1] THEN 1 ELSE 0)
               [] st = "String" -> src[1].n
               [] OTHER -> 0
        want == StoredAs(code)
    IN  CASE want \in {"Integer", "UInteger"} ->
               IF st \in {"Integer", "UInteger", "Bool"} \/ (st = "String" /\ src[1].t = "num")
               THEN Done(<<Narrow(code, n)>>) ELSE NoConvert
          [] want = "Bool" ->
               (CASE st = "Bool" -> Done(src)
                  [] st \in {"Integer", "UInteger"} -> Done(<<n # 0>>)
                  [] st = "String" /\ src[1].t \in {"true", "false"} -> Done(<<src[1].t = "true">>)
                  [] OTHER -> NoConvert)
          [] want = "String" ->
               (CASE st = "String" -> Done(src)
                  [] st \in {"Integer", "UInteger"} -> Done(<<Num(n)>>)
                  [] st = "Bool" -> Done(<<Word(IF src[1] THEN "true" ELSE "false")>>)
                  [] OTHER -> NoConvert)
          [] OTHER -> NoConvert

\* The description of choice idx of a union, and of the elements of an array.
Choice(desc, idx) == SubSeq(desc.members, idx + 1, idx + Size(desc.members[idx + 1]))
Chosen(desc, idx) == Create(Choice(desc, idx))

Failed(val) == [ok |-> FALSE, val |-> val]
OK(val) == [ok |-> TRUE, val |-> val]

(***************************************************************************)
(* copyIn() of field i of val from storage src of type st, and of a whole  *)
(* structure (assign()): every field imarked() visits; a structure is only *)
(* marked, and a field the destination lacks is NoField.  Fields before    *)
(* the one that fails stay assigned.                                       *)
(***************************************************************************)
RECURSIVE CopyIn(_, _, _, _), AssignFrom(_, _, _, _), CopyElements(_, _), FirstChoice(_, _, _, _)

\* Value::assign() between values: a structure, union, Any or array of them takes
\* the value, the others its storage
Assign(val, src) ==
    IF val.d[1].code = "Struct"
    THEN IF src.d[1].code # "Struct" THEN Failed(val)
         ELSE LET WithRoot(r) == IF r.ok /\ IsMarked(src, 1, TRUE, FALSE) THEN OK(Mark(r.val, 1)) ELSE r
              IN  WithRoot(AssignFrom(val, src, IMarked(src), 1))
    ELSE IF Compound(val.d[1].code) THEN CopyIn(val, 1, "Compound", <<src>>)
    ELSE CopyIn(val, 1, StoredAs(src.d[1].code), src.s[1].v)

\* what a union or Any holds, none or one value
Held(v) == [k \in 1..Len(v) |-> v[k].val]

AssignFrom(val, src, marked, k) ==
    IF k > Len(marked) THEN OK(val)
    ELSE LET i == marked[k]
             to == Lookup(val, NameOf(src, i))
             st == StoredAs(src.d[i].code)
             Then(r) == IF r.ok THEN AssignFrom(r.val, src, marked, k + 1) ELSE r
         IN  IF src.d[i].code = "Struct" THEN Then(OK(IF to = 0 THEN val ELSE Mark(val, to)))
             ELSE IF to = 0 THEN Failed(val)
             ELSE Then(CopyIn(val, to, st, IF st = "Compound" THEN Held(src.s[i].v) ELSE src.s[i].v))

\* an array's elements converted to the member type of the destination
CopyElements(desc, elems) ==
    [k \in 1..Len(elems) |-> IF elems[k] = <<>> \/ elems[k][1].d = desc.members THEN elems[k]
                             ELSE << Assign(Create(desc.members), elems[k][1]).val>>]

\* the first choice of a union, from the k'th, that converts
FirstChoice(desc, k, st, src) ==
    IF k > Len(desc.miter) THEN <<>>
    ELSE LET idx == desc.miter[k][2]
             Or(r) == IF r.ok THEN << [idx |-> idx, val |-> r.val]>> ELSE FirstChoice(desc, k + 1, st, src)
         IN  Or(CopyIn(Chosen(desc, idx), 1, st, src))

CopyIn(val, i, st, src) ==
    LET desc == val.d[i]
        have == val.s[i].v
        Set(v) == OK(Mark([val EXCEPT !.s[i].v = v], i))
        Scalar(r) == IF r.ok THEN Set(r.v) ELSE Failed(val)
        Hold(idx, r) == IF r.ok THEN Set(<< [idx |-> idx, val |-> r.val]>>) ELSE Failed(val)
        SetFound(v) == IF v = <<>> THEN Failed(val) ELSE Set(v)
        same == {k \in 1..Len(desc.miter) : src # <<>> /\ EqualType(Choice(desc, desc.miter[k][2]), src[1].d)}
        Select(ks) == IF ks = {} THEN SetFound(have)
                      ELSE LET idx == desc.miter[Min(ks)][2] IN Hold(idx, Assign(Chosen(desc, idx), src[1]))
    IN  CASE StoredAs(desc.code) \in {"Integer", "UInteger", "Bool", "String"} -> Scalar(CopyScalar(desc.code, st, src))
          [] StoredAs(desc.code) = "Array" ->
               IF st # "Array" THEN Failed(val)
               ELSE Set(IF desc.code = "Int64A" THEN src ELSE CopyElements(desc, src))
          [] desc.code \in {"Any", "Union"} /\ st = "Unselect" -> Set(<<>>)
          [] desc.code = "Any" ->
               IF st = "Compound" THEN Set([k \in 1..Len(src) |-> [idx |-> 0, val |-> src[k]]])
               ELSE LET code == CASE st = "Integer" -> "Int64" [] st = "UInteger" -> "UInt8" [] OTHER -> st
                    IN  Hold(0, OK(CopyIn(Create(<<NoDesc(code)>>), 1, st, src).val))
          [] desc.code = "Union" ->
               (CASE st = "Compound" -> Select(same)
                  [] have # <<>> -> Hold(have[1].idx, CopyIn(have[1].val, 1, st, src))
                  [] OTHER -> SetFound(FirstChoice(desc, 1, st, src)))
          [] OTHER -> Failed(val)

\* Value::clone()
Clone(val) == Assign(Create(val.d), val)

\* cache_sync(): marked fields go from the delta to the cache, the others the
\* other way; what a union or Any holds is cloned.
\* Mutant: the delta does not take what it lacks from the cache.
SyncOneWay(cache, dlt) ==
    [cache |-> [cache EXCEPT !.s = [i \in DOMAIN @ |-> IF dlt.s[i].valid THEN [@[i] EXCEPT !.v = dlt.s[i].v] ELSE @[i]]],
     dlt |-> dlt]
CacheSync(cache, dlt) ==
    LET from(i) == IF dlt.s[i].valid THEN dlt.s[i].v ELSE cache.s[i].v
        held(i) == StoredAs(dlt.d[i].code) = "Compound" /\ from(i) # <<>>
        copy(i) == IF held(i) THEN << [from(i)[1] EXCEPT !.val = Clone(@).val]>> ELSE from(i)
        Both(new) ==
            [cache |-> [cache EXCEPT !.s = [i \in DOMAIN @ |-> IF dlt.s[i].valid THEN [@[i] EXCEPT !.v = new[i]] ELSE @[i]]],
             dlt |-> [dlt EXCEPT !.s = [i \in DOMAIN @ |-> IF dlt.s[i].valid THEN @[i] ELSE [@[i] EXCEPT !.v = new[i]]]]]
    IN  Both([i \in Fields(dlt) |-> copy(i)])
=============================================================================
