----------------------------- MODULE GroupConfig -----------------------------
(***************************************************************************)
(* How QSRV makes groups out of info(Q:group, ...) and dbLoadGroup() files *)
(* (ioc/groupconfigprocessor.cpp).  A text is the sequence of events of    *)
(* the JSON parser; a channel is a pair <<record, field>>.  std::map keeps *)
(* names in the order NameOrder.                                           *)
(***************************************************************************)
EXTENDS Database

CONSTANTS
  Infos,        \* a sequence of [rec, text]: the records with an info(Q:group)
  NameOrder     \* every field name there is, in the order of std::map

NoName == "-"                                \* an empty std::string
ASSUME NoNameAssumption == NoName \notin Records
ASSUME NameOrderAssumption == NameOrder \in Seq(ToSet(NameOrder))
NoChannel == <<>>
MinOrder == -1000                            \* numeric_limits<int64_t>::min()
AllFields == "*"

Tok(t, v) == [t |-> t, v |-> v]

NoField == [type |-> "scalar", channel |-> NoChannel, trigger |-> <<>>, putOrder |-> MinOrder]
NoGroup == [atomic |-> TRUE, atomicIsSet |-> FALSE, fields |-> <<>>]
Types == {"scalar", "plain", "any", "meta", "proc", "structure", "const"}

-----------------------------------------------------------------------------
(* The parser's callbacks.  A callback which throws returns -1, which does *)
(* not stop yajl: the error is dropped and parsing goes on.  A value which *)
(* cannot be converted ("bad") leaves the key set, and the assertion at    *)
(* the end of the block then ends the process.                             *)

Fresh(prefix, groups) ==
  [depth |-> 0, group |-> NoName, field |-> NoName, key |-> NoName, prefix |-> prefix,
   groups |-> groups, stopped |-> FALSE, aborted |-> FALSE]

StartBlock(c, v) == [c EXCEPT !.depth = @ + 1]

Key(c, name) ==
  CASE name = NoName /\ c.depth # 2 -> c
    [] c.depth = 1 -> [c EXCEPT !.group = name]
    [] c.depth = 2 -> [c EXCEPT !.field = name]
    [] c.depth = 3 -> [c EXCEPT !.key = name]
    [] OTHER -> c

EndBlock(c, v) ==
  IF c.key # NoName THEN [c EXCEPT !.aborted = TRUE]
  ELSE CASE c.depth = 3 -> [c EXCEPT !.depth = 2]
         [] c.depth = 2 -> [c EXCEPT !.depth = 1, !.field = NoName]
         [] c.depth = 1 -> [c EXCEPT !.depth = 0, !.group = NoName]
         [] OTHER -> c

ChannelName(prefix, v) == IF prefix = NoName THEN v ELSE <<prefix, v>>

SetKey(f, key, v, prefix) ==
  CASE key = "+type"     -> IF v \in Types THEN [f EXCEPT !.type = v] ELSE f
    [] key = "+channel"  -> [f EXCEPT !.channel = ChannelName(prefix, v)]
    [] key = "+trigger"  -> [f EXCEPT !.trigger = v]
    [] key = "+putorder" -> [f EXCEPT !.putOrder = IF v = MinOrder THEN v + 1 ELSE v]
    [] OTHER -> f

\* map[key], which makes the entry
Entry(map, k, default) == IF k \in DOMAIN map THEN map[k] ELSE default

\* GroupProcessorContext::assign()
Assign(c, v, converts) ==
  LET g == Entry(c.groups, c.group, NoGroup)
      Store(h) == [c EXCEPT !.groups = (c.group :> h) @@ @]
      f == Entry(g.fields, c.field, NoField)
      StoreField(h) == Store([g EXCEPT !.fields = (c.field :> h) @@ @])
  IN CASE c.depth \notin {2, 3} -> c
       [] c.depth = 2 /\ ~converts -> Store(g)
       [] c.depth = 2 -> [Store(IF c.field = "+atomic" THEN [g EXCEPT !.atomic = v, !.atomicIsSet = TRUE] ELSE g)
                            EXCEPT !.field = NoName]
       [] c.depth = 3 /\ ~converts -> StoreField(f)
       [] OTHER -> [StoreField(SetKey(f, c.key, v, c.prefix)) EXCEPT !.key = NoName]

ParseToken(c, tok) ==
  IF c.stopped \/ c.aborted THEN c
  ELSE CASE tok.t = "start" -> StartBlock(c, tok.v)
         [] tok.t = "key" -> Key(c, tok.v)
         [] tok.t = "end" -> EndBlock(c, tok.v)
         [] tok.t = "value" -> Assign(c, tok.v, TRUE)
         [] tok.t = "bad" -> Assign(c, tok.v, FALSE)
         [] tok.t = "syntax" -> [c EXCEPT !.stopped = TRUE]

ParseConfigString(text, prefix, groups) == FoldLeft(ParseToken, Fresh(prefix, groups), text)

\* an error of syntax ends the text of an info(), and what came before it stays
LoadConfigFromDb ==
  FoldLeft(LAMBDA c, info : IF c.aborted THEN c ELSE ParseConfigString(info.text, info.rec, c.groups),
           Fresh(NoName, <<>>), Infos)

\* ... but in a file it ends the whole of processGroups()
LoadConfigFiles(files) ==
  FoldLeft(LAMBDA c, f : IF c.aborted \/ c.stopped THEN c ELSE ParseConfigString(f.text, NoName, c.groups),
           [LoadConfigFromDb EXCEPT !.stopped = FALSE], files)

-----------------------------------------------------------------------------
(* From the configuration to the definition of a group.                    *)

NeedsChannel(f) == f.type \notin {"structure", "const"}

ValidGroup(g) == \A n \in DOMAIN g.fields : NeedsChannel(g.fields[n]) => g.fields[n].channel # NoChannel

\* ... and a channel which is not needed is forgotten
ValidField(f) ==
  IF NeedsChannel(f) THEN f ELSE [type |-> f.type, channel |-> NoChannel, trigger |-> f.trigger, putOrder |-> f.putOrder]

ValidateGroups(groups) ==
  [gn \in {x \in DOMAIN groups : ValidGroup(groups[x])} |->
     LET g == groups[gn]
     IN [atomic |-> g.atomic, atomicIsSet |-> g.atomicIsSet, fields |-> [n \in DOMAIN g.fields |-> ValidField(g.fields[n])]]]

\* defineFields(): in the order of the map; only meta may be at the top
DefineFields(g) ==
  LET enter(defs, n) == IF n \in DOMAIN g.fields /\ (n = NoName => g.fields[n].type = "meta")
                        THEN Append(defs, [name |-> n, conf |-> g.fields[n]]) ELSE defs
  IN InTurn(enter, <<>>, NameOrder)

\* defineFieldSortOrder(): a stable sort
InsertField(sorted, d) ==
  LET n == Cardinality({i \in DOMAIN sorted : sorted[i].conf.putOrder <= d.conf.putOrder})
  IN SubSeq(sorted, 1, n) \o <<d>> \o SubSeq(sorted, n + 1, Len(sorted))
SortFields(defs) == InTurn(InsertField, <<>>, defs)

FieldMapStale(unsorted, sorted) == [n \in {d.name : d \in ToSet(sorted)} |-> CHOOSE i \in DOMAIN unsorted : unsorted[i].name = n]

\* the index of a field by its name, made again after sorting
FieldMap(unsorted, sorted) == [n \in {d.name : d \in ToSet(sorted)} |-> CHOOSE i \in DOMAIN sorted : sorted[i].name = n]

\* resolveTriggerReferences(), defineGroupTriggers(): whom a change of d is to
\* refresh, by name
TriggerNames(defs, map, d) ==
  IF \A i \in DOMAIN defs : defs[i].conf.trigger = <<>>
  THEN IF d.conf.channel = NoChannel THEN {} ELSE {d.name}
  ELSE UNION {IF t = AllFields THEN {e.name : e \in {e \in ToSet(defs) : e.conf.channel # NoChannel}}
              ELSE IF t \in DOMAIN map /\ defs[map[t]].conf.channel # NoChannel THEN {defs[map[t]].name} ELSE {} :
              t \in ToSet(d.conf.trigger)}

-----------------------------------------------------------------------------
(* createGroups(): the Field objects, their locks and the type.            *)

\* a Field whose record does not exist cannot be made, nor those after it
Created(defs) ==
  LET bad == {i \in DOMAIN defs : defs[i].conf.channel # NoChannel /\ defs[i].conf.channel[1] \notin Records}
  IN IF bad = {} THEN defs ELSE SubSeq(defs, 1, Min(bad) - 1)

\* initialiseTriggers(): the fields by index, which are read and locked
Triggers(defs, map, d) == {map[n] : n \in TriggerNames(defs, map, d)}

LockOf(defs, idx) == {defs[i].conf.channel[1] : i \in {i \in idx : defs[i].conf.channel # NoChannel}}

MakeField(defs, map, d) ==
  LET trig == IF d.conf.channel = NoChannel THEN {} ELSE Triggers(defs, map, d)
  IN [name |-> d.name, type |-> d.conf.type, putOrder |-> d.conf.putOrder,
      rec |-> IF d.conf.channel = NoChannel THEN NoName ELSE d.conf.channel[1],
      triggers |-> trig, lock |-> LockOf(defs, trig)]

\* initialiseValueTemplate(): the members of the group's type
ValueTemplate(fields) == {<<fields[i].name, fields[i].type>> : i \in {i \in DOMAIN fields : fields[i].type # "proc"}}

CreateGroup(g) ==
  LET unsorted == DefineFields(g)
      defs == SortFields(unsorted)
      map == FieldMap(unsorted, defs)
      made == Created(defs)
      ok == made = defs
      fields == [i \in DOMAIN made |-> MakeField(defs, map, made[i])]
  IN [atomic |-> g.atomicIsSet => g.atomic, ok |-> ok, fields |-> fields,
      lock |-> LockOf(defs, DOMAIN made),
      template |-> IF ok THEN ValueTemplate(fields) ELSE {}]

\* processGroups(): a group with the name of a record is ignored
ProcessGroups(files) ==
  LET c == LoadConfigFiles(files)
      valid == ValidateGroups(c.groups)
  IN IF c.aborted \/ c.stopped THEN <<>>
     ELSE [gn \in DOMAIN valid \ Records |-> CreateGroup(valid[gn])]
=============================================================================
