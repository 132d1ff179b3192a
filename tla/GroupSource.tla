----------------------------- MODULE GroupSource -----------------------------
(***************************************************************************)
(* The source of group PVs (ioc/groupsource.cpp), for one client of one    *)
(* group: get, put and a subscription.  Operations run on the server's     *)
(* worker, field by field; the callbacks of database events on a thread of *)
(* their own.  The server's queue of updates is left out (see              *)
(* ServerMonitor): what is posted is what the subscriber sees.             *)
(***************************************************************************)
EXTENDS GroupConfig

CONSTANTS
  Files,        \* [file name -> text]
  PutValue      \* what clients write

ASSUME PutValueAssumption == PutValue \in Int

VARIABLES
  phase,        \* "void" before iocInit(), "run" after it, "ended" after an abort
  files,        \* config.groupConfigFiles
  groups,       \* config.groupMap
  chan,         \* the group the client has a channel to, or NoName
  op,           \* what the worker is doing
  last,         \* the last reply to a group operation
  gsub,         \* the GroupSourceSubscriptionCtx
  gev,          \* the callback under way on the event thread
  gview,        \* what the subscriber knows
  firstPost,    \* the parts which came with the first update
  raced         \* the worker's subscriptionPost() met a callback

groupVars == <<phase, files, groups, chan, op, last, gsub, gev, gview, firstPost, raced>>

Idle == [k |-> "idle"]
NoReply == [k |-> "none"]
NoSub == [state |-> "none"]
NoEvent == [k |-> "none"]
Group == groups[chan]
Indices == DOMAIN Group.fields
GroupId(i, kind) == [src |-> "group", i |-> i, kind |-> kind]
NoView == <<>>

InitGroup ==
  /\ phase = "void" /\ files = <<>> /\ groups = <<>> /\ chan = NoName
  /\ op = Idle /\ last = NoReply /\ gsub = NoSub /\ gev = NoEvent /\ gview = NoView /\ firstPost = {} /\ raced = FALSE

-----------------------------------------------------------------------------
(* dbLoadGroup(), iocInit() and the search for a group.                    *)

Without(f) == SelectSeq(files, LAMBDA x : x # f)

DbLoadGroup(f) ==
  /\ phase = "void"
  /\ files' = Append(Without(f), f)
  /\ UNCHANGED <<phase, groups, chan, op, last, gsub, gev, gview, firstPost, raced, db, held>>

DbUnloadGroup(f) ==
  /\ phase = "void" /\ files # <<>>
  /\ files' \in {Without(f), <<>>}
  /\ UNCHANGED <<phase, groups, chan, op, last, gsub, gev, gview, firstPost, raced, db, held>>

Texts == [i \in DOMAIN files |-> [text |-> Files[files[i]]]]

InitHook ==
  /\ phase = "void"
  /\ phase' = IF LoadConfigFiles(Texts).aborted THEN "ended" ELSE "run"
  /\ groups' = ProcessGroups(Texts)
  /\ files' = <<>>
  /\ UNCHANGED <<chan, op, last, gsub, gev, gview, firstPost, raced, db, held>>

\* resetGroups(), with the server stopped
ResetGroups ==
  /\ phase = "run" /\ op = Idle /\ gsub = NoSub
  /\ phase' = "void" /\ groups' = <<>> /\ files' = <<>> /\ chan' = NoName /\ last' = NoReply
  /\ UNCHANGED <<op, gsub, gev, gview, firstPost, raced, db, held>>

\* onSearch() and onCreate(); a group without its type serves nothing
OnCreate(g) ==
  /\ phase = "run" /\ chan = NoName /\ g \in DOMAIN groups /\ groups[g].ok
  /\ chan' = g
  /\ UNCHANGED <<phase, files, groups, op, last, gsub, gev, gview, firstPost, raced, db, held>>

-----------------------------------------------------------------------------
(* Get and put.                                                            *)

HasRec(f) == f.rec # NoName

OpLocksNone(atomic) == {}

\* the records an operation locks for all its fields
OpLocks(atomic) == IF atomic THEN Together(Group.lock) ELSE {}

OnGet(atomic) ==
  /\ chan # NoName /\ op = Idle
  /\ op' = [k |-> "get", atomic |-> atomic, i |-> 1, acc |-> <<>>]
  /\ held' = OpLocks(atomic)
  /\ UNCHANGED <<phase, files, groups, chan, last, gsub, gev, gview, firstPost, raced, db>>

\* getGroupField()
GetField ==
  LET f == Group.fields[op.i]
  IN /\ op.k = "get" /\ op.i \in Indices
     /\ op' = [op EXCEPT !.i = @ + 1,
                         !.acc = IF f.type \in {"proc", "structure"} THEN @
                                 ELSE With(@, op.i, Read(NoNode, f.type, Everything, db, f.rec))]
     /\ UNCHANGED <<phase, files, groups, chan, last, gsub, gev, gview, firstPost, raced, db, held>>

GetReply ==
  /\ op.k = "get" /\ op.i \notin Indices
  /\ last' = op
  /\ op' = Idle /\ held' = {}
  /\ UNCHANGED <<phase, files, groups, chan, gsub, gev, gview, firstPost, raced, db>>

\* onPutGroup(): every field is looked at before the first is written
OnPut(atomic, force, marked) ==
  /\ chan # NoName /\ op = Idle
  /\ IF \A i \in Indices : HasRec(Group.fields[i]) => PutEnabled(Group.fields[i].rec)
     THEN /\ op' = [k |-> "put", atomic |-> atomic, force |-> force, marked |-> marked, i |-> 1,
                    written |-> <<>>, did |-> FALSE, permitted |-> TRUE]
          /\ held' = OpLocks(atomic)
          /\ UNCHANGED last
     ELSE /\ last' = [k |-> "put", ok |-> FALSE, marked |-> marked, written |-> <<>>, kept |-> TRUE]
          /\ UNCHANGED <<op, held>>
  /\ UNCHANGED <<phase, files, groups, chan, gsub, gev, gview, firstPost, raced, db>>

ChangingAny(f, i) == i \in op.marked /\ HasRec(f)

Changing(f, i) == i \in op.marked /\ HasRec(f) /\ f.putOrder # MinOrder

\* putGroupField()
PutField ==
  LET f == Group.fields[op.i]
      changing == Changing(f, op.i)
      put == IF changing THEN Put(db, f.rec, f.type, PutValue) ELSE db
      does == changing \/ f.type = "proc"
  IN /\ op.k = "put" /\ op.i \in Indices /\ op.permitted
     /\ IF changing /\ ~CanWrite(f.rec)
        THEN op' = [op EXCEPT !.permitted = FALSE] /\ UNCHANGED db
        ELSE /\ db' = IF does THEN PostProcess(put, f.rec, IF f.type = "proc" THEN "true" ELSE op.force) ELSE db
             /\ op' = [op EXCEPT !.i = @ + 1, !.did = @ \/ does,
                                 !.written = IF changing THEN Append(@, op.i) ELSE @]
     /\ UNCHANGED <<phase, files, groups, chan, last, gsub, gev, gview, firstPost, raced, held>>

\* every record written has the client's value
Kept == \A i \in ToSet(op.written) : LET f == Group.fields[i] IN f.type \in {"scalar", "plain", "any"} => db.val[f.rec] = PutValue

PutReply ==
  /\ op.k = "put" /\ (op.i \notin Indices \/ ~op.permitted)
  /\ last' = [k |-> "put", ok |-> op.permitted /\ (op.did \/ op.marked = {}), marked |-> op.marked,
              written |-> op.written, kept |-> op.atomic => Kept]
  /\ op' = Idle /\ held' = {}
  /\ UNCHANGED <<phase, files, groups, chan, gsub, gev, gview, firstPost, raced, db>>

-----------------------------------------------------------------------------
(* The subscription.                                                       *)

ValueMask(f) == IF f.type = "meta" THEN {"alarm"} ELSE {"value", "alarm", "archive"}
HasProperties(f) == f.type \in {"meta", "scalar"}

AllIds == {GroupId(i, kind) : i \in Indices, kind \in {"value", "property"}}

\* events which have not to be waited for
NothingToWaitFor(id) == LET f == Group.fields[id.i] IN ~HasRec(f) \/ (id.kind = "property" /\ ~HasProperties(f))

FieldIds == {id \in AllIds : ~NothingToWaitFor(id)}
SubscribeField(id) ==
  [rec |-> Group.fields[id.i].rec, select |-> IF id.kind = "value" THEN ValueMask(Group.fields[id.i]) ELSE {"property"}]

\* constants are set, the options and form are marked at once
OnSubscribe ==
  /\ chan # NoName /\ op = Idle /\ gsub = NoSub
  /\ gsub' = [state |-> "stopped", primed |-> FALSE, options |-> TRUE,
              had |-> AllIds \ FieldIds,
              cur |-> [i \in Indices |-> IF Group.fields[i].type = "const" THEN [NoNode EXCEPT !.value = 0] ELSE NoNode],
              marks |-> {<<i, "value">> : i \in {i \in Indices : Group.fields[i].type = "const"}}]
  /\ db' = Subscribe(db, [id \in FieldIds |-> SubscribeField(id)])
  /\ gview' = [i \in Indices |-> NoNode]
  /\ firstPost' = {}
  /\ UNCHANGED <<phase, files, groups, chan, op, last, gev, raced, held>>

OnStart ==
  /\ gsub.state = "stopped" /\ op = Idle
  /\ op' = [k |-> "start", i |-> 1]
  /\ gsub' = [gsub EXCEPT !.state = "started"]
  /\ UNCHANGED <<phase, files, groups, chan, last, gev, gview, firstPost, raced, db, held>>

EnableField ==
  /\ op.k = "start" /\ op.i \in Indices
  /\ db' = Enable(Enable(db, GroupId(op.i, "value")), GroupId(op.i, "property"))
  /\ op' = [op EXCEPT !.i = @ + 1]
  /\ UNCHANGED <<phase, files, groups, chan, last, gsub, gev, gview, firstPost, raced, held>>

PrimedByValues(s) == s.primed \/ {id \in AllIds : id.kind = "value"} \subseteq s.had

Primed(s) == s.primed \/ AllIds \subseteq s.had

\* is there something to post?
Posts(s) == Primed(s) /\ (~s.primed \/ s.marks # {} \/ s.options)

Posted(s, view) == [i \in DOMAIN view |-> [x \in DOMAIN view[i] |-> IF <<i, x>> \in s.marks THEN s.cur[i][x] ELSE view[i][x]]]

Unmark(s) == [s EXCEPT !.marks = {}, !.options = FALSE]

\* post(currentValue.clone()), with which a subscription is primed
SubscriptionPost(s) ==
  IF Posts(s)
  THEN gview' = Posted(s, gview) /\ firstPost' = IF s.primed THEN firstPost ELSE s.marks
  ELSE UNCHANGED <<gview, firstPost>>

\* subscriptionPost() at the end of onStartSubscription(), on the worker, with no lock
StartPost ==
  /\ op.k = "start" /\ op.i \notin Indices
  /\ SubscriptionPost(gsub)
  /\ gsub' = IF Primed(gsub) THEN [gsub EXCEPT !.primed = TRUE] ELSE gsub
  /\ op' = IF Posts(gsub) THEN [k |-> "unmark"] ELSE Idle
  /\ raced' = (raced \/ gev # NoEvent)
  /\ UNCHANGED <<phase, files, groups, chan, last, gev, db, held>>

StartUnmark ==
  /\ op.k = "unmark"
  /\ gsub' = Unmark(gsub) /\ op' = Idle
  /\ raced' = (raced \/ gev # NoEvent)
  /\ UNCHANGED <<phase, files, groups, chan, last, gev, gview, firstPost, db, held>>

OnDisable ==
  /\ gsub.state = "started" /\ op = Idle
  /\ db' = Disable(db, FieldIds)
  /\ gsub' = [gsub EXCEPT !.state = "stopped"]
  /\ UNCHANGED <<phase, files, groups, chan, op, last, gev, gview, firstPost, raced, held>>

\* the subscription is closed, which waits for the callback under way
OnClose ==
  /\ gsub.state = "stopped" /\ op = Idle /\ gev = NoEvent
  /\ db' = Cancel(db, "group")
  /\ gsub' = NoSub /\ gview' = NoView /\ firstPost' = {}
  /\ UNCHANGED <<phase, files, groups, chan, op, last, gev, raced, held>>

-----------------------------------------------------------------------------
(* The callbacks.                                                          *)

\* the flags are set before anything is read
EventBegin ==
  /\ gev = NoEvent /\ db.evq["group"] # <<>>
  /\ gev' = [k |-> "event", e |-> Head(db.evq["group"])]
  /\ db' = [db EXCEPT !.evq["group"] = Tail(@)]
  /\ gsub' = [gsub EXCEPT !.had = @ \cup {Head(db.evq["group"]).id}]
  /\ UNCHANGED <<phase, files, groups, chan, op, last, gview, firstPost, raced, held>>

\* the field's own value is that of the event; the others are read now
Triggered(e, i, node) ==
  LET f == Group.fields[i]
  IN IF i = e.id.i THEN Get(node, f.type, e.mask, e.log, e.sevr, db.prop[f.rec])
     ELSE Read(node, f.type, {"value", "alarm"}, db, f.rec)

ChangeOf(e, i) == IF i = e.id.i THEN e.mask ELSE {"value", "alarm"}

\* what a callback reads in the database
LiveReads(e) == {Group.fields[i].rec : i \in Group.fields[e.id.i].triggers \ {e.id.i}}

FieldLock(e) == IF e.id.kind = "value" THEN Group.fields[e.id.i].lock ELSE {Group.fields[e.id.i].rec}

AfterEvent(e) ==
  LET f == Group.fields[e.id.i]
      refreshed == IF e.id.kind = "value" THEN f.triggers ELSE {e.id.i}
      change(i) == IF e.id.kind = "value" THEN ChangeOf(e, i) ELSE {"property"}
      node(i) == IF e.id.kind = "value" THEN Triggered(e, i, gsub.cur[i]) ELSE Read(gsub.cur[i], f.type, {"property"}, db, f.rec)
  IN [gsub EXCEPT !.cur = [i \in DOMAIN @ |-> IF i \in refreshed THEN node(i) ELSE @[i]],
                  !.marks = @ \cup UNION {{<<i, x>> : x \in PartsOf(Group.fields[i].type, change(i))} : i \in refreshed}]

\* subscriptionValueCallback(), subscriptionPropertiesCallback(), under the locks
EventRead ==
  LET s == AfterEvent(gev.e)
  IN /\ gev # NoEvent /\ CanLock(FieldLock(gev.e))
     /\ SubscriptionPost(s)
     /\ gsub' = [(IF Posts(s) THEN Unmark(s) ELSE s) EXCEPT !.primed = Primed(s)]
     /\ gev' = NoEvent
     /\ raced' = (raced \/ op.k = "unmark")
     /\ UNCHANGED <<phase, files, groups, chan, op, last, db, held>>
=============================================================================
