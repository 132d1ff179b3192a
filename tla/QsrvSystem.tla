----------------------------- MODULE QsrvSystem -----------------------------
(***************************************************************************)
(* QSRV: both sources on one database, with a server worker, an event      *)
(* thread for each source, and the threads which scan records.  Documents  *)
(* of the configuration are trees: the parser's events are made from them, *)
(* and so is the reference to which GroupsAgree compares the groups.       *)
(***************************************************************************)
EXTENDS GroupSource, SingleSource

CONSTANTS
  InfoDocs,     \* a sequence of [rec, tree, tail], in the order of the database
  FileDocs,     \* [file name -> [tree, tail]]
  Budgets       \* bounds: how often what happens, and to whom

\* the scans are of records there are, and so are the changes of properties and
\* the client's record
ASSUME BudgetsAssumption ==
  \A b \in Budgets : /\ {"scans", "props", "srec"} \subseteq DOMAIN b
                      /\ b.scans \subseteq SUBSET Records /\ b.props \subseteq Records /\ b.srec \in Records

VARIABLES
  snaps,        \* what whoever locks records can have found in them
  seen,         \* what was last read in one piece: [record -> value]
  left          \* what remains of the budget

vars == <<groupVars, singleVars, db, held, snaps, seen, left>>

-----------------------------------------------------------------------------
(* A tree is a sequence of [group, fields]; fields is a sequence of        *)
(* [name, keys], or [name, value] for an option of the group; keys is a    *)
(* sequence of <<key, value>>.  The tail follows the last group.           *)

Start == Tok("start", 0)
End == Tok("end", 0)
KeyTokens(k, v) == <<Tok("key", k), Tok("value", v)>>
IsOption(f) == "value" \in DOMAIN f
FieldTokens(f) ==
  IF IsOption(f) THEN KeyTokens(f.name, f.value)
  ELSE <<Tok("key", f.name), Start>> \o FlattenSeq([i \in DOMAIN f.keys |-> KeyTokens(f.keys[i][1], f.keys[i][2])]) \o <<End>>
GroupTokens(g) == <<Tok("key", g.group), Start>> \o FlattenSeq([i \in DOMAIN g.fields |-> FieldTokens(g.fields[i])]) \o <<End>>
TextOf(doc) == <<Start>> \o FlattenSeq([i \in DOMAIN doc.tree |-> GroupTokens(doc.tree[i])]) \o doc.tail \o <<End>>

\* the values of a document, in order
Entries(doc, rec) ==
  FlattenSeq([i \in DOMAIN doc.tree |-> LET g == doc.tree[i] IN
    FlattenSeq([j \in DOMAIN g.fields |-> LET f == g.fields[j] IN
      IF IsOption(f) THEN <<[group |-> g.group, field |-> f.name, key |-> NoName, value |-> f.value, rec |-> rec]>>
      ELSE [k \in DOMAIN f.keys |-> [group |-> g.group, field |-> f.name, key |-> f.keys[k][1], value |-> f.keys[k][2], rec |-> rec]]])])

Configured(fs) ==
  FlattenSeq([i \in DOMAIN InfoDocs |-> Entries(InfoDocs[i], InfoDocs[i].rec)]) \o
  FlattenSeq([i \in DOMAIN fs |-> Entries(FileDocs[fs[i]], NoName)])

-----------------------------------------------------------------------------
Spend(what) == left[what] > 0 /\ left' = [left EXCEPT ![what] = @ - 1]

Snap(d, h) == [r \in Records \ h |-> d.val[r]]
Observe == snaps' = snaps \cup {Snap(db', held')}
Unseen == UNCHANGED seen

Init ==
  /\ InitDb /\ InitGroup /\ InitSingle
  /\ seen = <<>>
  /\ snaps = {[r \in Records |-> 0]}
  /\ left \in Budgets /\ srec = left.srec

Configuration ==
  /\ \/ \E f \in left.files : Spend("load") /\ (DbLoadGroup(f) \/ DbUnloadGroup(f))
     \/ InitHook /\ UNCHANGED left
     \/ ResetGroups /\ Spend("reset")
     \/ \E g \in left.targets : OnCreate(g) /\ UNCHANGED left
  /\ UNCHANGED <<singleVars, snaps, seen>>

ScanRecord(d, r) == DbProcess(DbPut(d, r, d.val[r] + 1), r)

\* a scan locks the records of a lock set, changes and processes them
ScanLockSet(S) ==
  /\ phase = "run" /\ CanLock(S) /\ S \cap db.pact = {}
  /\ db' = InTurn(ScanRecord, db, SetToSeq(S))
  /\ UNCHANGED <<groupVars, held>>

\* a record's limits change
ChangeProperty(r) ==
  /\ phase = "run" /\ CanLock({r})
  /\ db' = PostEvents([db EXCEPT !.prop[r] = @ + 1], r, {"property"})
  /\ UNCHANGED <<groupVars, held>>

Environment ==
  /\ \/ \E S \in left.scans : ScanLockSet(S) /\ Spend("scan")
     \/ \E r \in left.props : ChangeProperty(r) /\ Spend("prop")
  /\ Observe /\ Unseen /\ UNCHANGED singleVars

Completion ==
  /\ \E r \in Async : AsyncComplete(r)
  /\ Observe /\ Unseen /\ UNCHANGED <<groupVars, left>>

Markable == {i \in Indices : Group.fields[i].type # "proc"}

\* requests to the group, one at a time
Request ==
  /\ \/ \E atomic \in BOOLEAN : OnGet(atomic) /\ Spend("get")
     \/ \E atomic \in BOOLEAN, force \in left.forces : chan # NoName /\ \E marked \in SUBSET Markable : OnPut(atomic, force, marked) /\ Spend("put")
     \/ OnSubscribe /\ Spend("sub")
     \/ OnStart /\ Spend("start")
     \/ OnDisable /\ Spend("stop")
     \/ OnClose /\ UNCHANGED left
  /\ Observe /\ Unseen /\ UNCHANGED singleVars

\* ... and what the worker does of it
Worker ==
  /\ \/ GetField /\ UNCHANGED seen
     \/ GetReply /\ seen' = IF op.atomic THEN [r \in {Group.fields[i].rec : i \in {i \in DOMAIN op.acc : HasRec(Group.fields[i]) /\ Group.fields[i].type # "meta"}} |->
                                                 op.acc[CHOOSE i \in DOMAIN op.acc : Group.fields[i].rec = r /\ Group.fields[i].type # "meta"].value]
                            ELSE seen
     \/ (PutField \/ PutReply \/ EnableField \/ StartPost \/ StartUnmark) /\ UNCHANGED seen
  /\ Observe /\ UNCHANGED <<singleVars, left>>

GroupEvents ==
  /\ \/ EventBegin /\ UNCHANGED seen
     \/ EventRead /\ seen' = IF gev.e.id.kind = "value" THEN [r \in LiveReads(gev.e) |-> db.val[r]] ELSE seen
  /\ UNCHANGED <<singleVars, snaps, left>>

SingleRequest ==
  /\ phase = "run" /\ op = Idle
  /\ \/ \E block \in BOOLEAN, force \in left.forces, marked \in BOOLEAN : SinglePut(block, force, marked) /\ Spend("sput")
     \/ SingleGet /\ Spend("sget")
     \/ \E dbe \in left.dbes : SingleSubscribe(dbe) /\ Spend("ssub")
     \/ SingleStart(TRUE) /\ Spend("sstart")
     \/ SingleStart(FALSE) /\ Spend("sstop")
     \/ SingleClose /\ UNCHANGED left
  /\ Observe /\ Unseen /\ UNCHANGED groupVars

SingleEvents == SingleEvent /\ Unseen /\ UNCHANGED <<groupVars, snaps, left>>
Notified == NotifyRestart /\ Observe /\ Unseen /\ UNCHANGED <<groupVars, left>>

Next ==
  \/ Configuration \/ Environment \/ Completion \/ Request \/ Worker
  \/ GroupEvents \/ SingleRequest \/ SingleEvents \/ Notified

\* the worker and the event threads go on, and an active record completes
Spec ==
  /\ Init /\ [][Next]_vars
  /\ WF_vars(Worker) /\ WF_vars(GroupEvents) /\ WF_vars(SingleEvents) /\ WF_vars(Notified)
  /\ WF_vars(Completion)

-----------------------------------------------------------------------------
\* What entries c say of a group, a field and a key last.
Said(c, g, f, k) == {i \in DOMAIN c : c[i].group = g /\ c[i].field = f /\ c[i].key = k /\ (k = "+type" => c[i].value \in Types)}
LastSaid(c, g, f, k, default) == IF Said(c, g, f, k) = {} THEN default ELSE c[Max(Said(c, g, f, k))].value
FieldsOf(c, g) == {c[i].field : i \in {i \in DOMAIN c : c[i].group = g /\ c[i].key # NoName}}
RecordSaid(c, g, f) == LET e == c[Max(Said(c, g, f, "+channel"))] IN IF e.rec = NoName THEN e.value[1] ELSE e.rec

\* a field as the documents describe it
Described(c, g, f) ==
  LET type == LastSaid(c, g, f, "+type", "scalar")
      mapped == type \notin {"structure", "const"}
      named == Said(c, g, f, "+channel") # {}
  IN [type |-> type, order |-> LastSaid(c, g, f, "+putorder", MinOrder), valid |-> mapped => named,
      rec |-> IF mapped /\ named THEN RecordSaid(c, g, f) ELSE NoName,
      trig |-> ToSet(LastSaid(c, g, f, "+trigger", <<>>))]

PositionOf(f) == CHOOSE i \in DOMAIN NameOrder : NameOrder[i] = f

FieldsAgree(fs, d) ==
  LET kept == {f \in DOMAIN d : f # NoName \/ d[f].type = "meta"}
      refreshes(f) == IF \A h \in kept : d[h].trig = {} THEN {f}
                      ELSE {h \in kept : d[h].rec # NoName /\ (h \in d[f].trig \/ AllFields \in d[f].trig)}
  IN /\ {fs[i].name : i \in DOMAIN fs} = kept /\ Cardinality(kept) = Len(fs)
     /\ \A i, j \in DOMAIN fs : i < j =>
          LET p == d[fs[i].name].order q == d[fs[j].name].order
          IN p < q \/ (p = q /\ PositionOf(fs[i].name) < PositionOf(fs[j].name))
     /\ \A i \in DOMAIN fs : LET f == fs[i] e == d[f.name] IN
          /\ f.rec = e.rec /\ f.type = e.type
          /\ {fs[j].name : j \in f.triggers} = IF e.rec = NoName THEN {} ELSE refreshes(f.name)
          /\ f.lock = {fs[j].rec : j \in f.triggers}

Agrees(made, fs) ==
  LET c == Configured(fs)
      names == {c[i].group : i \in DOMAIN c}
      described == [g \in names |-> [f \in FieldsOf(c, g) |-> Described(c, g, f)]]
  IN IF \E i \in DOMAIN fs : FileDocs[fs[i]].tail # <<>> THEN made = <<>>
     ELSE /\ DOMAIN made = {g \in names \ Records : \A f \in DOMAIN described[g] : described[g][f].valid}
          /\ \A g \in DOMAIN made : LET d == described[g] IN
               /\ made[g].atomic = LastSaid(c, g, "+atomic", NoName, TRUE)
               /\ made[g].ok <=> \A f \in DOMAIN d : d[f].rec \in Records \cup {NoName}
               /\ made[g].ok => FieldsAgree(made[g].fields, d)

\* iocInit() makes the groups which the documents describe, whichever order they
\* came in: fields by +putorder and then by name, each with its record and the
\* fields it refreshes, and a lock on exactly the records of these.
GroupsAgree == [][phase = "void" /\ phase' = "run" => Agrees(groups', files)]_vars

\* What an atomic get returns, and what one event callback reads of the other
\* fields it refreshes, was true of all these records at one moment at which no
\* atomic put was half done.
AtomicSeenWhole == \E s \in snaps : \A r \in DOMAIN seen : r \in DOMAIN s /\ s[r] = seen[r]

\* A put writes the fields which are marked and have a +putorder, in that order;
\* when it succeeds all of them, when it fails those before the first which may
\* not be written, and none when a record of the group is put-disabled; and when
\* it is atomic no scan comes between.  The reply to a
\* put which waits comes when the record has been processed with its value (or with
\* the group's, which may be written while the record is active).
PutReplied ==
  /\ last.k = "put" =>
       LET rec(i) == Group.fields[i].rec
           want == {i \in Indices \cap last.marked : HasRec(Group.fields[i]) /\ Group.fields[i].putOrder # MinOrder}
           enabled == \A i \in Indices : HasRec(Group.fields[i]) => PutEnabled(rec(i))
       IN /\ last.kept
          /\ \A n \in 1..Len(last.written) - 1 : last.written[n] < last.written[n + 1]
          /\ ToSet(last.written) = IF enabled THEN {i \in want : \A j \in want : j <= i => CanWrite(rec(j))} ELSE {}
          /\ last.ok => enabled /\ \A i \in want : CanWrite(rec(i))
          /\ enabled /\ ~last.ok => last.marked # {}
  /\ sreply.k = "put" /\ sreply.ok /\ sreply.waited /\ sreply.marked => sreply.posted \in {SingleValue, PutValue}

TypeParts(type) == PartsOf(type, Everything)
RefreshedBySome(i) == \E j \in Indices : i \in Group.fields[j].triggers

\* The first update of a subscription has all parts of every field (of a single
\* record the alarm only if DBE selects it): it waits for
\* the value and the property events of all of them.  (A start whose own post
\* meets a callback is left out: it may post first, see the README.)
FirstIsWhole ==
  /\ gsub # NoSub /\ ~raced /\ gsub.primed =>
       \A i \in Indices :
         LET f == Group.fields[i]
             parts == {x \in TypeParts(f.type) : x = "prop" \/ f.type = "const" \/ RefreshedBySome(i)}
         IN \A x \in parts : <<i, x>> \in firstPost
  /\ ssub # NoSingleSub /\ SingleIds \subseteq ssub.had => sfirst = {"value", "prop"} \cup (ssub.select \cap {"alarm"})

\* the value of the last event, or what a refresh by another field found later
Known(r, id) == {db.subs[id].last, db.val[r]}

GroupCurrent ==
  gsub.state = "started" /\ ~raced =>
    \A i \in Indices : LET f == Group.fields[i] v == gview[i] IN
      HasRec(f) /\ i \in f.triggers => \A x \in TypeParts(f.type) :
        CASE x = "value" -> v.value \in Known(f.rec, GroupId(i, "value"))
          [] x = "alarm" -> v.alarm = Severity(db, f.rec)
          [] x = "prop" -> v.prop = db.prop[f.rec]

SingleCurrent ==
  ssub.state = "started" =>
    /\ sview.prop = db.prop[srec]
    /\ sview.value = db.subs[SingleId("value")].last
    /\ "alarm" \in ssub.select => sview.alarm = Severity(db, srec)

\* Once records stay as they are, both subscribers know what was last posted to
\* them, with the alarm and the properties there are,
\* and no client waits for a put any more.
ViewSettles == <>[](GroupCurrent /\ SingleCurrent /\ notify = NoNotify)
=============================================================================
