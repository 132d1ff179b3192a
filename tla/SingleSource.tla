---------------------------- MODULE SingleSource ----------------------------
(***************************************************************************)
(* The source of single records (ioc/singlesource.cpp), for one client of  *)
(* one record: get, put with and without waiting, and a subscription.      *)
(***************************************************************************)
EXTENDS Database

CONSTANT SingleValue    \* what the client writes
ASSUME SingleValueAssumption == SingleValue \in Int

VARIABLES
  srec,         \* the record the client's channel is to
  ssub,         \* the SingleSourceSubscriptionCtx
  sview,        \* what the subscriber knows
  sfirst,       \* the parts which came with the first update
  notify,       \* the put the client waits for: the processNotify
  sreply        \* the last reply to a put

singleVars == <<srec, ssub, sview, sfirst, notify, sreply>>

NoSingleSub == [state |-> "none"]
NoNotify == [state |-> "none"]
SingleId(kind) == [src |-> "single", i |-> 0, kind |-> kind]
SingleIds == {SingleId("value"), SingleId("property")}

InitSingle ==
  /\ ssub = NoSingleSub /\ sview = NoNode /\ sfirst = {} /\ notify = NoNotify /\ sreply = [k |-> "none"]

-----------------------------------------------------------------------------
(* Put.                                                                    *)

SingleFree == CanLock({srec})

\* a put without a marked value still writes what an unset value holds: zero
Written(marked) == IF marked THEN SingleValue ELSE 0

\* a reply, with the value the record was last processed with
Replied(ok, waited, marked) == [k |-> "put", ok |-> ok, waited |-> waited, marked |-> marked, posted |-> db'.posted[srec]]

\* dbProcessNotify() of EPICS Base, with putCallback(): nothing is written
\* when nothing is marked
RunNotify(d, marked) == DbProcess(IF marked THEN DbPut(d, srec, SingleValue) ELSE d, srec)

\* doneCallback(), at once unless the record completes later
NotifyRuns(marked) ==
  /\ db' = RunNotify(db, marked)
  /\ IF srec \in Async
     THEN notify' = [state |-> "active", marked |-> marked] /\ UNCHANGED sreply
     ELSE notify' = NoNotify /\ sreply' = Replied(TRUE, TRUE, marked)

SingleGet ==
  /\ SingleFree
  /\ sreply' = [k |-> "get", node |-> Read(NoNode, "scalar", Everything, db, srec)]
  /\ UNCHANGED <<ssub, sview, sfirst, notify, db, held, srec>>

\* onOp()'s onPut(); the reply is still owed while a client waits
SinglePut(block, force, marked) ==
  /\ notify = NoNotify /\ SingleFree
  /\ CASE ~(PutEnabled(srec) /\ CanWrite(srec)) ->
            UNCHANGED <<db, notify>> /\ sreply' = Replied(FALSE, FALSE, marked)
       [] PutEnabled(srec) /\ CanWrite(srec) /\ block /\ force # "false" ->
            IF srec \in db.pact
            THEN notify' = [state |-> "waiting", marked |-> marked] /\ UNCHANGED <<db, sreply>>
            ELSE NotifyRuns(marked)
       [] OTHER ->
            /\ db' = PostProcess(DbPut(db, srec, Written(marked)), srec, force)
            /\ sreply' = Replied(TRUE, FALSE, marked)
            /\ UNCHANGED notify
  /\ UNCHANGED <<ssub, sview, sfirst, held, srec>>

\* the record was active when the put came
NotifyRestart ==
  /\ notify.state = "waiting" /\ srec \notin db.pact /\ SingleFree
  /\ db' = RunNotify(db, notify.marked)
  /\ notify' = [notify EXCEPT !.state = "active"]
  /\ UNCHANGED <<ssub, sview, sfirst, sreply, held, srec>>

\* an active record completes, and is processed once more if that was asked for
AsyncComplete(r) ==
  LET d == [Complete(db, r) EXCEPT !.pact = @ \ {r}]
  IN /\ r \in db.pact /\ CanLock({r})
     /\ db' = IF r \in d.rpro THEN DbProcess([d EXCEPT !.rpro = @ \ {r}], r) ELSE d
     /\ IF r = srec /\ notify.state = "active"
        THEN notify' = NoNotify /\ sreply' = Replied(TRUE, TRUE, notify.marked)
        ELSE UNCHANGED <<notify, sreply>>
     /\ UNCHANGED <<ssub, sview, sfirst, held, srec>>

-----------------------------------------------------------------------------
(* The subscription.                                                       *)

\* the mask of pvRequest's DBE option; PROPERTY has a subscription of its own
ValueSelect(dbe) == IF dbe \cap {"value", "archive", "alarm"} = {} THEN {"value", "alarm"} ELSE dbe \cap {"value", "archive", "alarm"}

SingleSubscribe(dbe) ==
  /\ ssub = NoSingleSub
  /\ ssub' = [state |-> "stopped", had |-> {}, cur |-> NoNode, marks |-> {}, select |-> ValueSelect(dbe)]
  /\ db' = Subscribe(db, [id \in SingleIds |-> [rec |-> srec, select |-> IF id.kind = "value" THEN ValueSelect(dbe) ELSE {"property"}]])
  /\ sview' = NoNode /\ sfirst' = {}
  /\ UNCHANGED <<notify, sreply, held, srec>>

SingleStart(start) ==
  /\ ssub.state = IF start THEN "stopped" ELSE "started"
  /\ ssub' = [ssub EXCEPT !.state = IF start THEN "started" ELSE "stopped"]
  /\ SingleFree
  /\ db' = IF start THEN Enable(Enable(db, SingleId("value")), SingleId("property"))
           ELSE Disable(db, SingleIds)
  /\ UNCHANGED <<sview, sfirst, notify, sreply, held, srec>>

SingleClose ==
  /\ ssub.state = "stopped"
  /\ ssub' = NoSingleSub /\ db' = Cancel(db, "single") /\ sview' = NoNode /\ sfirst' = {}
  /\ UNCHANGED <<notify, sreply, held, srec>>

ChangeAsIs(mask) == mask \cap Everything

\* ARCHIVE counts as VALUE, and ALARM alone brings the value too
ChangeFor(mask) ==
  LET values == IF "archive" \in mask THEN mask \cup {"value"} ELSE mask
  IN (IF values \cap {"value", "alarm"} = {"alarm"} THEN values \cup {"value"} ELSE values) \cap Everything

\* the first update waits for both kinds of event
BothHad(had) == SingleIds \subseteq had

\* the value is that of the event, the properties are read now
SingleRefresh(e, change) == Get(ssub.cur, "scalar", change, e.log, e.sevr, db.prop[srec])

\* subscriptionValueCallback(), subscriptionPropertiesCallback()
SingleEvent ==
  LET e == Head(db.evq["single"])
      change == IF e.id.kind = "value" THEN ChangeFor(e.mask) ELSE {"property"}
      had == ssub.had \cup {e.id}
      cur == SingleRefresh(e, change)
      marks == ssub.marks \cup PartsOf("scalar", change)
  IN /\ db.evq["single"] # <<>> /\ SingleFree
     /\ db' = [db EXCEPT !.evq["single"] = Tail(@)]
     /\ IF BothHad(had)
        THEN /\ sview' = [x \in DOMAIN sview |-> IF x \in marks THEN cur[x] ELSE sview[x]]
             /\ sfirst' = IF BothHad(ssub.had) THEN sfirst ELSE marks
             /\ ssub' = [ssub EXCEPT !.had = had, !.cur = cur, !.marks = {}]
        ELSE /\ ssub' = [ssub EXCEPT !.had = had, !.cur = cur, !.marks = marks]
             /\ UNCHANGED <<sview, sfirst>>
     /\ UNCHANGED <<notify, sreply, held, srec>>
=============================================================================
