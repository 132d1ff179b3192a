------------------------------ MODULE QsrvProofs ------------------------------
(***************************************************************************)
(* An atomic get sees one moment, a put writes what it should and in its   *)
(* order, and the first update of a subscription is whole, for any records *)
(* and lock sets, any configuration of groups and any budget.              *)
(***************************************************************************)
EXTENDS QsrvSystem, FiniteSetTheorems, SequenceTheorems, WellFoundedInduction, TLAPS

\* The types of the database, of subscriptions and of events
Masks == {"value", "alarm", "archive", "property"}
Kinds == {"value", "property"}
Ids == [src : Sources, i : Nat, kind : Kinds]
Subscriptions == [rec : Records, select : SUBSET Masks, enabled : BOOLEAN, last : Int]
Events == [id : Ids, mask : SUBSET Masks, log : Int, sevr : Int]
DbOK(d) ==
    /\ d = [val |-> d.val, prop |-> d.prop, posted |-> d.posted, pact |-> d.pact, rpro |-> d.rpro,
            subs |-> d.subs, evq |-> d.evq]
    /\ d.val \in [Records -> Int] /\ d.posted \in [Records -> Int]
    /\ d.pact \subseteq Records \cap Async /\ d.rpro \subseteq Records
    /\ DOMAIN d.subs \subseteq Ids /\ IsFiniteSet(DOMAIN d.subs)
    /\ \A id \in DOMAIN d.subs : d.subs[id] \in Subscriptions
    /\ d.evq \in [Sources -> Seq(Events)]

\* A group which can be served
Mapped(f) == f.rec # NoName
FieldOK(g, f) ==
    /\ f.rec \in Records \cup {NoName}
    /\ f.rec = NoName <=> f.type \in {"structure", "const"}
    /\ Mapped(f) => f.rec \in g.lock
    /\ f.triggers \subseteq DOMAIN g.fields /\ (f.triggers # {} => Mapped(f))
    /\ \A j \in f.triggers : Mapped(g.fields[j]) /\ g.fields[j].rec \in f.lock
    /\ f.lock \subseteq Records
GroupOK(g) ==
    /\ Len(g.fields) \in Nat /\ DOMAIN g.fields = 1..Len(g.fields)
    /\ g.lock \subseteq Records
    /\ \A i \in DOMAIN g.fields : FieldOK(g, g.fields[i])

Chan ==
    /\ \A g \in DOMAIN groups : groups[g].ok => GroupOK(groups[g])
    /\ chan # NoName => chan \in DOMAIN groups /\ groups[chan].ok
    /\ phase = "void" => chan = NoName
    /\ op # Idle \/ gsub # NoSub \/ last.k = "put" => chan # NoName

\* What the worker, the subscriptions and the put which waits consist of
OpOK ==
    \/ op = Idle
    \/ /\ op.k = "get" /\ op = [k |-> "get", atomic |-> op.atomic, i |-> op.i, acc |-> op.acc]
       /\ op.atomic \in BOOLEAN /\ op.i \in Nat \ {0}
    \/ /\ op.k = "put"
       /\ op = [k |-> "put", atomic |-> op.atomic, force |-> op.force, marked |-> op.marked, i |-> op.i,
                written |-> op.written, did |-> op.did, permitted |-> op.permitted]
       /\ op.atomic \in BOOLEAN /\ op.i \in Nat \ {0} /\ op.written \in Seq(Nat)
       /\ op.did \in BOOLEAN /\ op.permitted \in BOOLEAN
    \/ op.k = "start" /\ op = [k |-> "start", i |-> op.i] /\ op.i \in Nat \ {0}
    \/ op = [k |-> "unmark"]
GSubOK ==
    \/ gsub = NoSub
    \/ /\ gsub.state \in {"stopped", "started"}
       /\ gsub = [state |-> gsub.state, primed |-> gsub.primed, options |-> gsub.options, had |-> gsub.had,
                  cur |-> gsub.cur, marks |-> gsub.marks]
       /\ gsub.primed \in BOOLEAN /\ gsub.options \in BOOLEAN
SSubOK ==
    \/ ssub = NoSingleSub
    \/ /\ ssub.state \in {"stopped", "started"}
       /\ ssub = [state |-> ssub.state, had |-> ssub.had, cur |-> ssub.cur, marks |-> ssub.marks, select |-> ssub.select]
NotifyOK ==
    \/ notify = NoNotify
    \/ /\ notify.state \in {"waiting", "active"} /\ notify.marked \in BOOLEAN
       /\ notify = [state |-> notify.state, marked |-> notify.marked]
GevOK == gev = NoEvent \/ (gev = [k |-> "event", e |-> gev.e] /\ gev.e \in Events)

\* The subscriptions of a source, ids, of which those of had have had an event: the
\* first event of any other is the one which its start made.
First(d, s, k) == \A j \in 1..(k - 1) : d.evq[s][j].id # d.evq[s][k].id
Queue(d, s, ids, had) ==
    /\ {id \in DOMAIN d.subs : id.src = s} = ids
    /\ \A k \in DOMAIN d.evq[s] : d.evq[s][k].id \in ids /\ d.evq[s][k].mask \subseteq d.subs[d.evq[s][k].id].select
    /\ \A id \in ids \ had : d.subs[id].enabled => \E k \in DOMAIN d.evq[s] : d.evq[s][k].id = id
    /\ \A k \in DOMAIN d.evq[s] : d.evq[s][k].id \notin had /\ First(d, s, k) =>
          d.evq[s][k].mask = d.subs[d.evq[s][k].id].select
GroupQueue ==
    /\ gsub = NoSub => gev = NoEvent /\ Queue(db, "group", {}, {})
    /\ gsub # NoSub =>
          /\ Queue(db, "group", FieldIds, gsub.had) /\ \A id \in FieldIds : db.subs[id].select = SubscribeField(id).select
          /\ gev # NoEvent => gev.e.id \in FieldIds \cap gsub.had
SingleQueue ==
    /\ ssub = NoSingleSub => Queue(db, "single", {}, {})
    /\ ssub # NoSingleSub =>
          /\ Queue(db, "single", SingleIds, ssub.had)
          /\ db.subs[SingleId("value")].select = ssub.select /\ db.subs[SingleId("property")].select = {"property"}
          /\ ssub.select \subseteq {"value", "alarm", "archive"} /\ ssub.select # {}

\* What an atomic get or put keeps as it is
Locked ==
    /\ Snap(db, held) \in snaps
    /\ op.k \in {"get", "put"} => held = OpLocks(op.atomic)
    /\ op.k \notin {"get", "put"} => held = {}
    /\ op.k = "get" =>
          /\ DOMAIN op.acc \subseteq Indices
          /\ op.atomic => \A i \in DOMAIN op.acc : LET f == Group.fields[i] IN
                Mapped(f) /\ f.type # "meta" => op.acc[i].value = db.val[f.rec]
    /\ op.k = "put" /\ op.atomic => Kept

\* How far a put has come
WantOf(marked) == {i \in Indices \cap marked : HasRec(Group.fields[i]) /\ Group.fields[i].putOrder # MinOrder}
PutSoFar ==
    op.k = "put" =>
        /\ \A i \in Indices : HasRec(Group.fields[i]) => PutEnabled(Group.fields[i].rec)
        /\ \A n \in 1..(Len(op.written) - 1) : op.written[n] < op.written[n + 1]
        /\ ToSet(op.written) = {i \in WantOf(op.marked) : i < op.i}
        /\ \A i \in WantOf(op.marked) : i < op.i => CanWrite(Group.fields[i].rec)
        /\ ~op.permitted => op.i \in WantOf(op.marked) /\ ~CanWrite(Group.fields[op.i].rec)
        /\ ToSet(op.written) # {} => op.did
Waiting ==
    /\ notify # NoNotify => srec \in Async
    /\ notify.state = "active" => srec \in db.pact /\ (notify.marked => db.val[srec] \in {SingleValue, PutValue})

\* The parts of its fields which the first event of a subscription brings
Covers(id) ==
    IF id.kind = "value"
    THEN UNION {{<<i, x>> : x \in PartsOf(Group.fields[i].type, IF i = id.i THEN ValueMask(Group.fields[i]) ELSE {"value", "alarm"})} : i \in Group.fields[id.i].triggers}
    ELSE {<<id.i, x>> : x \in PartsOf(Group.fields[id.i].type, {"property"})}
Consts == {<<i, "value">> : i \in {i \in Indices : Group.fields[i].type = "const"}}
Under(id) == gev # NoEvent /\ gev.e.id = id
GroupMarks ==
    gsub # NoSub /\ ~gsub.primed =>
        /\ AllIds \ FieldIds \subseteq gsub.had
        /\ Consts \subseteq gsub.marks
        /\ \A id \in gsub.had \cap FieldIds : Covers(id) \subseteq gsub.marks \/ (Under(id) /\ gev.e.mask = SubscribeField(id).select)
GroupFirst ==
    gsub # NoSub /\ gsub.primed /\ ~raced => Consts \cup UNION {Covers(id) : id \in FieldIds} \subseteq firstPost
OpSub ==
    /\ op.k = "unmark" => gsub # NoSub /\ gsub.primed
    /\ op.k = "start" => gsub # NoSub
SingleParts(select) == {"value", "prop"} \cup (select \cap {"alarm"})
SCovers(id) == IF id.kind = "value" THEN {"value"} \cup (ssub.select \cap {"alarm"}) ELSE {"prop"}
SingleMarks ==
    ssub # NoSingleSub =>
        IF BothHad(ssub.had) THEN sfirst = SingleParts(ssub.select)
        ELSE /\ ssub.marks \subseteq SingleParts(ssub.select)
             /\ \A id \in ssub.had : SCovers(id) \subseteq ssub.marks
-----------------------------------------------------------------------------
(* The operators of the database.                                          *)

\* Of some naturals one is the least.
LEMMA LeastOf ==
    ASSUME NEW T, T \subseteq Nat, T # {}
    PROVE  \E x \in T : \A y \in T : x <= y
<1> DEFINE R == OpToRel(<, Nat)
<1>1. \A x, y \in Nat : <<y, x>> \in R <=> y < x
  BY DEF OpToRel
<1>2. IsWellFoundedOn(R, Nat)
  BY NatLessThanWellFounded
<1> HIDE DEF R
<1>3. \E x \in T : \A y \in T : ~(<<y, x>> \in R)
  BY <1>2, WFMin, Zenon
<1>4. PICK x \in T : \A y \in T : ~(<<y, x>> \in R)
  BY <1>3, Zenon
<1>5. \A y \in T : ~(y < x)
  BY <1>1, <1>4, Zenon
<1>6. \A y \in T : x <= y
  BY <1>5
<1>7. QED
  BY <1>6

\* SetToSeq() makes a sequence of the elements of a finite set.
LEMMA SetToSeqIs ==
    ASSUME NEW S, IsFiniteSet(S)
    PROVE  SetToSeq(S) \in Seq(S)
<1>1. Cardinality(S) \in Nat
  BY FS_CardinalityType
<1>2. \E f \in [1..Cardinality(S) -> S] : IsInjective(f)
  BY FS_CardinalityType, Zenon DEF ExistsBijection, Bijection, Injection, IsInjective
<1>3. SetToSeq(S) \in [1..Cardinality(S) -> S]
  BY <1>2 DEF SetToSeq
<1> QED BY <1>1, <1>3, SeqDef

\* What the database does of its own accord: it adds events of subscriptions which
\* are enabled to their queues.
Adds(d, x, s) == x.id \in DOMAIN d.subs /\ x.id.src = s /\ d.subs[x.id].enabled /\ x.mask \subseteq d.subs[x.id].select
Longer(d, e, s) ==
    /\ Len(d.evq[s]) <= Len(e.evq[s])
    /\ \A k \in 1..Len(d.evq[s]) : e.evq[s][k] = d.evq[s][k]
    /\ \A k \in (Len(d.evq[s]) + 1)..Len(e.evq[s]) : Adds(d, e.evq[s][k], s)
SameSubs(d, e) ==
    /\ DOMAIN e.subs = DOMAIN d.subs
    /\ \A id \in DOMAIN d.subs : /\ e.subs[id].rec = d.subs[id].rec /\ e.subs[id].select = d.subs[id].select
                                 /\ e.subs[id].enabled = d.subs[id].enabled
Grows(d, e) == DbOK(e) /\ SameSubs(d, e) /\ \A s \in Sources : Longer(d, e, s)

\* Nothing grows when subscriptions and queues stay as they are.
LEMMA GrowsSelf ==
    ASSUME NEW d, DbOK(d), NEW e, DbOK(e), e.subs = d.subs, e.evq = d.evq
    PROVE  Grows(d, e)
BY DEF Grows, SameSubs, Longer, DbOK

\* What grows twice grows.
LEMMA GrowsOn ==
    ASSUME NEW c, NEW d, NEW e, DbOK(c), Grows(c, d), Grows(d, e)
    PROVE  Grows(c, e)
<1>1. SameSubs(c, e)
  BY DEF Grows, SameSubs
<1>2. ASSUME NEW s \in Sources PROVE Longer(c, e, s)
  <2>1. Len(c.evq[s]) \in Nat /\ Len(d.evq[s]) \in Nat /\ Len(e.evq[s]) \in Nat
    BY DEF Grows, DbOK
  <2>2. \A x : Adds(d, x, s) => Adds(c, x, s)
    BY DEF Grows, SameSubs, Adds
  <2>3. Longer(c, d, s) /\ Longer(d, e, s)
    BY DEF Grows
  <2>4. ASSUME NEW k \in (Len(c.evq[s]) + 1)..Len(e.evq[s]) PROVE Adds(c, e.evq[s][k], s)
    <3>1. CASE k <= Len(d.evq[s])
      BY <2>1, <2>3, <3>1 DEF Longer
    <3>2. CASE ~(k <= Len(d.evq[s]))
      <4>1. k \in (Len(d.evq[s]) + 1)..Len(e.evq[s])
        BY <2>1, <3>2
      <4> QED BY <2>2, <2>3, <4>1 DEF Longer
    <3> QED BY <3>1, <3>2
  <2> QED BY <2>1, <2>3, <2>4 DEF Longer
<1> QED BY <1>1, <1>2 DEF Grows

\* An event is of its subscription and has its mask.
LEMMA EventIs ==
    ASSUME NEW d, DbOK(d), NEW id \in DOMAIN d.subs, NEW mask \in SUBSET Masks
    PROVE  Event(d, id, mask) \in Events /\ Event(d, id, mask).id = id /\ Event(d, id, mask).mask = mask
<1>1. d.subs[id].rec \in Records /\ id \in Ids
  BY DEF DbOK, Subscriptions
<1>2. d.val[d.subs[id].rec] \in Int /\ Severity(d, d.subs[id].rec) \in Int
  BY <1>1 DEF DbOK, Severity, AlarmOf
<1> QED BY <1>1, <1>2 DEF Event, Events

\* db_post_events() only adds events, to subscriptions which are enabled.
LEMMA PostEventsIs ==
    ASSUME NEW d, DbOK(d), NEW r \in Records, NEW mask \in SUBSET Masks
    PROVE  LET e == PostEvents(d, r, mask)
           IN  /\ Grows(d, e)
               /\ e.val = d.val /\ e.posted = d.posted /\ e.pact = d.pact /\ e.rpro = d.rpro
<1> DEFINE e == PostEvents(d, r, mask)
           to(s) == {id \in DOMAIN d.subs : /\ id.src = s /\ d.subs[id].rec = r /\ d.subs[id].enabled
                                            /\ d.subs[id].select \cap mask # {}}
           evs(s) == {Event(d, id, d.subs[id].select \cap mask) : id \in to(s)}
           more(s) == SetToSeq(evs(s))
           subs == [id \in DOMAIN d.subs |-> IF \E s \in Sources : id \in to(s) THEN [d.subs[id] EXCEPT !.last = d.val[r]] ELSE d.subs[id]]
           evq == [s \in Sources |-> d.evq[s] \o more(s)]
<1>1. e = [d EXCEPT !.evq = evq, !.subs = subs]
  BY DEF PostEvents
<1>2. /\ e = [val |-> e.val, prop |-> e.prop, posted |-> e.posted, pact |-> e.pact, rpro |-> e.rpro, subs |-> e.subs, evq |-> e.evq]
      /\ e.val = d.val /\ e.posted = d.posted /\ e.pact = d.pact /\ e.rpro = d.rpro /\ e.evq = evq /\ e.subs = subs
  BY <1>1 DEF DbOK
<1>3. ASSUME NEW s \in Sources
      PROVE  more(s) \in Seq(Events) /\ \A k \in 1..Len(more(s)) : Adds(d, more(s)[k], s)
  <2>1. IsFiniteSet(to(s))
    BY FS_Subset DEF DbOK
  <2>2. IsFiniteSet(evs(s))
    <3> HIDE DEF to
    <3>1. [id \in to(s) |-> Event(d, id, d.subs[id].select \cap mask)] \in Surjection(to(s), evs(s))
      BY DEF Surjection
    <3> QED BY <2>1, <3>1, FS_Surjection
  <2>3. ASSUME NEW x \in evs(s) PROVE x \in Events /\ Adds(d, x, s)
    <3>1. PICK id \in to(s) : x = Event(d, id, d.subs[id].select \cap mask)
      OBVIOUS
    <3>2. id \in DOMAIN d.subs /\ id.src = s /\ d.subs[id].enabled /\ d.subs[id].select \cap mask \in SUBSET Masks
      OBVIOUS
    <3> HIDE DEF to, evs
    <3>3. x \in Events /\ x.id = id /\ x.mask = d.subs[id].select \cap mask
      BY <3>1, <3>2, EventIs
    <3> QED BY <3>2, <3>3 DEF Adds
  <2>4. more(s) \in Seq(evs(s))
    <3> HIDE DEF evs
    <3> QED BY <2>2, SetToSeqIs
  <2> HIDE DEF evs, more
  <2>5. \A k \in 1..Len(more(s)) : more(s)[k] \in evs(s)
    BY <2>4
  <2> QED BY <2>3, <2>4, <2>5, SeqDef
<1>4. SameSubs(d, e)
  <2> HIDE DEF to
  <2> QED BY <1>2 DEF SameSubs, DbOK, Subscriptions
<1>5. \A id \in DOMAIN e.subs : e.subs[id] \in Subscriptions
  <2>1. d.val[r] \in Int
    BY DEF DbOK
  <2>2. ASSUME NEW id \in DOMAIN d.subs PROVE subs[id] \in Subscriptions
    <3>1. d.subs[id] \in Subscriptions
      BY DEF DbOK
    <3>2. [d.subs[id] EXCEPT !.last = d.val[r]] \in Subscriptions
      BY <2>1, <3>1 DEF Subscriptions
    <3> HIDE DEF to
    <3>3. subs[id] = [d.subs[id] EXCEPT !.last = d.val[r]] \/ subs[id] = d.subs[id]
      OBVIOUS
    <3> QED BY <3>1, <3>2, <3>3
  <2> HIDE DEF to
  <2> QED BY <1>2, <2>2
<1> HIDE DEF more, subs, e
<1>6. ASSUME NEW s \in Sources PROVE Longer(d, e, s)
  <2>1. d.evq[s] \in Seq(Events) /\ more(s) \in Seq(Events) /\ e.evq[s] = d.evq[s] \o more(s)
    BY <1>2, <1>3 DEF DbOK
  <2>2. /\ Len(d.evq[s]) \in Nat /\ Len(more(s)) \in Nat /\ Len(e.evq[s]) = Len(d.evq[s]) + Len(more(s))
        /\ \A k \in 1..Len(d.evq[s]) : e.evq[s][k] = d.evq[s][k]
        /\ \A k \in (Len(d.evq[s]) + 1)..Len(e.evq[s]) : e.evq[s][k] = more(s)[k - Len(d.evq[s])]
    BY <2>1, ConcatProperties
  <2>3. \A k \in (Len(d.evq[s]) + 1)..Len(e.evq[s]) : k - Len(d.evq[s]) \in 1..Len(more(s))
    BY <2>2
  <2>4. ASSUME NEW k \in (Len(d.evq[s]) + 1)..Len(e.evq[s]) PROVE Adds(d, e.evq[s][k], s)
    BY <1>3, <2>2, <2>3
  <2>5. Len(d.evq[s]) <= Len(e.evq[s])
    BY <2>2
  <2> QED BY <2>2, <2>4, <2>5 DEF Longer
<1>7. e.evq \in [Sources -> Seq(Events)]
  BY <1>2, <1>3 DEF DbOK
<1>8. DbOK(e)
  BY <1>2, <1>4, <1>5, <1>7 DEF DbOK, SameSubs
<1> QED BY <1>2, <1>4, <1>6, <1>8 DEF Grows, e

\* The end of processing posts what changed, and keeps it in mind as posted.
LEMMA CompleteIs ==
    ASSUME NEW d, DbOK(d), NEW r \in Records
    PROVE  LET e == Complete(d, r)
           IN  /\ Grows(d, e)
               /\ e.val = d.val /\ e.posted = [d.posted EXCEPT ![r] = d.val[r]] /\ e.pact = d.pact /\ e.rpro = d.rpro
<1> DEFINE old == d.posted[r]
           new == d.val[r]
           mask == (IF old # new THEN {"value", "archive"} ELSE {}) \cup (IF AlarmOf(old) # AlarmOf(new) THEN {"alarm"} ELSE {})
           c == [d EXCEPT !.posted[r] = new]
<1>0. c = [d EXCEPT !.posted[r] = new]
  OBVIOUS
<1> HIDE DEF c
<1>1. /\ c = [val |-> c.val, prop |-> c.prop, posted |-> c.posted, pact |-> c.pact, rpro |-> c.rpro, subs |-> c.subs, evq |-> c.evq]
      /\ c.val = d.val /\ c.posted = [d.posted EXCEPT ![r] = new] /\ c.pact = d.pact /\ c.rpro = d.rpro
      /\ c.subs = d.subs /\ c.evq = d.evq
  BY <1>0 DEF DbOK
<1>2. new \in Int /\ mask \in SUBSET Masks
  BY DEF DbOK, Masks
<1> HIDE DEF mask
<1>3. DbOK(c)
  BY <1>1, <1>2 DEF DbOK
<1>4. Grows(d, c)
  BY <1>1, <1>3, GrowsSelf
<1>5. Complete(d, r) = PostEvents(c, r, mask)
  BY DEF Complete, c, mask
<1> QED BY <1>1, <1>2, <1>3, <1>4, <1>5, PostEventsIs, GrowsOn

\* Processing completes at once, or makes an asynchronous record active.
LEMMA DbProcessIs ==
    ASSUME NEW d, DbOK(d), NEW r \in Records
    PROVE  LET e == DbProcess(d, r)
           IN  /\ Grows(d, e) /\ e.val = d.val /\ d.pact \subseteq e.pact
               /\ IF r \in Async THEN r \in e.pact /\ e.posted = d.posted ELSE e.posted[r] = d.val[r]
<1> DEFINE c == [d EXCEPT !.pact = @ \cup {r}]
<1>0. c = [d EXCEPT !.pact = @ \cup {r}]
  OBVIOUS
<1>1. CASE r \in Async
  <2>2. DbProcess(d, r) = c
    BY <1>1 DEF DbProcess
  <2> HIDE DEF c
  <2>1. /\ c = [val |-> c.val, prop |-> c.prop, posted |-> c.posted, pact |-> c.pact, rpro |-> c.rpro, subs |-> c.subs, evq |-> c.evq]
        /\ c.val = d.val /\ c.posted = d.posted /\ c.pact = d.pact \cup {r} /\ c.rpro = d.rpro
        /\ c.subs = d.subs /\ c.evq = d.evq
    BY <1>0 DEF DbOK
  <2>3. DbOK(c)
    BY <1>1, <2>1 DEF DbOK
  <2>4. Grows(d, c)
    BY <2>1, <2>3, GrowsSelf
  <2> QED BY <1>1, <2>1, <2>2, <2>4
<1>2. CASE r \notin Async
  <2>1. DbProcess(d, r) = Complete(d, r)
    BY <1>2 DEF DbProcess
  <2>2. [d.posted EXCEPT ![r] = d.val[r]][r] = d.val[r]
    BY DEF DbOK
  <2> DEFINE e == Complete(d, r)
  <2>3. Grows(d, e) /\ e.val = d.val /\ e.posted = [d.posted EXCEPT ![r] = d.val[r]] /\ e.pact = d.pact
    BY CompleteIs
  <2> QED BY <1>2, <2>1, <2>2, <2>3
<1> QED BY <1>1, <1>2

\* dbPut() writes, and posts nothing by itself.
LEMMA DbPutIs ==
    ASSUME NEW d, DbOK(d), NEW r \in Records, NEW v \in Int
    PROVE  LET e == DbPut(d, r, v)
           IN  /\ Grows(d, e) /\ e.val = [d.val EXCEPT ![r] = v]
               /\ e.posted = d.posted /\ e.pact = d.pact /\ e.rpro = d.rpro
<1> DEFINE c == [d EXCEPT !.val[r] = v]
<1>0. c = [d EXCEPT !.val[r] = v] /\ DbPut(d, r, v) = c
  BY DEF DbPut
<1> HIDE DEF c
<1>1. /\ c = [val |-> c.val, prop |-> c.prop, posted |-> c.posted, pact |-> c.pact, rpro |-> c.rpro, subs |-> c.subs, evq |-> c.evq]
      /\ c.val = [d.val EXCEPT ![r] = v] /\ c.posted = d.posted /\ c.pact = d.pact /\ c.rpro = d.rpro
      /\ c.subs = d.subs /\ c.evq = d.evq
  BY <1>0 DEF DbOK
<1>2. DbOK(c)
  BY <1>1 DEF DbOK
<1> QED BY <1>0, <1>1, <1>2, GrowsSelf

\* doPostProcessing() processes, or asks for it, and leaves the value as it is.
LEMMA PostProcessIs ==
    ASSUME NEW d, DbOK(d), NEW r \in Records, NEW force
    PROVE  LET e == PostProcess(d, r, force)
           IN  Grows(d, e) /\ e.val = d.val /\ d.pact \subseteq e.pact
<1> DEFINE c == [d EXCEPT !.rpro = @ \cup {r}]
<1>0. c = [d EXCEPT !.rpro = @ \cup {r}] /\ PostProcess(d, r, force) \in {c, d, DbProcess(d, r)}
  BY DEF PostProcess
<1> HIDE DEF c
<1>1. /\ c = [val |-> c.val, prop |-> c.prop, posted |-> c.posted, pact |-> c.pact, rpro |-> c.rpro, subs |-> c.subs, evq |-> c.evq]
      /\ c.val = d.val /\ c.posted = d.posted /\ c.pact = d.pact /\ c.rpro = d.rpro \cup {r}
      /\ c.subs = d.subs /\ c.evq = d.evq
  BY <1>0 DEF DbOK
<1>2. DbOK(c)
  BY <1>1 DEF DbOK
<1>3. Grows(d, c) /\ Grows(d, d)
  BY <1>1, <1>2, GrowsSelf
<1> DEFINE p == DbProcess(d, r)
<1>4. Grows(d, p) /\ p.val = d.val /\ d.pact \subseteq p.pact
  BY DbProcessIs
<1> QED BY <1>0, <1>1, <1>3, <1>4

\* A scan of the records of S touches no other.
LEMMA ScanRecordIs ==
    ASSUME NEW d, DbOK(d), NEW r \in Records
    PROVE  LET e == ScanRecord(d, r)
           IN  Grows(d, e) /\ d.pact \subseteq e.pact /\ \A x \in Records \ {r} : e.val[x] = d.val[x]
<1> DEFINE c == DbPut(d, r, d.val[r] + 1)
<1>1. d.val[r] + 1 \in Int
  BY DEF DbOK
<1>2. Grows(d, c) /\ c.val = [d.val EXCEPT ![r] = d.val[r] + 1] /\ c.pact = d.pact
  BY <1>1, DbPutIs
<1>3. DbOK(c) /\ ScanRecord(d, r) = DbProcess(c, r)
  BY <1>2 DEF Grows, ScanRecord
<1> HIDE DEF c
<1>4. Grows(c, DbProcess(c, r)) /\ DbProcess(c, r).val = c.val /\ c.pact \subseteq DbProcess(c, r).pact
  BY <1>3, DbProcessIs
<1>5. Grows(d, DbProcess(c, r))
  BY <1>2, <1>4, GrowsOn
<1> QED BY <1>2, <1>3, <1>4, <1>5 DEF DbOK

\* f holds the database after each of the first records of s has been scanned.
Scans(f, d, s, n) == f = [i \in 0..n |-> IF i = 0 THEN d ELSE ScanRecord(f[i - 1], s[i])]

\* The recursive function by which InTurn scans exists.
LEMMA ScansExist ==
    ASSUME NEW d, NEW s, NEW n \in Nat
    PROVE  \E f : Scans(f, d, s, n)
<1> DEFINE T == {m \in 0..n : ~\E f : Scans(f, d, s, m)}
<1>1. SUFFICES ASSUME T # {} PROVE FALSE
  OBVIOUS
<1>2. PICK m \in T : \A y \in T : m <= y
  <2>1. T \subseteq Nat
    OBVIOUS
  <2> QED BY <1>1, <2>1, LeastOf
<1>3. CASE m = 0
  <2> DEFINE f == [i \in 0..0 |-> d]
  <2>1. Scans(f, d, s, 0)
    BY DEF Scans
  <2> QED BY <1>2, <1>3, <2>1
<1>4. CASE m # 0
  <2>1. m \in Nat /\ m - 1 \in 0..n /\ ~(m <= m - 1) /\ 0..m = (0..(m - 1)) \cup {m}
    BY <1>2, <1>4
  <2>2. m - 1 \notin T
    BY <1>2, <2>1
  <2>3. PICK g : Scans(g, d, s, m - 1)
    BY <2>1, <2>2
  <2> DEFINE f == [i \in 0..m |-> IF i = m THEN ScanRecord(g[m - 1], s[m]) ELSE g[i]]
  <2>4. ASSUME NEW i \in 0..m PROVE f[i] = IF i = 0 THEN d ELSE ScanRecord(f[i - 1], s[i])
    <3>1. CASE i = m
      <4>1. f[m - 1] = g[m - 1]
        BY <2>1
      <4> QED BY <1>4, <3>1, <4>1
    <3>2. CASE i # m
      <4>1. i \in 0..(m - 1)
        BY <2>1, <3>2
      <4>2. g[i] = IF i = 0 THEN d ELSE ScanRecord(g[i - 1], s[i])
        BY <2>3, <4>1 DEF Scans
      <4>3. i # 0 => f[i - 1] = g[i - 1]
        BY <2>1, <4>1
      <4> QED BY <3>2, <4>2, <4>3
    <3> QED BY <3>1, <3>2
  <2> HIDE DEF f
  <2>5. f = [i \in 0..m |-> f[i]]
    BY DEF f
  <2>6. Scans(f, d, s, m)
    BY <2>4, <2>5 DEF Scans
  <2> QED BY <1>2, <2>6
<1> QED BY <1>3, <1>4

\* A scan changes the records of its lock set, and only adds events.
LEMMA ScanAllIs ==
    ASSUME NEW d, DbOK(d), NEW S \in SUBSET Records
    PROVE  LET e == InTurn(ScanRecord, d, SetToSeq(S))
           IN  Grows(d, e) /\ d.pact \subseteq e.pact /\ \A x \in Records \ S : e.val[x] = d.val[x]
<1> DEFINE s == SetToSeq(S)
           n == Len(s)
           f == CHOOSE g : Scans(g, d, s, n)
           Good(i) == Grows(d, f[i]) /\ d.pact \subseteq f[i].pact /\ \A x \in Records \ S : f[i].val[x] = d.val[x]
           T == {i \in 0..n : ~Good(i)}
<1>1. IsFiniteSet(S)
  BY RecordsAssumption, FS_Subset
<1>2. s \in Seq(S)
  BY <1>1, SetToSeqIs
<1> HIDE DEF s
<1>3. n \in Nat /\ \A i \in 1..n : s[i] \in S
  BY <1>2
<1>4. InTurn(ScanRecord, d, s) = f[n]
  BY DEF InTurn, Scans
<1>5. \E g : Scans(g, d, s, n)
  BY <1>3, ScansExist
<1>6. Scans(f, d, s, n)
  BY <1>5
<1> HIDE DEF f
<1>7. f[0] = d /\ \A i \in 1..n : f[i] = ScanRecord(f[i - 1], s[i])
  BY <1>3, <1>6 DEF Scans
<1>8. Good(0)
  BY <1>7, GrowsSelf
<1>9. ASSUME NEW i \in 1..n, Good(i - 1) PROVE Good(i)
  <2> DEFINE c == f[i - 1]
             e == ScanRecord(c, s[i])
  <2>1. s[i] \in S /\ s[i] \in Records /\ DbOK(c)
    BY <1>3, <1>9 DEF Grows
  <2> HIDE DEF c
  <2>2. Grows(c, e) /\ c.pact \subseteq e.pact /\ \A x \in Records \ {s[i]} : e.val[x] = c.val[x]
    BY <2>1, ScanRecordIs
  <2>3. Grows(d, c) /\ d.pact \subseteq c.pact /\ \A x \in Records \ S : c.val[x] = d.val[x]
    BY <1>9 DEF c
  <2>4. Grows(d, e)
    BY <2>2, <2>3, GrowsOn
  <2>5. f[i] = e
    BY <1>7 DEF c
  <2> QED BY <2>1, <2>2, <2>3, <2>4, <2>5
<1> HIDE DEF Good
<1>10. T = {}
  <2>1. SUFFICES ASSUME T # {} PROVE FALSE
    OBVIOUS
  <2>2. T \subseteq Nat
    OBVIOUS
  <2>3. PICK i \in T : \A y \in T : i <= y
    BY <2>1, <2>2, LeastOf
  <2>4. i # 0 /\ i \in Nat /\ i <= n
    BY <1>8, <2>3
  <2>5. i - 1 \in 0..n /\ i \in 1..n /\ ~(i <= i - 1)
    BY <1>3, <2>4
  <2>6. Good(i - 1)
    BY <2>3, <2>5
  <2> QED BY <1>9, <2>3, <2>5, <2>6
<1>11. Good(n)
  BY <1>3, <1>10
<1> QED BY <1>4, <1>11 DEF Good, s

-----------------------------------------------------------------------------
(* Queues.                                                                 *)

\* Events which the database adds leave a queue right: a subscription which is
\* enabled has had, or is about to have, the event of its start.
LEMMA QueueGrows ==
    ASSUME NEW d, DbOK(d), NEW e, Grows(d, e), NEW s \in Sources, NEW ids, NEW had, Queue(d, s, ids, had)
    PROVE  Queue(e, s, ids, had)
<1> DEFINE m == Len(d.evq[s])
           n == Len(e.evq[s])
<1>1. /\ d.evq[s] \in Seq(Events) /\ e.evq[s] \in Seq(Events)
  BY DEF DbOK, Grows
<1>2. /\ m \in Nat /\ n \in Nat /\ m <= n /\ DOMAIN d.evq[s] = 1..m /\ DOMAIN e.evq[s] = 1..n
      /\ \A k \in 1..m : e.evq[s][k] = d.evq[s][k]
      /\ \A k \in (m + 1)..n : Adds(d, e.evq[s][k], s)
  BY <1>1 DEF Grows, Longer
<1>3. SameSubs(d, e)
  BY DEF Grows
<1>4. 1..m \subseteq 1..n /\ \A k \in 1..n : k \in 1..m \/ k \in (m + 1)..n
  BY <1>2
<1> HIDE DEF m, n
<1>5. {id \in DOMAIN e.subs : id.src = s} = ids
  BY <1>3 DEF Queue, SameSubs
<1>6. ids \subseteq DOMAIN d.subs /\ \A id \in DOMAIN d.subs : id.src = s => id \in ids
  BY DEF Queue
<1>7. ASSUME NEW k \in 1..n
      PROVE  e.evq[s][k].id \in ids /\ e.evq[s][k].mask \subseteq e.subs[e.evq[s][k].id].select
  <2>1. CASE k \in 1..m
    BY <1>2, <1>3, <1>6, <2>1 DEF Queue, SameSubs
  <2>2. CASE k \in (m + 1)..n
    BY <1>2, <1>3, <1>6, <2>2 DEF Adds, SameSubs
  <2> QED BY <1>4, <2>1, <2>2
<1>8. ASSUME NEW id \in ids \ had, e.subs[id].enabled PROVE \E k \in 1..m : d.evq[s][k].id = id
  BY <1>2, <1>3, <1>6, <1>8 DEF Queue, SameSubs
<1>9. \A id \in ids \ had : e.subs[id].enabled => \E k \in 1..n : e.evq[s][k].id = id
  BY <1>2, <1>4, <1>8
<1>10. ASSUME NEW k \in 1..n, e.evq[s][k].id \notin had, First(e, s, k)
       PROVE  e.evq[s][k].mask = e.subs[e.evq[s][k].id].select
  <2>1. CASE k \in 1..m
    <3>1. \A j \in 1..(k - 1) : j \in 1..m
      BY <1>2, <2>1
    <3>2. First(d, s, k)
      BY <1>2, <1>10, <2>1, <3>1 DEF First
    <3>3. d.evq[s][k] = e.evq[s][k] /\ k \in DOMAIN d.evq[s]
      BY <1>2, <2>1
    <3>4. d.evq[s][k].mask = d.subs[d.evq[s][k].id].select /\ d.evq[s][k].id \in ids
      BY <1>10, <3>2, <3>3 DEF Queue
    <3> QED BY <1>3, <1>6, <3>3, <3>4 DEF SameSubs
  <2>2. CASE k \in (m + 1)..n
    <3> DEFINE id == e.evq[s][k].id
    <3>1. id \in DOMAIN d.subs /\ d.subs[id].enabled /\ id \in ids \ had
      BY <1>2, <1>6, <1>10, <2>2 DEF Adds
    <3>2. e.subs[id].enabled
      BY <1>3, <3>1 DEF SameSubs
    <3>3. PICK j \in 1..m : d.evq[s][j].id = id
      BY <1>8, <3>1, <3>2
    <3>4. j \in 1..(k - 1) /\ e.evq[s][j].id = id
      BY <1>2, <2>2, <3>3
    <3> QED BY <1>10, <3>4 DEF First
  <2> QED BY <1>4, <2>1, <2>2
<1> QED BY <1>2, <1>5, <1>7, <1>9, <1>10 DEF Queue

\* Subscriptions of one source do not concern the other.
SameSource(d, e, s) ==
    /\ {id \in DOMAIN e.subs : id.src = s} = {id \in DOMAIN d.subs : id.src = s}
    /\ \A id \in DOMAIN d.subs : id.src = s => e.subs[id] = d.subs[id]
    /\ e.evq[s] = d.evq[s]

\* What concerns the other source leaves a queue as it is.
LEMMA QueueSame ==
    ASSUME NEW d, NEW e, NEW s, SameSource(d, e, s), NEW ids, NEW had, Queue(d, s, ids, had)
    PROVE  Queue(e, s, ids, had)
<1>1. \A id \in ids : e.subs[id] = d.subs[id]
  BY DEF SameSource, Queue
<1>2. \A k : First(e, s, k) <=> First(d, s, k)
  BY DEF SameSource, First
<1> QED BY <1>1, <1>2 DEF SameSource, Queue

\* enable() adds the event of the start.
LEMMA EnableIs ==
    ASSUME NEW d, DbOK(d), NEW id \in DOMAIN d.subs
    PROVE  LET e == Enable(d, id)
               x == Event(d, id, d.subs[id].select)
           IN  /\ DbOK(e)
               /\ e.val = d.val /\ e.posted = d.posted /\ e.pact = d.pact
               /\ DOMAIN e.subs = DOMAIN d.subs
               /\ \A y \in DOMAIN d.subs : e.subs[y].select = d.subs[y].select
               /\ \A y \in DOMAIN d.subs : y # id => e.subs[y] = d.subs[y]
               /\ \A s \in Sources : s # id.src => e.evq[s] = d.evq[s]
               /\ id.src \in Sources
               /\ e.evq[id.src] = Append(d.evq[id.src], x)
               /\ x \in Events /\ x.id = id /\ x.mask = d.subs[id].select
<1> DEFINE sub == [d.subs[id] EXCEPT !.enabled = TRUE, !.last = d.val[d.subs[id].rec]]
           e == Enable(d, id)
           x == Event(d, id, d.subs[id].select)
           subs == [d.subs EXCEPT ![id] = sub]
           evq == [d.evq EXCEPT ![id.src] = Append(@, x)]
<1>1. d.subs[id] \in Subscriptions /\ id \in Ids /\ id.src \in Sources /\ d.subs[id].select \in SUBSET Masks
  BY DEF DbOK, Subscriptions, Ids
<1>2. d.val[d.subs[id].rec] \in Int
  BY <1>1 DEF DbOK, Subscriptions
<1>3. sub \in Subscriptions /\ sub.select = d.subs[id].select
  BY <1>1, <1>2 DEF Subscriptions
<1>4. x \in Events /\ x.id = id /\ x.mask = d.subs[id].select
  BY <1>1, EventIs
<1>5. e = [d EXCEPT !.subs[id].enabled = TRUE, !.subs[id].last = d.val[d.subs[id].rec],
                    !.evq[id.src] = Append(@, x)]
  BY DEF Enable
<1> HIDE DEF e
<1>6. /\ e = [val |-> e.val, prop |-> e.prop, posted |-> e.posted, pact |-> e.pact, rpro |-> e.rpro, subs |-> e.subs, evq |-> e.evq]
      /\ e.val = d.val /\ e.posted = d.posted /\ e.pact = d.pact /\ e.rpro = d.rpro
      /\ e.subs = [[d.subs EXCEPT ![id].enabled = TRUE] EXCEPT ![id].last = d.val[d.subs[id].rec]] /\ e.evq = evq
  <2> HIDE DEF x
  <2> QED BY <1>5 DEF DbOK
<1>7. DOMAIN e.subs = DOMAIN d.subs /\ e.subs[id] = sub /\ \A y \in DOMAIN d.subs : y # id => e.subs[y] = d.subs[y]
  BY <1>6
<1> HIDE DEF sub, x
<1>8. evq \in [Sources -> Seq(Events)] /\ evq[id.src] = Append(d.evq[id.src], x)
      /\ \A s \in Sources : s # id.src => evq[s] = d.evq[s]
  BY <1>1, <1>4 DEF DbOK
<1>9. \A y \in DOMAIN e.subs : e.subs[y] \in Subscriptions
  BY <1>3, <1>7 DEF DbOK
<1>10. DbOK(e)
  BY <1>6, <1>7, <1>8, <1>9 DEF DbOK
<1> QED BY <1>1, <1>3, <1>4, <1>6, <1>7, <1>8, <1>10 DEF e, x

\* The start of a subscription which is to have its first event
LEMMA QueueEnable ==
    ASSUME NEW d, DbOK(d), NEW id, NEW s \in Sources, NEW ids, NEW had, Queue(d, s, ids, had)
    PROVE  LET e == Enable(d, id)
           IN  DbOK(e) /\ e.val = d.val /\ e.posted = d.posted /\ e.pact = d.pact /\ Queue(e, s, ids, had)
               /\ DOMAIN e.subs = DOMAIN d.subs /\ \A y \in DOMAIN d.subs : e.subs[y].select = d.subs[y].select
<1> DEFINE e == Enable(d, id)
           x == Event(d, id, d.subs[id].select)
<1>1. CASE id \notin DOMAIN d.subs
  <2>1. e = d
    BY <1>1 DEF Enable
  <2> QED BY <2>1
<1>2. CASE id \in DOMAIN d.subs
  <2> HIDE DEF e, x
  <2>1. /\ DbOK(e)
        /\ e.val = d.val /\ e.posted = d.posted /\ e.pact = d.pact
        /\ DOMAIN e.subs = DOMAIN d.subs
        /\ \A y \in DOMAIN d.subs : e.subs[y].select = d.subs[y].select
        /\ \A y \in DOMAIN d.subs : y # id => e.subs[y] = d.subs[y]
        /\ \A t \in Sources : t # id.src => e.evq[t] = d.evq[t]
        /\ e.evq[id.src] = Append(d.evq[id.src], x)
        /\ x \in Events /\ x.id = id /\ x.mask = d.subs[id].select
    BY <1>2, EnableIs DEF e, x
  <2>2. CASE s # id.src
    <3>1. SameSource(d, e, s)
      BY <2>1, <2>2 DEF SameSource
    <3> QED BY <2>1, <3>1, QueueSame DEF e
  <2>3. CASE s = id.src
    <3> DEFINE q == d.evq[s]
               r == e.evq[s]
               m == Len(q)
    <3>1. q \in Seq(Events) /\ r = Append(q, x)
      BY <2>1, <2>3 DEF DbOK
    <3>2. m \in Nat /\ DOMAIN q = 1..m /\ DOMAIN r = 1..(m + 1) /\ (\A k \in 1..m : r[k] = q[k]) /\ r[m + 1] = x
      <4> HIDE DEF q, r
      <4> QED BY <2>1, <3>1, AppendProperties
    <3> HIDE DEF m
    <3>3. id \in ids /\ ids \subseteq DOMAIN d.subs
      BY <1>2, <2>3 DEF Queue
    <3>4. {y \in DOMAIN e.subs : y.src = s} = ids
      BY <2>1 DEF Queue
    <3>5. ASSUME NEW k \in 1..(m + 1) PROVE k \in 1..m \/ k = m + 1
      BY <3>2
    <3>6. ASSUME NEW k \in 1..(m + 1) PROVE r[k].id \in ids /\ r[k].mask \subseteq e.subs[r[k].id].select
      <4>1. CASE k \in 1..m
        <5>1. r[k] = q[k] /\ k \in DOMAIN q
          BY <3>2, <4>1
        <5>2. q[k].id \in ids /\ q[k].mask \subseteq d.subs[q[k].id].select
          BY <5>1 DEF Queue
        <5> QED BY <2>1, <3>3, <5>1, <5>2
      <4>2. CASE k = m + 1
        BY <1>2, <2>1, <3>2, <3>3, <4>2
      <4> QED BY <3>5, <4>1, <4>2
    <3>7. ASSUME NEW y \in ids \ had, e.subs[y].enabled PROVE \E k \in 1..(m + 1) : r[k].id = y
      <4>1. CASE y = id
        BY <2>1, <3>2, <4>1
      <4>2. CASE y # id
        <5>1. d.subs[y].enabled
          BY <2>1, <3>3, <3>7, <4>2
        <5>2. PICK k \in 1..m : q[k].id = y
          BY <3>2, <5>1 DEF Queue
        <5> QED BY <3>2, <5>2
      <4> QED BY <4>1, <4>2
    <3>8. ASSUME NEW k \in 1..(m + 1), r[k].id \notin had, First(e, s, k)
          PROVE  r[k].mask = e.subs[r[k].id].select
      <4>1. CASE k \in 1..m
        <5>1. \A j \in 1..(k - 1) : j \in 1..m
          BY <3>2, <4>1
        <5>2. First(d, s, k) /\ q[k] = r[k] /\ k \in DOMAIN q
          BY <3>2, <3>8, <4>1, <5>1 DEF First
        <5>3. q[k].mask = d.subs[q[k].id].select /\ q[k].id \in ids
          BY <3>8, <5>2 DEF Queue
        <5> QED BY <2>1, <3>3, <5>2, <5>3
      <4>2. CASE k = m + 1
        BY <1>2, <2>1, <3>2, <4>2
      <4> QED BY <3>5, <4>1, <4>2
    <3>9. Queue(e, s, ids, had)
      BY <3>2, <3>4, <3>6, <3>7, <3>8 DEF Queue
    <3> QED BY <2>1, <3>9 DEF e
  <2> QED BY <2>2, <2>3
<1> QED BY <1>1, <1>2

SameValues(d, e) == e.val = d.val /\ e.posted = d.posted /\ e.pact = d.pact
Select(d, id) == d.subs[id].select

\* An event is taken from the queue.
Popped(d, s) == [d EXCEPT !.evq[s] = Tail(@)]

\* Taking an event changes one queue.
LEMMA PoppedIs ==
    ASSUME NEW d, DbOK(d), NEW s \in Sources, d.evq[s] # <<>>
    PROVE  LET e == Popped(d, s)
           IN  /\ DbOK(e) /\ SameValues(d, e) /\ e.subs = d.subs
               /\ e.evq[s] = Tail(d.evq[s]) /\ \A t \in Sources \ {s} : e.evq[t] = d.evq[t]
<1> DEFINE e == Popped(d, s)
<1>1. e = [d EXCEPT !.evq[s] = Tail(@)]
  BY DEF Popped
<1> HIDE DEF e
<1>2. /\ e = [val |-> e.val, prop |-> e.prop, posted |-> e.posted, pact |-> e.pact, rpro |-> e.rpro, subs |-> e.subs, evq |-> e.evq]
      /\ e.val = d.val /\ e.posted = d.posted /\ e.pact = d.pact /\ e.rpro = d.rpro
      /\ e.subs = d.subs /\ e.evq = [d.evq EXCEPT ![s] = Tail(@)]
  BY <1>1 DEF DbOK
<1>3. d.evq[s] \in Seq(Events) /\ Tail(d.evq[s]) \in Seq(Events)
  BY DEF DbOK
<1>4. e.evq \in [Sources -> Seq(Events)] /\ e.evq[s] = Tail(d.evq[s]) /\ \A t \in Sources \ {s} : e.evq[t] = d.evq[t]
  BY <1>2, <1>3 DEF DbOK
<1>5. DbOK(e)
  BY <1>2, <1>4 DEF DbOK
<1> QED BY <1>2, <1>4, <1>5 DEF SameValues, e

\* The first event of a queue is of its subscriptions, and brings all which its own
\* selects when it is the first.
LEMMA QueuePop ==
    ASSUME NEW d, DbOK(d), NEW s \in Sources, d.evq[s] # <<>>, NEW ids, NEW had, Queue(d, s, ids, had)
    PROVE  /\ Queue(Popped(d, s), s, ids, had \cup {Head(d.evq[s]).id})
           /\ Head(d.evq[s]) \in Events
           /\ Head(d.evq[s]).id \in ids /\ Head(d.evq[s]).mask \subseteq Select(d, Head(d.evq[s]).id)
           /\ Head(d.evq[s]).id \notin had => Head(d.evq[s]).mask = Select(d, Head(d.evq[s]).id)
<1> DEFINE e == Popped(d, s)
           q == d.evq[s]
           r == e.evq[s]
           h == Head(q)
           n == Len(r)
<1>1. q \in Seq(Events) /\ r = Tail(q) /\ e.subs = d.subs
  BY PoppedIs DEF DbOK
<1> HIDE DEF e
<1>2. /\ n \in Nat /\ DOMAIN q = 1..(n + 1) /\ DOMAIN r = 1..n /\ h = q[1] /\ h \in Events
      /\ \A k \in 1..n : r[k] = q[k + 1]
  <2> HIDE DEF r, q
  <2>1. q # <<>>
    BY DEF q
  <2> QED BY <1>1, <2>1, HeadTailProperties, LenProperties, EmptySeq
<1> HIDE DEF n
<1>3. 1 \in DOMAIN q /\ \A k \in 1..n : k + 1 \in DOMAIN q /\ k \in Nat
  BY <1>2
<1>4. h.id \in ids /\ h.mask \subseteq Select(d, h.id)
  BY <1>2, <1>3 DEF Queue, Select
<1>5. ASSUME h.id \notin had PROVE h.mask = Select(d, h.id)
  <2>1. First(d, s, 1)
    BY DEF First
  <2> QED BY <1>2, <1>3, <1>5, <2>1 DEF Queue, Select
<1>6. \A k \in 1..n : r[k].id \in ids /\ r[k].mask \subseteq e.subs[r[k].id].select
  <2> TAKE k \in 1..n
  <2>1. r[k] = q[k + 1] /\ k + 1 \in DOMAIN q
    BY <1>2, <1>3
  <2>2. q[k + 1].id \in ids /\ q[k + 1].mask \subseteq d.subs[q[k + 1].id].select
    BY <2>1 DEF Queue
  <2> QED BY <1>1, <2>1, <2>2
<1>7. ASSUME NEW id \in ids \ (had \cup {h.id}), e.subs[id].enabled PROVE \E k \in 1..n : r[k].id = id
  <2>1. PICK k \in DOMAIN q : q[k].id = id
    BY <1>1, <1>7 DEF Queue
  <2>2. k # 1
    BY <1>2, <1>7, <2>1
  <2>3. k - 1 \in 1..n /\ (k - 1) + 1 = k
    BY <1>2, <2>2
  <2>4. r[k - 1].id = id
    BY <1>2, <2>1, <2>3
  <2> QED BY <2>3, <2>4
<1>8. ASSUME NEW k \in 1..n, r[k].id \notin had \cup {h.id}, First(e, s, k)
      PROVE  r[k].mask = e.subs[r[k].id].select
  <2>1. r[k] = q[k + 1] /\ k + 1 \in DOMAIN q /\ k \in Nat
    BY <1>2, <1>3
  <2>2. ASSUME NEW j \in 1..((k + 1) - 1) PROVE q[j].id # q[k + 1].id
    <3>1. CASE j = 1
      BY <1>2, <1>8, <2>1, <3>1
    <3>2. CASE j # 1
      <4>1. j - 1 \in 1..(k - 1) /\ j - 1 \in 1..n /\ (j - 1) + 1 = j
        BY <1>2, <2>1, <3>2
      <4>2. r[j - 1].id # r[k].id
        BY <1>8, <4>1 DEF First
      <4> QED BY <1>2, <2>1, <4>1, <4>2
    <3> QED BY <3>1, <3>2
  <2>3. First(d, s, k + 1)
    BY <2>2 DEF First
  <2>4. q[k + 1].mask = d.subs[q[k + 1].id].select
    BY <1>8, <2>1, <2>3 DEF Queue
  <2> QED BY <1>1, <2>1, <2>4
<1>9. {id \in DOMAIN e.subs : id.src = s} = ids
  BY <1>1 DEF Queue
<1>10. Queue(e, s, ids, had \cup {h.id})
  BY <1>2, <1>6, <1>7, <1>8, <1>9 DEF Queue
<1> QED BY <1>2, <1>4, <1>5, <1>10 DEF e

\* disable() only keeps events away.
LEMMA DisableIs ==
    ASSUME NEW d, DbOK(d), NEW D
    PROVE  LET e == Disable(d, D)
           IN  /\ DbOK(e) /\ SameValues(d, e) /\ e.evq = d.evq /\ DOMAIN e.subs = DOMAIN d.subs
               /\ \A id \in DOMAIN d.subs : /\ Select(e, id) = Select(d, id) /\ (e.subs[id].enabled => d.subs[id].enabled)
                                            /\ id \notin D => e.subs[id] = d.subs[id]
<1> DEFINE e == Disable(d, D)
           subs == [id \in DOMAIN d.subs |-> IF id \in D THEN [d.subs[id] EXCEPT !.enabled = FALSE] ELSE d.subs[id]]
<1>1. e = [d EXCEPT !.subs = subs]
  BY DEF Disable
<1>2. ASSUME NEW id \in DOMAIN d.subs
      PROVE  /\ subs[id] \in Subscriptions /\ subs[id].select = d.subs[id].select /\ (subs[id].enabled => d.subs[id].enabled)
             /\ id \notin D => subs[id] = d.subs[id]
  <2> DEFINE x == [d.subs[id] EXCEPT !.enabled = FALSE]
  <2>1. d.subs[id] \in Subscriptions
    BY DEF DbOK
  <2>2. x \in Subscriptions /\ x.select = d.subs[id].select /\ ~x.enabled
    BY <2>1 DEF Subscriptions
  <2>3. subs[id] = IF id \in D THEN x ELSE d.subs[id]
    OBVIOUS
  <2> HIDE DEF x, subs
  <2> QED BY <2>1, <2>2, <2>3
<1>3. DOMAIN subs = DOMAIN d.subs
  OBVIOUS
<1> HIDE DEF e, subs
<1>4. /\ e = [val |-> e.val, prop |-> e.prop, posted |-> e.posted, pact |-> e.pact, rpro |-> e.rpro, subs |-> e.subs, evq |-> e.evq]
      /\ e.val = d.val /\ e.posted = d.posted /\ e.pact = d.pact /\ e.rpro = d.rpro
      /\ e.subs = subs /\ e.evq = d.evq
  BY <1>1 DEF DbOK
<1>5. DbOK(e)
  BY <1>2, <1>3, <1>4 DEF DbOK
<1> QED BY <1>2, <1>3, <1>4, <1>5 DEF SameValues, Select, e

\* A subscription which is disabled need not have an event.
LEMMA QueueDisable ==
    ASSUME NEW d, DbOK(d), NEW D, NEW s, NEW ids, NEW had, Queue(d, s, ids, had)
    PROVE  Queue(Disable(d, D), s, ids, had)
<1> DEFINE e == Disable(d, D)
<1>1. /\ e.evq = d.evq /\ DOMAIN e.subs = DOMAIN d.subs
      /\ \A id \in DOMAIN d.subs : e.subs[id].select = d.subs[id].select /\ (e.subs[id].enabled => d.subs[id].enabled)
  BY DisableIs DEF Select
<1> HIDE DEF e
<1>2. \A k : First(e, s, k) <=> First(d, s, k)
  BY <1>1 DEF First
<1>3. ids \subseteq DOMAIN d.subs /\ {id \in DOMAIN e.subs : id.src = s} = ids
  BY <1>1 DEF Queue
<1>4. \A id \in ids \ had : e.subs[id].enabled => \E k \in DOMAIN e.evq[s] : e.evq[s][k].id = id
  BY <1>1, <1>3 DEF Queue
<1>5. \A k \in DOMAIN e.evq[s] : e.evq[s][k].id \in ids /\ e.evq[s][k].mask \subseteq e.subs[e.evq[s][k].id].select
  BY <1>1, <1>3 DEF Queue
<1>6. \A k \in DOMAIN e.evq[s] : e.evq[s][k].id \notin had /\ First(e, s, k) =>
         e.evq[s][k].mask = e.subs[e.evq[s][k].id].select
  BY <1>1, <1>2, <1>3, <1>5 DEF Queue
<1> QED BY <1>3, <1>4, <1>5, <1>6 DEF Queue, e

\* A source which had no subscriptions gets those of new.
LEMMA SubscribeIs ==
    ASSUME NEW d, DbOK(d), NEW new, IsFiniteSet(DOMAIN new), DOMAIN new \subseteq Ids,
           NEW s \in Sources, \A id \in DOMAIN new : id.src = s,
           \A id \in DOMAIN new : new[id].rec \in Records /\ new[id].select \in SUBSET Masks,
           Queue(d, s, {}, {}), NEW had
    PROVE  LET e == Subscribe(d, new)
           IN  /\ DbOK(e) /\ SameValues(d, e) /\ \A id \in DOMAIN new : Select(e, id) = new[id].select
               /\ Queue(e, s, DOMAIN new, had) /\ \A t \in Sources \ {s} : SameSource(d, e, t)
<1> DEFINE e == Subscribe(d, new)
           sub(id) == [rec |-> new[id].rec, select |-> new[id].select, enabled |-> FALSE, last |-> 0]
           subs == [id \in DOMAIN d.subs \cup DOMAIN new |-> IF id \in DOMAIN new THEN sub(id) ELSE d.subs[id]]
<1>1. e = [d EXCEPT !.subs = subs]
  BY DEF Subscribe
<1>2. \A id \in DOMAIN new : sub(id) \in Subscriptions
  BY DEF Subscriptions
<1>3. /\ DOMAIN subs = DOMAIN d.subs \cup DOMAIN new
      /\ \A id \in DOMAIN new : subs[id].select = new[id].select /\ ~subs[id].enabled
      /\ \A id \in DOMAIN subs : subs[id] \in Subscriptions
      /\ \A id \in DOMAIN d.subs \ DOMAIN new : subs[id] = d.subs[id]
  BY <1>2 DEF DbOK
<1> HIDE DEF e, subs
<1>4. /\ e = [val |-> e.val, prop |-> e.prop, posted |-> e.posted, pact |-> e.pact, rpro |-> e.rpro, subs |-> e.subs, evq |-> e.evq]
      /\ e.val = d.val /\ e.posted = d.posted /\ e.pact = d.pact /\ e.rpro = d.rpro
      /\ e.subs = subs /\ e.evq = d.evq
  BY <1>1 DEF DbOK
<1>5. IsFiniteSet(DOMAIN subs)
  <2>1. IsFiniteSet(DOMAIN d.subs)
    BY DEF DbOK
  <2>2. IsFiniteSet(DOMAIN new)
    OBVIOUS
  <2>3. IsFiniteSet(DOMAIN d.subs \cup DOMAIN new)
    BY <2>1, <2>2, FS_Union
  <2> QED BY <1>3, <2>3
<1>6. DbOK(e)
  BY <1>3, <1>4, <1>5 DEF DbOK
<1>7. \A t \in Sources \ {s} : SameSource(d, e, t)
  BY <1>3, <1>4 DEF SameSource
<1>8. Queue(e, s, DOMAIN new, had)
  <2>1. {id \in DOMAIN d.subs : id.src = s} = {} /\ \A k \in DOMAIN d.evq[s] : FALSE
    BY DEF Queue
  <2>2. {id \in DOMAIN e.subs : id.src = s} = DOMAIN new
    BY <1>3, <1>4, <2>1
  <2> QED BY <1>3, <1>4, <2>1, <2>2 DEF Queue
<1> QED BY <1>3, <1>4, <1>6, <1>7, <1>8 DEF SameValues, Select, e

\* cancel() leaves no subscription and no event.
LEMMA CancelIs ==
    ASSUME NEW d, DbOK(d), NEW s \in Sources
    PROVE  LET e == Cancel(d, s)
           IN  /\ DbOK(e) /\ SameValues(d, e) /\ Queue(e, s, {}, {})
               /\ \A t \in Sources \ {s} : SameSource(d, e, t)
<1> DEFINE e == Cancel(d, s)
           subs == [id \in {x \in DOMAIN d.subs : x.src # s} |-> d.subs[id]]
<1>1. e = [d EXCEPT !.subs = subs, !.evq[s] = <<>>]
  BY DEF Cancel
<1>2. /\ DOMAIN subs = {x \in DOMAIN d.subs : x.src # s}
      /\ \A id \in DOMAIN subs : subs[id] = d.subs[id]
  OBVIOUS
<1>3. IsFiniteSet(DOMAIN subs)
  BY <1>2, FS_Subset DEF DbOK
<1> HIDE DEF e, subs
<1>4. /\ e = [val |-> e.val, prop |-> e.prop, posted |-> e.posted, pact |-> e.pact, rpro |-> e.rpro, subs |-> e.subs, evq |-> e.evq]
      /\ e.val = d.val /\ e.posted = d.posted /\ e.pact = d.pact /\ e.rpro = d.rpro
      /\ e.subs = subs /\ e.evq = [d.evq EXCEPT ![s] = <<>>]
  BY <1>1 DEF DbOK
<1>5. <<>> \in Seq(Events) /\ DOMAIN <<>> = {}
  OBVIOUS
<1>6. e.evq \in [Sources -> Seq(Events)] /\ e.evq[s] = <<>> /\ \A t \in Sources \ {s} : e.evq[t] = d.evq[t]
  BY <1>4, <1>5 DEF DbOK
<1>7. DbOK(e)
  BY <1>2, <1>3, <1>4, <1>6 DEF DbOK
<1>8. Queue(e, s, {}, {})
  BY <1>2, <1>4, <1>5, <1>6 DEF Queue
<1>9. \A t \in Sources \ {s} : SameSource(d, e, t)
  BY <1>2, <1>4, <1>6 DEF SameSource
<1> QED BY <1>4, <1>7, <1>8, <1>9 DEF SameValues, e

-----------------------------------------------------------------------------
(* Groups.                                                                 *)

\* What holds from the first number on holds at the last.
LEMMA Climb ==
    ASSUME NEW n \in Nat, NEW T, 0 \in T, \A i \in 1..n : i - 1 \in T => i \in T
    PROVE  n \in T
<1> DEFINE U == {i \in 0..n : i \notin T}
<1>1. SUFFICES ASSUME U # {} PROVE FALSE
  OBVIOUS
<1>2. U \subseteq Nat
  OBVIOUS
<1>3. PICK i \in U : \A y \in U : i <= y
  BY <1>1, <1>2, LeastOf
<1>4. i # 0 /\ i \in 1..n
  BY <1>3
<1>5. i - 1 \in 0..n /\ ~(i <= i - 1)
  BY <1>4
<1> QED BY <1>3, <1>4, <1>5

\* A step function can be applied to the elements of a sequence in turn.
Runs(f, step, start, s, n) == f = [i \in 0..n |-> IF i = 0 THEN start ELSE step[<<f[i - 1], s[i]>>]]

\* The recursive function by which InTurn enters and sorts fields exists.
LEMMA RunsExist ==
    ASSUME NEW V, NEW X, NEW step \in [V \X X -> V], NEW start \in V, NEW s \in Seq(X)
    PROVE  \E f \in [0..Len(s) -> V] : Runs(f, step, start, s, Len(s))
<1> DEFINE T == {n \in 0..Len(s) : \E f \in [0..n -> V] : Runs(f, step, start, s, n)}
<1>1. Len(s) \in Nat /\ \A i \in 1..Len(s) : s[i] \in X
  OBVIOUS
<1>2. 0 \in T
  <2> DEFINE f == [i \in 0..0 |-> start]
  <2>1. f \in [0..0 -> V] /\ Runs(f, step, start, s, 0)
    BY DEF Runs
  <2> QED BY <1>1, <2>1
<1>3. ASSUME NEW m \in 1..Len(s), m - 1 \in T PROVE m \in T
  <2>1. m \in Nat /\ m # 0 /\ 0..m = (0..(m - 1)) \cup {m} /\ m - 1 \in 0..(m - 1) /\ m \notin 0..(m - 1)
    BY <1>1
  <2>2. PICK g \in [0..(m - 1) -> V] : Runs(g, step, start, s, m - 1)
    BY <1>3
  <2> DEFINE f == [i \in 0..m |-> IF i = m THEN step[<<g[m - 1], s[m]>>] ELSE g[i]]
  <2>3. g[m - 1] \in V /\ s[m] \in X
    BY <1>1, <2>1
  <2>4. step[<<g[m - 1], s[m]>>] \in V
    BY <2>3
  <2>5. f \in [0..m -> V]
    BY <2>1, <2>4
  <2>6. ASSUME NEW i \in 0..m PROVE f[i] = IF i = 0 THEN start ELSE step[<<f[i - 1], s[i]>>]
    <3>1. CASE i = m
      <4>1. f[m - 1] = g[m - 1]
        BY <2>1
      <4> QED BY <2>1, <3>1, <4>1
    <3>2. CASE i # m
      <4>1. i \in 0..(m - 1)
        BY <2>1, <3>2
      <4>2. g[i] = IF i = 0 THEN start ELSE step[<<g[i - 1], s[i]>>]
        BY <2>2, <4>1 DEF Runs
      <4>3. i # 0 => f[i - 1] = g[i - 1]
        BY <2>1, <4>1
      <4> QED BY <3>2, <4>2, <4>3
    <3> QED BY <3>1, <3>2
  <2> HIDE DEF f
  <2>7. f = [i \in 0..m |-> f[i]]
    BY <2>5
  <2>8. Runs(f, step, start, s, m)
    BY <2>6, <2>7 DEF Runs
  <2> QED BY <1>1, <2>5, <2>8
<1> HIDE DEF T
<1>4. Len(s) \in T
  BY <1>1, <1>2, <1>3, Climb
<1> QED BY <1>4 DEF T

\* Inserting a field keeps those which are there.
LEMMA InsertFieldIs ==
    ASSUME NEW S, NEW sorted \in Seq(S), NEW x \in S
    PROVE  InsertField(sorted, x) \in Seq(S)
<1> DEFINE I == {i \in DOMAIN sorted : sorted[i].conf.putOrder <= x.conf.putOrder}
           n == Cardinality(I)
<1>1. Len(sorted) \in Nat /\ DOMAIN sorted = 1..Len(sorted) /\ \A i \in 1..Len(sorted) : sorted[i] \in S
  OBVIOUS
<1>2. IsFiniteSet(1..Len(sorted)) /\ Cardinality(1..Len(sorted)) = Len(sorted)
  <2>1. IsFiniteSet(1..Len(sorted)) /\ Cardinality(1..Len(sorted)) = IF 1 > Len(sorted) THEN 0 ELSE Len(sorted) - 1 + 1
    BY <1>1, FS_Interval
  <2> QED BY <1>1, <2>1
<1>3. I \in SUBSET (1..Len(sorted))
  BY <1>1
<1> HIDE DEF I
<1>4. n \in Nat /\ n <= Len(sorted)
  BY <1>2, <1>3, FS_Subset, FS_CardinalityType
<1> HIDE DEF n
<1>5. SubSeq(sorted, 1, n) \in Seq(S)
  BY <1>1, <1>4, SubSeqProperties
<1>6. SubSeq(sorted, n + 1, Len(sorted)) \in Seq(S)
  BY <1>1, <1>4, SubSeqProperties
<1>7. <<x>> \in Seq(S)
  OBVIOUS
<1>8. SubSeq(sorted, 1, n) \o <<x>> \o SubSeq(sorted, n + 1, Len(sorted)) \in Seq(S)
  BY <1>5, <1>6, <1>7, ConcatProperties
<1> QED BY <1>8 DEF InsertField, n, I

\* Sorting makes no fields.
LEMMA SortFieldsIs ==
    ASSUME NEW S, NEW defs \in Seq(S)
    PROVE  SortFields(defs) \in Seq(S)
<1> DEFINE V == Seq(S)
           n == Len(defs)
           step == [p \in V \X S |-> InsertField(p[1], p[2])]
           P(f) == f = [i \in 0..n |-> IF i = 0 THEN <<>> ELSE InsertField(f[i - 1], defs[i])]
           f == CHOOSE g : P(g)
<1>1. n \in Nat /\ \A i \in 1..n : defs[i] \in S
  OBVIOUS
<1>2. step \in [V \X S -> V] /\ \A a \in V, b \in S : step[<<a, b>>] = InsertField(a, b)
  BY InsertFieldIs
<1>3. <<>> \in V
  BY EmptySeq
<1>4. SortFields(defs) = f[n]
  BY DEF SortFields, InTurn
<1> HIDE DEF step, V
<1>5. PICK g \in [0..n -> V] : Runs(g, step, <<>>, defs, n)
  BY <1>2, <1>3, RunsExist
<1>6. ASSUME NEW i \in 0..n PROVE g[i] = IF i = 0 THEN <<>> ELSE InsertField(g[i - 1], defs[i])
  <2>1. g[i] = IF i = 0 THEN <<>> ELSE step[<<g[i - 1], defs[i]>>]
    BY <1>5 DEF Runs
  <2>2. i # 0 => i - 1 \in 0..n /\ defs[i] \in S
    BY <1>1
  <2> QED BY <1>2, <2>1, <2>2
<1>7. P(g)
  <2>1. g = [i \in 0..n |-> g[i]]
    BY <1>5
  <2> QED BY <1>6, <2>1
<1>8. P(f)
  BY <1>7
<1> HIDE DEF f
<1>9. f[0] = <<>> /\ \A i \in 1..n : f[i] = InsertField(f[i - 1], defs[i])
  BY <1>1, <1>8
<1> DEFINE T == {i \in 0..n : f[i] \in V}
<1>10. 0 \in T
  BY <1>1, <1>3, <1>9
<1>11. ASSUME NEW i \in 1..n, i - 1 \in T PROVE i \in T
  <2>1. f[i - 1] \in Seq(S) /\ defs[i] \in S
    BY <1>1, <1>11 DEF V
  <2>2. f[i] = InsertField(f[i - 1], defs[i])
    BY <1>9
  <2>3. InsertField(f[i - 1], defs[i]) \in Seq(S)
    BY <2>1, InsertFieldIs
  <2> QED BY <1>1, <2>2, <2>3 DEF V
<1> HIDE DEF T
<1>12. n \in T
  BY <1>1, <1>10, <1>11, Climb
<1> QED BY <1>4, <1>12 DEF T, V

\* The definitions of the fields of a group
Defs(g) == {[name |-> n, conf |-> g.fields[n]] : n \in DOMAIN g.fields}

\* Every field which is defined comes of the configuration.
LEMMA DefineFieldsIs ==
    ASSUME NEW g
    PROVE  DefineFields(g) \in Seq(Defs(g))
<1> DEFINE V == Seq(Defs(g))
           X == ToSet(NameOrder)
           s == NameOrder
           n == Len(s)
           Enter(defs, x) == IF x \in DOMAIN g.fields /\ (x = NoName => g.fields[x].type = "meta")
                             THEN Append(defs, [name |-> x, conf |-> g.fields[x]]) ELSE defs
           step == [p \in V \X X |-> Enter(p[1], p[2])]
           P(f) == f = [i \in 0..n |-> IF i = 0 THEN <<>> ELSE Enter(f[i - 1], s[i])]
           f == CHOOSE h : P(h)
<1>1. s \in Seq(X) /\ n \in Nat /\ \A i \in 1..n : s[i] \in X
  <2>1. s \in Seq(X)
    BY NameOrderAssumption
  <2> HIDE DEF X, s
  <2> QED BY <2>1
<1>2. \A a \in V, x \in X : Enter(a, x) \in V
  <2> SUFFICES ASSUME NEW a \in V, NEW x \in X PROVE Enter(a, x) \in V
    OBVIOUS
  <2>1. x \in DOMAIN g.fields => [name |-> x, conf |-> g.fields[x]] \in Defs(g)
    BY DEF Defs
  <2>2. x \in DOMAIN g.fields => Append(a, [name |-> x, conf |-> g.fields[x]]) \in V
    BY <2>1
  <2> QED BY <2>2
<1>3. <<>> \in V
  BY EmptySeq
<1>4. DefineFields(g) = f[n]
  BY DEF DefineFields, InTurn
<1> HIDE DEF Enter, V, X, s
<1>5. step \in [V \X X -> V] /\ \A a \in V, b \in X : step[<<a, b>>] = Enter(a, b)
  BY <1>2
<1> HIDE DEF step
<1>6. PICK h \in [0..n -> V] : Runs(h, step, <<>>, s, n)
  BY <1>1, <1>3, <1>5, RunsExist
<1>7. ASSUME NEW i \in 0..n PROVE h[i] = IF i = 0 THEN <<>> ELSE Enter(h[i - 1], s[i])
  <2>1. h[i] = IF i = 0 THEN <<>> ELSE step[<<h[i - 1], s[i]>>]
    BY <1>6 DEF Runs
  <2>2. i # 0 => i - 1 \in 0..n /\ s[i] \in X
    BY <1>1
  <2> QED BY <1>5, <2>1, <2>2
<1>8. P(h)
  <2>1. h = [i \in 0..n |-> h[i]]
    BY <1>6
  <2> QED BY <1>7, <2>1
<1>9. P(f)
  BY <1>8
<1> HIDE DEF f
<1>10. f[0] = <<>> /\ \A i \in 1..n : f[i] = Enter(f[i - 1], s[i])
  BY <1>1, <1>9
<1> DEFINE T == {i \in 0..n : f[i] \in V}
<1>11. 0 \in T
  BY <1>1, <1>3, <1>10
<1>12. ASSUME NEW i \in 1..n, i - 1 \in T PROVE i \in T
  BY <1>1, <1>2, <1>10, <1>12
<1> HIDE DEF T
<1>13. n \in T
  BY <1>1, <1>11, <1>12, Climb
<1> QED BY <1>4, <1>13 DEF T, V, Enter, s

\* A channel is given to the fields which need one.
ConfOK(g) == \A n \in DOMAIN g.fields : NeedsChannel(g.fields[n]) <=> g.fields[n].channel # NoChannel
Channeled(d) == d.conf.channel # NoChannel

\* All fields of a group which was made have their records.
LEMMA CreatedIs ==
    ASSUME NEW S, NEW defs \in Seq(S), Created(defs) = defs
    PROVE  \A i \in 1..Len(defs) : Channeled(defs[i]) => defs[i].conf.channel[1] \in Records
<1> DEFINE bad == {i \in DOMAIN defs : defs[i].conf.channel # NoChannel /\ defs[i].conf.channel[1] \notin Records}
           m == Min(bad)
<1>1. Len(defs) \in Nat /\ DOMAIN defs = 1..Len(defs) /\ \A i \in 1..Len(defs) : defs[i] \in S
  OBVIOUS
<1>2. ASSUME bad # {} PROVE FALSE
  <2>1. bad \subseteq Nat /\ bad \subseteq 1..Len(defs)
    BY <1>1
  <2>2. Created(defs) = SubSeq(defs, 1, m - 1)
    BY <1>2 DEF Created
  <2> HIDE DEF bad
  <2>3. \E x \in bad : \A y \in bad : x <= y
    BY <1>2, <2>1, LeastOf
  <2>4. m \in bad
    BY <2>3 DEF Min
  <2> HIDE DEF m
  <2>a. m \in 1..Len(defs)
    BY <2>1, <2>4
  <2>b. m - 1 \in Int /\ \A i \in 1..(m - 1) : i \in 1..Len(defs)
    BY <1>1, <2>a
  <2>5. m \in 1..Len(defs) /\ m - 1 \in Int /\ \A i \in 1..(m - 1) : defs[i] \in S
    BY <1>1, <2>a, <2>b
  <2>6. Len(SubSeq(defs, 1, m - 1)) = IF 1 <= m - 1 THEN (m - 1) - 1 + 1 ELSE 0
    BY <2>5, SubSeqProperties
  <2>7. Len(SubSeq(defs, 1, m - 1)) # Len(defs)
    BY <1>1, <2>5, <2>6
  <2> QED BY <2>2, <2>7
<1> QED BY <1>1, <1>2 DEF Channeled

\* The map leads to the field of each name.
LEMMA FieldMapIs ==
    ASSUME NEW unsorted, NEW S, NEW defs \in Seq(S)
    PROVE  LET map == FieldMap(unsorted, defs)
           IN  /\ \A i \in 1..Len(defs) : defs[i].name \in DOMAIN map
               /\ \A x \in DOMAIN map : map[x] \in 1..Len(defs) /\ defs[map[x]].name = x
<1>1. DOMAIN defs = 1..Len(defs)
  OBVIOUS
<1> QED BY <1>1 DEF FieldMap, ToSet

\* A change refreshes fields which have a record.
LEMMA TriggerNamesIs ==
    ASSUME NEW g, NEW defs \in Seq(Defs(g)), NEW unsorted, NEW d \in ToSet(defs), Channeled(d),
           NEW x \in TriggerNames(defs, FieldMap(unsorted, defs), d)
    PROVE  x \in DOMAIN FieldMap(unsorted, defs) /\ Channeled(defs[FieldMap(unsorted, defs)[x]])
<1> DEFINE map == FieldMap(unsorted, defs)
<1>1. /\ DOMAIN defs = 1..Len(defs)
      /\ \A i \in 1..Len(defs) : defs[i] \in Defs(g)
  OBVIOUS
<1>2. \A e \in Defs(g) : e.conf = g.fields[e.name]
  BY DEF Defs
<1>3. /\ \A i \in 1..Len(defs) : defs[i].name \in DOMAIN map
      /\ \A y \in DOMAIN map : map[y] \in 1..Len(defs) /\ defs[map[y]].name = y
  BY FieldMapIs
<1> HIDE DEF map
<1>4. ASSUME NEW e \in ToSet(defs), Channeled(e) PROVE e.name \in DOMAIN map /\ Channeled(defs[map[e.name]])
  <2>1. PICK i \in 1..Len(defs) : e = defs[i]
    BY <1>1 DEF ToSet
  <2>2. e.name \in DOMAIN map /\ map[e.name] \in 1..Len(defs) /\ defs[map[e.name]].name = e.name
    BY <1>3, <2>1
  <2>3. defs[map[e.name]].conf = e.conf
    BY <1>1, <1>2, <2>1, <2>2
  <2> QED BY <1>4, <2>2, <2>3 DEF Channeled
<1>5. ASSUME NEW t \in DOMAIN map PROVE defs[map[t]] \in ToSet(defs)
  BY <1>1, <1>3 DEF ToSet
<1>6. \E e \in ToSet(defs) : Channeled(e) /\ x = e.name
  <2>1. CASE \A i \in DOMAIN defs : defs[i].conf.trigger = <<>>
    BY <2>1 DEF TriggerNames, Channeled
  <2>2. CASE ~(\A i \in DOMAIN defs : defs[i].conf.trigger = <<>>)
    <3>1. PICK t \in ToSet(d.conf.trigger) :
             x \in IF t = AllFields THEN {e.name : e \in {e \in ToSet(defs) : e.conf.channel # NoChannel}}
                   ELSE IF t \in DOMAIN map /\ defs[map[t]].conf.channel # NoChannel THEN {defs[map[t]].name} ELSE {}
      BY <2>2 DEF TriggerNames, map
    <3> QED BY <1>5, <3>1 DEF Channeled
  <2> QED BY <2>1, <2>2
<1> QED BY <1>4, <1>6 DEF map

\* A group which could be made whole can be served.
LEMMA CreateGroupIs ==
    ASSUME NEW g, ConfOK(g), CreateGroup(g).ok
    PROVE  GroupOK(CreateGroup(g))
<1> DEFINE unsorted == DefineFields(g)
           defs == SortFields(unsorted)
           map == FieldMap(unsorted, defs)
           n == Len(defs)
           fields == [i \in DOMAIN defs |-> MakeField(defs, map, defs[i])]
           G == CreateGroup(g)
<1>1. unsorted \in Seq(Defs(g)) /\ defs \in Seq(Defs(g))
  BY DefineFieldsIs, SortFieldsIs
<1>2. Created(defs) = defs
  BY DEF CreateGroup
<1>3. G.fields = fields /\ G.lock = LockOf(defs, DOMAIN defs)
  BY <1>2 DEF CreateGroup
<1> HIDE DEF unsorted, defs, map, G
<1>4. n \in Nat /\ DOMAIN defs = 1..n /\ \A i \in 1..n : defs[i] \in Defs(g) /\ defs[i] \in ToSet(defs)
  BY <1>1 DEF ToSet
<1>5. \A i \in 1..n : Channeled(defs[i]) => defs[i].conf.channel[1] \in Records
  BY <1>1, <1>2, CreatedIs
<1>6. \A i \in 1..n : NeedsChannel(defs[i].conf) <=> Channeled(defs[i])
  <2>1. \A e \in Defs(g) : e.name \in DOMAIN g.fields /\ e.conf = g.fields[e.name]
    BY DEF Defs
  <2> QED BY <1>4, <2>1 DEF ConfOK, Channeled
<1>7. \A x \in DOMAIN map : map[x] \in 1..n
  BY <1>1, FieldMapIs DEF map
<1>8. ASSUME NEW i \in 1..n, Channeled(defs[i]), NEW j \in Triggers(defs, map, defs[i])
      PROVE  j \in 1..n /\ Channeled(defs[j])
  <2>1. PICK x \in TriggerNames(defs, map, defs[i]) : j = map[x]
    BY DEF Triggers
  <2>2. x \in DOMAIN map /\ Channeled(defs[map[x]])
    BY <1>1, <1>4, <1>8, <2>1, TriggerNamesIs DEF map
  <2> QED BY <1>7, <2>1, <2>2
<1>9. \A i \in 1..n : G.fields[i] = MakeField(defs, map, defs[i])
  BY <1>3, <1>4
<1>10. ASSUME NEW i \in 1..n
       PROVE  LET f == G.fields[i] IN
              /\ f.type = defs[i].conf.type
              /\ f.rec = IF Channeled(defs[i]) THEN defs[i].conf.channel[1] ELSE NoName
              /\ f.triggers = IF Channeled(defs[i]) THEN Triggers(defs, map, defs[i]) ELSE {}
              /\ f.lock = LockOf(defs, f.triggers)
  <2> DEFINE d == defs[i]
             trig == IF d.conf.channel = NoChannel THEN {} ELSE Triggers(defs, map, d)
             f == G.fields[i]
  <2>1. f = [name |-> d.name, type |-> d.conf.type, putOrder |-> d.conf.putOrder,
             rec |-> IF d.conf.channel = NoChannel THEN NoName ELSE d.conf.channel[1],
             triggers |-> trig, lock |-> LockOf(defs, trig)]
    BY <1>9 DEF MakeField
  <2> HIDE DEF trig, d, f
  <2>2. /\ f.type = d.conf.type /\ f.rec = IF d.conf.channel = NoChannel THEN NoName ELSE d.conf.channel[1]
        /\ f.triggers = trig /\ f.lock = LockOf(defs, trig)
    BY <2>1
  <2> QED BY <2>2 DEF trig, d, f, Channeled
<1>11. DOMAIN G.fields = 1..n /\ Len(G.fields) = n
  <2>1. G.fields = [i \in 1..n |-> MakeField(defs, map, defs[i])]
    BY <1>3, <1>4
  <2> QED BY <1>4, <2>1
<1> HIDE DEF fields
<1>12. ASSUME NEW I \in SUBSET (1..n)
       PROVE  /\ LockOf(defs, I) \subseteq Records
              /\ \A i \in I : Channeled(defs[i]) => defs[i].conf.channel[1] \in LockOf(defs, I)
  BY <1>5 DEF LockOf, Channeled
<1>13. G.lock \subseteq Records /\ \A i \in 1..n : Channeled(defs[i]) => defs[i].conf.channel[1] \in G.lock
  BY <1>3, <1>4, <1>12
<1>14. \A i \in 1..n : Channeled(defs[i]) => G.fields[i].rec \in Records /\ G.fields[i].rec # NoName
  BY <1>5, <1>10, NoNameAssumption
<1>15. \A i \in 1..n : G.fields[i].triggers \subseteq 1..n /\ \A j \in G.fields[i].triggers : Channeled(defs[j])
  BY <1>8, <1>10
<1>16. ASSUME NEW i \in 1..n PROVE FieldOK(G, G.fields[i])
  <2> DEFINE f == G.fields[i]
  <2>1. f.rec \in Records \cup {NoName} /\ (Mapped(f) <=> Channeled(defs[i]))
    BY <1>10, <1>14 DEF Mapped
  <2>2. f.rec = NoName <=> f.type \in {"structure", "const"}
    BY <1>6, <1>10, <2>1 DEF Mapped, NeedsChannel
  <2>3. Mapped(f) => f.rec \in G.lock
    BY <1>10, <1>13, <2>1
  <2>4. f.triggers \subseteq DOMAIN G.fields /\ (f.triggers # {} => Mapped(f))
    BY <1>10, <1>11, <1>15, <2>1
  <2>5. f.lock \subseteq Records
    BY <1>10, <1>12, <1>15
  <2>6. ASSUME NEW j \in f.triggers PROVE Mapped(G.fields[j]) /\ G.fields[j].rec \in f.lock
    <3>1. j \in 1..n /\ Channeled(defs[j])
      BY <1>15
    <3>2. G.fields[j].rec = defs[j].conf.channel[1] /\ Mapped(G.fields[j])
      BY <1>10, <1>14, <3>1 DEF Mapped
    <3>3. defs[j].conf.channel[1] \in LockOf(defs, f.triggers)
      BY <1>12, <1>15, <3>1
    <3>4. f.lock = LockOf(defs, f.triggers)
      BY <1>10
    <3> QED BY <3>2, <3>3, <3>4
  <2> HIDE DEF f
  <2> QED BY <2>1, <2>2, <2>3, <2>4, <2>5, <2>6 DEF FieldOK, f
<1> QED BY <1>4, <1>11, <1>13, <1>16 DEF GroupOK, G

\* Whatever the parser finds, the groups which can be served are made right.
LEMMA ProcessGroupsIs ==
    ASSUME NEW texts
    PROVE  \A gn \in DOMAIN ProcessGroups(texts) :
              ProcessGroups(texts)[gn].ok => GroupOK(ProcessGroups(texts)[gn])
<1> DEFINE c == LoadConfigFiles(texts)
           valid == ValidateGroups(c.groups)
           P == ProcessGroups(texts)
<1>1. P = <<>> \/ P = [gn \in DOMAIN valid \ Records |-> CreateGroup(valid[gn])]
  BY DEF ProcessGroups
<1> HIDE DEF P
<1>2. ASSUME NEW gn \in DOMAIN valid PROVE ConfOK(valid[gn])
  <2> DEFINE g == c.groups[gn]
  <2>1. gn \in DOMAIN c.groups /\ ValidGroup(g)
    BY <1>2 DEF ValidateGroups
  <2>2. valid[gn] = [atomic |-> g.atomic, atomicIsSet |-> g.atomicIsSet, fields |-> [n \in DOMAIN g.fields |-> ValidField(g.fields[n])]]
    BY <1>2 DEF ValidateGroups
  <2> HIDE DEF g, valid
  <2>3. DOMAIN valid[gn].fields = DOMAIN g.fields /\ \A n \in DOMAIN g.fields : valid[gn].fields[n] = ValidField(g.fields[n])
    BY <2>2
  <2>4. ASSUME NEW n \in DOMAIN g.fields
        PROVE  NeedsChannel(ValidField(g.fields[n])) <=> ValidField(g.fields[n]).channel # NoChannel
    <3>1. CASE NeedsChannel(g.fields[n])
      BY <2>1, <3>1 DEF ValidField, ValidGroup
    <3>2. CASE ~NeedsChannel(g.fields[n])
      BY <3>2 DEF ValidField, NeedsChannel
    <3> QED BY <3>1, <3>2
  <2> QED BY <2>3, <2>4 DEF ConfOK
<1> HIDE DEF valid
<1>3. CASE P = <<>>
  BY <1>3 DEF P
<1>4. CASE P = [gn \in DOMAIN valid \ Records |-> CreateGroup(valid[gn])]
  <2>1. ASSUME NEW gn \in DOMAIN P, P[gn].ok PROVE GroupOK(P[gn])
    <3>1. gn \in DOMAIN valid /\ P[gn] = CreateGroup(valid[gn])
      BY <1>4
    <3> QED BY <1>2, <2>1, <3>1, CreateGroupIs
  <2> QED BY <2>1 DEF P
<1> QED BY <1>1, <1>3, <1>4

-----------------------------------------------------------------------------
(* The single source, and what its steps, scans and completions leave to   *)
(* the group source.                                                       *)

Keeps(s) ==
    /\ \A ids, had : Queue(db, s, ids, had) => Queue(db', s, ids, had)
    /\ \A id \in DOMAIN db.subs : id.src = s => Select(db', id) = Select(db, id)

\* What the database does of its own accord keeps the queues right.
LEMMA GrowsKeeps ==
    ASSUME DbOK(db), Grows(db, db'), NEW s \in Sources
    PROVE  DbOK(db') /\ Keeps(s)
<1>1. \A id \in DOMAIN db.subs : Select(db', id) = Select(db, id)
  BY DEF Grows, SameSubs, Select
<1>2. \A ids, had : Queue(db, s, ids, had) => Queue(db', s, ids, had)
  BY QueueGrows
<1>3. DbOK(db')
  BY DEF Grows
<1> QED BY <1>1, <1>2, <1>3 DEF Keeps

\* What concerns the other source keeps a queue right.
LEMMA SameKeeps ==
    ASSUME NEW s, SameSource(db, db', s)
    PROVE  Keeps(s)
<1>1. \A id \in DOMAIN db.subs : id.src = s => Select(db', id) = Select(db, id)
  BY DEF SameSource, Select
<1>2. \A ids, had : Queue(db, s, ids, had) => Queue(db', s, ids, had)
  BY QueueSame
<1> QED BY <1>1, <1>2 DEF Keeps

\* Starting both subscriptions of a field keeps the queues right.
LEMMA EnableKeeps ==
    ASSUME DbOK(db), NEW a, NEW b, db' = Enable(Enable(db, a), b), NEW s \in Sources
    PROVE  DbOK(db') /\ SameValues(db, db') /\ Keeps(s)
<1> DEFINE c == Enable(db, a)
<1>1. \A ids, had : Queue(db, s, ids, had) => Queue(c, s, ids, had)
  BY QueueEnable
<1>2. DbOK(c) /\ c.val = db.val /\ c.posted = db.posted /\ c.pact = db.pact
      /\ DOMAIN c.subs = DOMAIN db.subs /\ \A y \in DOMAIN db.subs : c.subs[y].select = db.subs[y].select
  <2>1. CASE a \notin DOMAIN db.subs
    <3>1. c = db
      BY <2>1 DEF Enable
    <3> QED BY <3>1
  <2>2. CASE a \in DOMAIN db.subs
    <3> QED BY <2>2, EnableIs
  <2> QED BY <2>1, <2>2
<1> HIDE DEF c
<1>3. \A ids, had : Queue(c, s, ids, had) => Queue(Enable(c, b), s, ids, had)
  BY <1>2, QueueEnable
<1>4. db' = Enable(c, b)
  BY DEF c
<1>5. DbOK(db') /\ db'.val = c.val /\ db'.posted = c.posted /\ db'.pact = c.pact
      /\ DOMAIN db'.subs = DOMAIN c.subs /\ \A y \in DOMAIN c.subs : db'.subs[y].select = c.subs[y].select
  <2>1. CASE b \notin DOMAIN c.subs
    <3>1. db' = c
      BY <1>4, <2>1 DEF Enable
    <3> QED BY <1>2, <3>1
  <2>2. CASE b \in DOMAIN c.subs
    <3> QED BY <1>2, <1>4, <2>2, EnableIs
  <2> QED BY <2>1, <2>2
<1> QED BY <1>1, <1>2, <1>3, <1>4, <1>5 DEF Keeps, SameValues, Select

\* Stopping keeps the queues right.
LEMMA DisableKeeps ==
    ASSUME DbOK(db), NEW D, db' = Disable(db, D), NEW s \in Sources
    PROVE  DbOK(db') /\ SameValues(db, db') /\ Keeps(s)
<1>1. \A ids, had : Queue(db, s, ids, had) => Queue(db', s, ids, had)
  BY QueueDisable
<1>2. DbOK(db') /\ SameValues(db, db') /\ \A id \in DOMAIN db.subs : Select(db', id) = Select(db, id)
  BY DisableIs
<1> QED BY <1>1, <1>2 DEF Keeps

WaitReply ==
    sreply.k = "put" /\ sreply.ok /\ sreply.waited /\ sreply.marked => sreply.posted \in {SingleValue, PutValue}
SInv == SSubOK /\ NotifyOK /\ SingleQueue /\ Waiting /\ SingleMarks /\ WaitReply /\ srec \in Records

\* A step which is not the single source's
SOther ==
    /\ Keeps("single") /\ UNCHANGED <<ssub, sfirst, srec>>
    /\ notify.state = "active" /\ srec \in db.pact =>
          srec \in db'.pact /\ db'.val[srec] \in {db.val[srec], PutValue}

\* A step which keeps its queue right and the subscription as it is
LEMMA SingleQueueKept ==
    ASSUME SingleQueue, Keeps("single"), UNCHANGED ssub
    PROVE  SingleQueue'
<1>1. CASE ssub = NoSingleSub
  BY <1>1 DEF SingleQueue, Keeps
<1>2. CASE ssub # NoSingleSub
  <2>1. Queue(db, "single", SingleIds, ssub.had) /\ Queue(db', "single", SingleIds, ssub.had)
    BY <1>2 DEF SingleQueue, Keeps
  <2>2. \A id \in SingleIds : id \in DOMAIN db.subs /\ id.src = "single"
    BY <2>1 DEF Queue
  <2>3. \A id \in SingleIds : db'.subs[id].select = db.subs[id].select
    BY <2>2 DEF Keeps, Select
  <2>4. SingleId("value") \in SingleIds /\ SingleId("property") \in SingleIds
    BY DEF SingleIds
  <2> QED BY <1>2, <2>1, <2>3, <2>4 DEF SingleQueue
<1> QED BY <1>1, <1>2

\* A step of others leaves the single source's invariant.
LEMMA SOtherKeeps ==
    ASSUME SInv, SOther, UNCHANGED <<notify, sreply>>
    PROVE  SInv'
<1>1. SingleQueue'
  BY SingleQueueKept DEF SInv, SOther
<1>2. SSubOK' /\ NotifyOK' /\ SingleMarks' /\ WaitReply' /\ (srec \in Records)'
  BY DEF SInv, SOther, SSubOK, NotifyOK, SingleMarks, WaitReply, SCovers, SingleParts
<1>3. Waiting'
  BY DEF SInv, SOther, Waiting
<1> QED BY <1>1, <1>2, <1>3 DEF SInv

\* What such a step does to the group source
GOther ==
    /\ UNCHANGED <<groupVars, held, seen>>
    /\ DbOK(db') /\ Keeps("group")
    /\ \A r \in held : db'.val[r] = db.val[r]
    /\ Snap(db', held) \in snaps' /\ snaps \subseteq snaps'

Lefts ==
    /\ {"scans", "props"} \subseteq DOMAIN left
    /\ left.scans \subseteq SUBSET Records /\ left.props \subseteq Records

Base == DbOK(db) /\ held \subseteq Records

\* A budget which is spent is none of the sets.
LEMMA SpendLeft ==
    ASSUME Lefts, NEW w, w \notin {"scans", "props"}, Spend(w)
    PROVE  Lefts'
<1>1. left' = [left EXCEPT ![w] = @ - 1]
  BY DEF Spend
<1> QED BY <1>1 DEF Lefts

\* The two sources
LEMMA SourcesAre == "group" \in Sources /\ "single" \in Sources /\ Sources = {"group", "single"}
BY DEF Sources

\* What can be locked is not of what the worker keeps locked.
LEMMA LockedOut ==
    ASSUME NEW S \in SUBSET Records, CanLock(S)
    PROVE  S \cap held = {}
BY DEF CanLock, Together

\* The same values are found.
LEMMA SameSnap ==
    ASSUME NEW d, NEW e, NEW h, e.val = d.val
    PROVE  Snap(e, h) = Snap(d, h)
BY DEF Snap

\* A scan changes no record which the worker keeps locked.
LEMMA ScanLockSetIs ==
    ASSUME Base, SInv, NEW S \in SUBSET Records, ScanLockSet(S), UNCHANGED singleVars, Observe, Unseen
    PROVE  SInv' /\ GOther
<1> USE DEF Base
<1>1. Grows(db, db') /\ db.pact \subseteq db'.pact /\ \A x \in Records \ S : db'.val[x] = db.val[x]
  BY ScanAllIs DEF ScanLockSet
<1>2. S \cap held = {} /\ S \cap db.pact = {} /\ UNCHANGED <<groupVars, held>>
  BY LockedOut DEF ScanLockSet
<1>3. DbOK(db') /\ Keeps("group") /\ Keeps("single")
  BY <1>1, GrowsKeeps, SourcesAre
<1>4. SOther
  BY <1>1, <1>2, <1>3 DEF SOther, singleVars, SInv
<1>5. SInv'
  BY <1>4, SOtherKeeps DEF singleVars
<1>6. \A r \in held : db'.val[r] = db.val[r]
  BY <1>1, <1>2
<1> QED BY <1>2, <1>3, <1>5, <1>6 DEF GOther, Observe, Unseen

\* A change of properties changes no value.
LEMMA ChangePropertyIs ==
    ASSUME Base, SInv, NEW r \in Records, ChangeProperty(r), UNCHANGED singleVars, Observe, Unseen
    PROVE  SInv' /\ GOther
<1> DEFINE c == [db EXCEPT !.prop[r] = @ + 1]
<1>0. c = [db EXCEPT !.prop[r] = @ + 1] /\ db' = PostEvents(c, r, {"property"}) /\ UNCHANGED <<groupVars, held>>
  BY DEF ChangeProperty
<1> HIDE DEF c
<1>1. /\ c = [val |-> c.val, prop |-> c.prop, posted |-> c.posted, pact |-> c.pact, rpro |-> c.rpro, subs |-> c.subs, evq |-> c.evq]
      /\ c.val = db.val /\ c.posted = db.posted /\ c.pact = db.pact /\ c.rpro = db.rpro
      /\ c.subs = db.subs /\ c.evq = db.evq
  BY <1>0 DEF Base, DbOK
<1>2. DbOK(c)
  BY <1>1 DEF Base, DbOK
<1>3. Grows(db, c)
  BY <1>1, <1>2, GrowsSelf DEF Base
<1>4. {"property"} \in SUBSET Masks
  BY DEF Masks
<1>5. Grows(c, db') /\ db'.val = c.val /\ db'.pact = c.pact
  BY <1>0, <1>2, <1>4, PostEventsIs
<1>6. Grows(db, db')
  BY <1>3, <1>5, GrowsOn DEF Base
<1>7. DbOK(db') /\ Keeps("group") /\ Keeps("single")
  BY <1>6, GrowsKeeps, SourcesAre DEF Base
<1>8. SOther
  BY <1>1, <1>5, <1>7 DEF SOther, singleVars
<1>9. SInv'
  BY <1>8, SOtherKeeps DEF singleVars
<1> QED BY <1>0, <1>1, <1>5, <1>7, <1>9 DEF GOther, Observe, Unseen

\* dbProcessNotify() writes what is marked and processes the record.
LEMMA RunNotifyIs ==
    ASSUME NEW d, DbOK(d), srec \in Records, NEW marked \in BOOLEAN
    PROVE  LET e == RunNotify(d, marked)
           IN  /\ Grows(d, e) /\ d.pact \subseteq e.pact
               /\ \A r \in Records \ {srec} : e.val[r] = d.val[r]
               /\ marked => e.val[srec] = SingleValue
               /\ IF srec \in Async THEN srec \in e.pact ELSE e.posted[srec] = e.val[srec]
<1> DEFINE c == IF marked THEN DbPut(d, srec, SingleValue) ELSE d
           e == DbProcess(c, srec)
<1>1. Grows(d, c) /\ c.pact = d.pact /\ (\A r \in Records \ {srec} : c.val[r] = d.val[r]) /\ (marked => c.val[srec] = SingleValue)
  <2>1. CASE marked
    <3> DEFINE p == DbPut(d, srec, SingleValue)
    <3>1. Grows(d, p) /\ p.val = [d.val EXCEPT ![srec] = SingleValue] /\ p.pact = d.pact
      BY DbPutIs, SingleValueAssumption
    <3>2. DOMAIN d.val = Records
      BY DEF DbOK
    <3> HIDE DEF p
    <3>3. c = p
      BY <2>1 DEF p
    <3> QED BY <3>1, <3>2, <3>3
  <2>2. CASE ~marked
    BY <2>2, GrowsSelf
  <2> QED BY <2>1, <2>2
<1> HIDE DEF c
<1>2. DbOK(c)
  BY <1>1 DEF Grows
<1>3. /\ Grows(c, e) /\ e.val = c.val /\ c.pact \subseteq e.pact
      /\ IF srec \in Async THEN srec \in e.pact /\ e.posted = c.posted ELSE e.posted[srec] = c.val[srec]
  BY <1>2, DbProcessIs
<1> HIDE DEF e
<1>4. Grows(d, e)
  BY <1>1, <1>3, GrowsOn
<1>5. RunNotify(d, marked) = e
  BY DEF RunNotify, c, e
<1> QED BY <1>1, <1>3, <1>4, <1>5

\* The record of the single source is not locked: what it writes is not of the group's.
LEMMA FreeStep ==
    ASSUME Base, SInv, SingleFree, Grows(db, db'), \A r \in Records \ {srec} : db'.val[r] = db.val[r],
           UNCHANGED <<groupVars, held>>, Observe, Unseen
    PROVE  GOther /\ Keeps("single")
<1>1. DbOK(db') /\ Keeps("group") /\ Keeps("single")
  BY GrowsKeeps, SourcesAre DEF Base
<1>2. {srec} \cap held = {}
  BY LockedOut DEF SingleFree, SInv
<1>3. \A r \in held : db'.val[r] = db.val[r]
  BY <1>2 DEF Base
<1> QED BY <1>1, <1>3 DEF GOther, Observe, Unseen

\* A put which waits is answered at once, or when its record completes.
LEMMA NotifyRunsIs ==
    ASSUME Base, SInv, notify = NoNotify, SingleFree, NEW marked \in BOOLEAN, NotifyRuns(marked),
           UNCHANGED <<ssub, sfirst, srec, groupVars, held>>, Observe, Unseen
    PROVE  SInv' /\ GOther
<1> DEFINE e == RunNotify(db, marked)
<1>1. /\ Grows(db, e) /\ db.pact \subseteq e.pact
      /\ \A r \in Records \ {srec} : e.val[r] = db.val[r]
      /\ marked => e.val[srec] = SingleValue
      /\ IF srec \in Async THEN srec \in e.pact ELSE e.posted[srec] = e.val[srec]
  BY RunNotifyIs DEF Base, SInv
<1>2. db' = e
  BY DEF NotifyRuns
<1> HIDE DEF e
<1>3. GOther /\ Keeps("single")
  BY <1>1, <1>2, FreeStep
<1>4. SingleQueue'
  BY <1>3, SingleQueueKept DEF SInv
<1>5. SSubOK' /\ SingleMarks' /\ (srec \in Records)'
  BY DEF SInv, SSubOK, SingleMarks, SCovers, SingleParts
<1>6. NotifyOK' /\ Waiting' /\ WaitReply'
  <2>1. CASE srec \in Async
    <3>1. notify' = [state |-> "active", marked |-> marked] /\ sreply' = sreply
      BY <2>1 DEF NotifyRuns
    <3> QED BY <1>1, <1>2, <2>1, <3>1 DEF NotifyOK, Waiting, WaitReply, SInv
  <2>2. CASE srec \notin Async
    <3>1. notify' = NoNotify /\ sreply' = Replied(TRUE, TRUE, marked)
      BY <2>2 DEF NotifyRuns
    <3>2. sreply'.marked = marked /\ sreply'.posted = db'.posted[srec]
      BY <3>1 DEF Replied
    <3> QED BY <1>1, <1>2, <2>2, <3>1, <3>2 DEF NotifyOK, Waiting, WaitReply, NoNotify
  <2> QED BY <2>1, <2>2
<1> QED BY <1>3, <1>4, <1>5, <1>6 DEF SInv

\* A put which waits finds its record free, active, or not to be written.
LEMMA SinglePutIs ==
    ASSUME Base, SInv, NEW block \in BOOLEAN, NEW force, NEW marked \in BOOLEAN, SinglePut(block, force, marked),
           UNCHANGED groupVars, Observe, Unseen
    PROVE  SInv' /\ GOther
<1>1. notify = NoNotify /\ SingleFree /\ UNCHANGED <<ssub, sfirst, srec, held>>
  BY DEF SinglePut
<1>2. CASE ~(PutEnabled(srec) /\ CanWrite(srec))
  <2>1. db' = db /\ notify' = notify /\ sreply' = Replied(FALSE, FALSE, marked)
    BY <1>2 DEF SinglePut
  <2>2. Grows(db, db')
    BY <2>1, GrowsSelf DEF Base
  <2>3. GOther /\ Keeps("single")
    BY <1>1, <2>1, <2>2, FreeStep
  <2>4. SingleQueue'
    BY <1>1, <2>3, SingleQueueKept DEF SInv
  <2>5. ~sreply'.ok
    BY <2>1 DEF Replied
  <2> QED BY <1>1, <2>1, <2>3, <2>4, <2>5 DEF SInv, SSubOK, NotifyOK, Waiting, SingleMarks, SCovers, SingleParts, WaitReply
<1>3. CASE PutEnabled(srec) /\ CanWrite(srec) /\ block /\ force # "false"
  <2>1. CASE srec \in db.pact
    <3>1. db' = db /\ notify' = [state |-> "waiting", marked |-> marked] /\ sreply' = sreply
      BY <1>3, <2>1 DEF SinglePut
    <3>2. Grows(db, db')
      BY <3>1, GrowsSelf DEF Base
    <3>3. GOther /\ Keeps("single")
      BY <1>1, <3>1, <3>2, FreeStep
    <3>4. SingleQueue'
      BY <1>1, <3>3, SingleQueueKept DEF SInv
    <3>5. srec \in Async
      BY <2>1 DEF Base, DbOK
    <3>6. NotifyOK' /\ Waiting'
      BY <1>1, <3>1, <3>5 DEF NotifyOK, Waiting
    <3> QED BY <1>1, <3>1, <3>3, <3>4, <3>6 DEF SInv, SSubOK, SingleMarks, SCovers, SingleParts, WaitReply
  <2>2. CASE srec \notin db.pact
    <3>1. NotifyRuns(marked)
      BY <1>3, <2>2 DEF SinglePut
    <3> QED BY <1>1, <3>1, NotifyRunsIs
  <2> QED BY <2>1, <2>2
<1>4. CASE PutEnabled(srec) /\ CanWrite(srec) /\ ~(block /\ force # "false")
  <2> DEFINE w == Written(marked)
             c == DbPut(db, srec, w)
             e == PostProcess(c, srec, force)
  <2>1. db' = e /\ notify' = notify /\ sreply' = Replied(TRUE, FALSE, marked)
    BY <1>4 DEF SinglePut
  <2>2. w \in Int /\ srec \in Records
    BY SingleValueAssumption DEF Written, SInv
  <2> HIDE DEF w
  <2>3. Grows(db, c) /\ c.val = [db.val EXCEPT ![srec] = w]
    BY <2>2, DbPutIs DEF Base
  <2> HIDE DEF c
  <2>4. DbOK(c)
    BY <2>3 DEF Grows
  <2>5. Grows(c, e) /\ e.val = c.val
    BY <2>2, <2>4, PostProcessIs
  <2> HIDE DEF e
  <2>6. Grows(db, e)
    BY <2>3, <2>5, GrowsOn DEF Base
  <2>7. \A r \in Records \ {srec} : e.val[r] = db.val[r]
    BY <2>3, <2>5 DEF Base, DbOK
  <2>8. GOther /\ Keeps("single")
    BY <1>1, <2>1, <2>6, <2>7, FreeStep
  <2>9. SingleQueue'
    BY <1>1, <2>8, SingleQueueKept DEF SInv
  <2>10. ~sreply'.waited
    BY <2>1 DEF Replied
  <2>11. NotifyOK' /\ Waiting'
    BY <1>1, <2>1 DEF NotifyOK, Waiting, NoNotify
  <2> QED BY <1>1, <2>1, <2>8, <2>9, <2>10, <2>11 DEF SInv, SSubOK, SingleMarks, SCovers, SingleParts, WaitReply
<1> QED BY <1>2, <1>3, <1>4

\* A put which found its record active writes and processes it afterwards.
LEMMA NotifyRestartIs ==
    ASSUME Base, SInv, NotifyRestart, UNCHANGED groupVars, Observe, Unseen
    PROVE  SInv' /\ GOther
<1> DEFINE e == RunNotify(db, notify.marked)
<1>1. /\ notify.state = "waiting" /\ SingleFree /\ db' = e /\ notify' = [notify EXCEPT !.state = "active"]
      /\ UNCHANGED <<ssub, sfirst, sreply, held, srec>>
  BY DEF NotifyRestart
<1>2. notify # NoNotify /\ notify.marked \in BOOLEAN /\ srec \in Async
      /\ notify'.state = "active" /\ notify'.marked = notify.marked /\ NotifyOK'
  BY <1>1 DEF SInv, NotifyOK, Waiting, NoNotify
<1>3. /\ Grows(db, e) /\ db.pact \subseteq e.pact
      /\ \A r \in Records \ {srec} : e.val[r] = db.val[r]
      /\ notify.marked => e.val[srec] = SingleValue
      /\ srec \in e.pact
  BY <1>2, RunNotifyIs DEF Base, SInv
<1> HIDE DEF e
<1>4. GOther /\ Keeps("single")
  BY <1>1, <1>3, FreeStep
<1>5. SingleQueue'
  BY <1>1, <1>4, SingleQueueKept DEF SInv
<1>6. Waiting'
  BY <1>1, <1>2, <1>3 DEF Waiting
<1> QED BY <1>1, <1>2, <1>4, <1>5, <1>6 DEF SInv, SSubOK, SingleMarks, SCovers, SingleParts, WaitReply

\* A record which completes has posted the value it has, which the reply tells.
LEMMA AsyncCompleteIs ==
    ASSUME Base, SInv, NEW r \in Async, AsyncComplete(r), UNCHANGED groupVars, Observe, Unseen
    PROVE  SInv' /\ GOther
<1> DEFINE c == Complete(db, r)
           d == [c EXCEPT !.pact = @ \ {r}]
           a == [d EXCEPT !.rpro = @ \ {r}]
<1>1. r \in db.pact /\ r \in Records /\ UNCHANGED <<ssub, sfirst, held, srec>>
  BY DEF AsyncComplete, Base, DbOK
<1>2. Grows(db, c) /\ c.val = db.val /\ c.posted = [db.posted EXCEPT ![r] = db.val[r]] /\ c.pact = db.pact
  BY <1>1, CompleteIs DEF Base
<1>3. db' = IF r \in d.rpro THEN DbProcess(a, r) ELSE d
  BY DEF AsyncComplete
<1>4. d = [c EXCEPT !.pact = @ \ {r}] /\ a = [d EXCEPT !.rpro = @ \ {r}]
  OBVIOUS
<1>5. IF r = srec /\ notify.state = "active"
      THEN notify' = NoNotify /\ sreply' = Replied(TRUE, TRUE, notify.marked)
      ELSE UNCHANGED <<notify, sreply>>
  BY DEF AsyncComplete
<1> HIDE DEF a, d, c
<1>6. DbOK(c)
  BY <1>2 DEF Grows
<1>7. /\ d = [val |-> d.val, prop |-> d.prop, posted |-> d.posted, pact |-> d.pact, rpro |-> d.rpro, subs |-> d.subs, evq |-> d.evq]
      /\ d.val = c.val /\ d.posted = c.posted /\ d.pact = c.pact \ {r} /\ d.rpro = c.rpro
      /\ d.subs = c.subs /\ d.evq = c.evq
  BY <1>4, <1>6 DEF DbOK
<1>8. DbOK(d)
  BY <1>6, <1>7 DEF DbOK
<1>9. Grows(db, d)
  <2>1. Grows(c, d)
    BY <1>6, <1>7, <1>8, GrowsSelf
  <2> QED BY <1>2, <2>1, GrowsOn DEF Base
<1>10. /\ a = [val |-> a.val, prop |-> a.prop, posted |-> a.posted, pact |-> a.pact, rpro |-> a.rpro, subs |-> a.subs, evq |-> a.evq]
       /\ a.val = d.val /\ a.posted = d.posted /\ a.pact = d.pact /\ a.rpro = d.rpro \ {r}
       /\ a.subs = d.subs /\ a.evq = d.evq
  BY <1>4, <1>8 DEF DbOK
<1>11. DbOK(a)
  BY <1>8, <1>10 DEF DbOK
<1>12. Grows(db, a)
  <2>1. Grows(d, a)
    BY <1>8, <1>10, <1>11, GrowsSelf
  <2> QED BY <1>9, <2>1, GrowsOn DEF Base
<1>13. Grows(db, db') /\ db'.val = db.val /\ db'.posted[r] = db.val[r] /\ db.pact \ {r} \subseteq db'.pact
  <2>1. c.posted[r] = db.val[r]
    BY <1>1, <1>2 DEF Base, DbOK
  <2>2. CASE r \in d.rpro
    <3> DEFINE e == DbProcess(a, r)
    <3>1. Grows(a, e) /\ e.val = a.val /\ a.pact \subseteq e.pact /\ e.posted = a.posted
      BY <1>1, <1>11, DbProcessIs
    <3> HIDE DEF e
    <3>2. Grows(db, e)
      BY <1>12, <3>1, GrowsOn DEF Base
    <3>3. db' = e
      BY <1>3, <2>2 DEF e
    <3> QED BY <1>2, <1>7, <1>10, <2>1, <3>1, <3>2, <3>3
  <2>3. CASE r \notin d.rpro
    <3>1. db' = d
      BY <1>3, <2>3
    <3> QED BY <1>2, <1>7, <1>9, <2>1, <3>1
  <2> QED BY <2>2, <2>3
<1>14. DbOK(db') /\ Keeps("group") /\ Keeps("single")
  BY <1>13, GrowsKeeps, SourcesAre DEF Base
<1>15. GOther
  BY <1>1, <1>13, <1>14 DEF GOther, Observe, Unseen
<1>16. SInv'
  <2>1. CASE r = srec /\ notify.state = "active"
    <3>1. notify' = NoNotify /\ sreply' = Replied(TRUE, TRUE, notify.marked)
      BY <1>5, <2>1
    <3>2. sreply'.marked = notify.marked /\ sreply'.posted = db'.posted[srec]
      BY <1>1, <3>1 DEF Replied
    <3>3. notify.marked => db.val[srec] \in {SingleValue, PutValue}
      BY <2>1 DEF SInv, Waiting
    <3>4. WaitReply' /\ NotifyOK' /\ Waiting'
      BY <1>13, <2>1, <3>1, <3>2, <3>3 DEF WaitReply, NotifyOK, Waiting, NoNotify
    <3>5. SingleQueue'
      BY <1>1, <1>14, SingleQueueKept DEF SInv
    <3> QED BY <1>1, <3>4, <3>5 DEF SInv, SSubOK, SingleMarks, SCovers, SingleParts
  <2>2. CASE ~(r = srec /\ notify.state = "active")
    <3>1. SOther
      BY <1>1, <1>13, <1>14, <2>2 DEF SOther
    <3> QED BY <1>5, <2>2, <3>1, SOtherKeeps
  <2> QED BY <2>1, <2>2
<1> QED BY <1>15, <1>16

\* A get of the single source changes nothing.
LEMMA SingleGetIs ==
    ASSUME Base, SInv, SingleGet, UNCHANGED groupVars, Observe, Unseen
    PROVE  SInv' /\ GOther
<1>1. db' = db /\ sreply'.k = "get" /\ SingleFree /\ UNCHANGED <<ssub, sfirst, notify, held, srec>>
  BY DEF SingleGet
<1>2. Grows(db, db')
  BY <1>1, GrowsSelf DEF Base
<1>3. GOther /\ Keeps("single")
  BY <1>1, <1>2, FreeStep
<1>4. SingleQueue'
  BY <1>1, <1>3, SingleQueueKept DEF SInv
<1> QED BY <1>1, <1>3, <1>4 DEF SInv, SSubOK, NotifyOK, Waiting, SingleMarks, SCovers, SingleParts, WaitReply

\* The values stay as they are.
LEMMA SameValuesOther ==
    ASSUME Base, SInv, DbOK(db'), SameValues(db, db'), Keeps("group"), UNCHANGED <<groupVars, held>>, Observe, Unseen
    PROVE  GOther
BY DEF SameValues, GOther, Observe, Unseen

\* A new subscription of the single source has had nothing.
LEMMA SingleSubscribeIs ==
    ASSUME Base, SInv, NEW dbe, SingleSubscribe(dbe), UNCHANGED groupVars, Observe, Unseen
    PROVE  SInv' /\ GOther
<1> DEFINE select == ValueSelect(dbe)
           new == [id \in SingleIds |-> [rec |-> srec, select |-> IF id.kind = "value" THEN select ELSE {"property"}]]
<1>1. /\ ssub = NoSingleSub /\ ssub' = [state |-> "stopped", had |-> {}, cur |-> NoNode, marks |-> {}, select |-> select]
      /\ db' = Subscribe(db, new) /\ sfirst' = {}
      /\ UNCHANGED <<notify, sreply, held, srec>>
  BY DEF SingleSubscribe
<1>2. select \subseteq {"value", "alarm", "archive"} /\ select # {}
  BY DEF ValueSelect
<1> HIDE DEF select
<1>3. /\ SingleIds \subseteq Ids /\ IsFiniteSet(SingleIds) /\ \A id \in SingleIds : id.src = "single"
      /\ SingleId("value") \in SingleIds /\ SingleId("property") \in SingleIds
      /\ SingleId("value").kind = "value" /\ SingleId("property").kind = "property"
  <2>1. IsFiniteSet({SingleId("value")}) /\ IsFiniteSet({SingleId("property")})
    BY FS_Singleton
  <2>2. IsFiniteSet({SingleId("value")} \cup {SingleId("property")})
    BY <2>1, FS_Union
  <2>3. SingleIds = {SingleId("value")} \cup {SingleId("property")}
    BY DEF SingleIds
  <2> QED BY <2>2, <2>3 DEF SingleId, SingleIds, Ids, Sources, Kinds
<1>4. DOMAIN new = SingleIds /\ \A id \in SingleIds :
         /\ new[id].rec = srec /\ new[id].select = IF id.kind = "value" THEN select ELSE {"property"}
  OBVIOUS
<1> HIDE DEF new
<1>5. \A id \in SingleIds : new[id].rec \in Records /\ new[id].select \in SUBSET Masks
  BY <1>2, <1>4 DEF SInv, Masks
<1>6. Queue(db, "single", {}, {})
  BY <1>1 DEF SInv, SingleQueue
<1>7. /\ DbOK(db') /\ SameValues(db, db') /\ \A id \in DOMAIN new : Select(db', id) = new[id].select
      /\ Queue(db', "single", DOMAIN new, {}) /\ \A t \in Sources \ {"single"} : SameSource(db, db', t)
  BY <1>1, <1>3, <1>4, <1>5, <1>6, SourcesAre, SubscribeIs DEF Base
<1>8. Keeps("group")
  BY <1>7, SameKeeps, SourcesAre
<1>9. GOther
  BY <1>1, <1>7, <1>8, SameValuesOther
<1>10. ssub' # NoSingleSub /\ ssub'.had = {} /\ ssub'.select = select /\ ssub'.marks = {}
  BY <1>1 DEF NoSingleSub
<1>11. SingleQueue'
  BY <1>2, <1>3, <1>4, <1>7, <1>10 DEF SingleQueue, Select
<1>12. SingleMarks'
  BY <1>3, <1>10 DEF SingleMarks, BothHad
<1>13. SSubOK' /\ NotifyOK'
  BY <1>1 DEF SSubOK, NotifyOK, SInv
<1>14. Waiting' /\ WaitReply'
  BY <1>1, <1>7 DEF Waiting, WaitReply, SInv, SameValues
<1> QED BY <1>1, <1>9, <1>11, <1>12, <1>13, <1>14 DEF SInv

\* Starting and stopping the single source's subscription
LEMMA SingleStartIs ==
    ASSUME Base, SInv, NEW start \in BOOLEAN, SingleStart(start), UNCHANGED groupVars, Observe, Unseen
    PROVE  SInv' /\ GOther
<1>1. /\ ssub' = [ssub EXCEPT !.state = IF start THEN "started" ELSE "stopped"]
      /\ ssub.state = IF start THEN "stopped" ELSE "started"
      /\ UNCHANGED <<sfirst, notify, sreply, held, srec>>
  BY DEF SingleStart
<1>2. ssub # NoSingleSub
  BY <1>1 DEF NoSingleSub
<1>3. DbOK(db') /\ SameValues(db, db') /\ Keeps("group") /\ Keeps("single")
  <2>1. CASE start
    <3>1. db' = Enable(Enable(db, SingleId("value")), SingleId("property"))
      BY <2>1 DEF SingleStart
    <3> QED BY <3>1, EnableKeeps, SourcesAre DEF Base
  <2>2. CASE ~start
    <3>1. db' = Disable(db, SingleIds)
      BY <2>2 DEF SingleStart
    <3> QED BY <3>1, DisableKeeps, SourcesAre DEF Base
  <2> QED BY <2>1, <2>2
<1>4. GOther
  BY <1>1, <1>3, SameValuesOther
<1>5. SSubOK' /\ ssub'.had = ssub.had /\ ssub'.marks = ssub.marks /\ ssub'.select = ssub.select /\ ssub' # NoSingleSub
  BY <1>1, <1>2 DEF SInv, SSubOK, NoSingleSub
<1>6. SingleQueue'
  <2>1. Queue(db, "single", SingleIds, ssub.had) /\ Queue(db', "single", SingleIds, ssub.had)
    BY <1>2, <1>3 DEF SingleQueue, Keeps, SInv
  <2>2. \A id \in SingleIds : id \in DOMAIN db.subs /\ id.src = "single"
    BY <2>1 DEF Queue
  <2>3. \A id \in SingleIds : db'.subs[id].select = db.subs[id].select
    BY <1>3, <2>2 DEF Keeps, Select
  <2>4. SingleId("value") \in SingleIds /\ SingleId("property") \in SingleIds
    BY DEF SingleIds
  <2> QED BY <1>2, <1>5, <2>1, <2>3, <2>4 DEF SingleQueue, SInv
<1>7. SingleMarks'
  BY <1>1, <1>2, <1>5 DEF SInv, SingleMarks, SCovers, SingleParts
<1>8. NotifyOK' /\ Waiting' /\ WaitReply'
  BY <1>1, <1>3 DEF SInv, NotifyOK, Waiting, WaitReply, SameValues
<1> QED BY <1>1, <1>4, <1>5, <1>6, <1>7, <1>8 DEF SInv

\* Closing the single source's subscription
LEMMA SingleCloseIs ==
    ASSUME Base, SInv, SingleClose, UNCHANGED groupVars, Observe, Unseen
    PROVE  SInv' /\ GOther
<1>1. ssub' = NoSingleSub /\ db' = Cancel(db, "single") /\ UNCHANGED <<notify, sreply, held, srec>>
  BY DEF SingleClose
<1>2. DbOK(db') /\ SameValues(db, db') /\ Queue(db', "single", {}, {}) /\ SameSource(db, db', "group")
  BY <1>1, CancelIs, SourcesAre DEF Base
<1>3. Keeps("group")
  BY <1>2, SameKeeps
<1>4. GOther
  BY <1>1, <1>2, <1>3, SameValuesOther
<1>5. SSubOK' /\ SingleQueue' /\ SingleMarks' /\ NotifyOK'
  BY <1>1, <1>2 DEF SInv, SSubOK, SingleQueue, SingleMarks, NotifyOK
<1>6. Waiting' /\ WaitReply'
  BY <1>1, <1>2 DEF SInv, Waiting, WaitReply, SameValues
<1> QED BY <1>1, <1>4, <1>5, <1>6 DEF SInv

\* What the kinds of event of a single record bring
LEMMA ScalarParts ==
    /\ \A mask \in SUBSET {"value", "alarm", "archive"} :
          PartsOf("scalar", ChangeFor(mask)) = (IF mask # {} THEN {"value"} ELSE {}) \cup (mask \cap {"alarm"})
    /\ PartsOf("scalar", {"property"}) = {"prop"}
<1>1. ASSUME NEW mask \in SUBSET {"value", "alarm", "archive"}
      PROVE  PartsOf("scalar", ChangeFor(mask)) = (IF mask # {} THEN {"value"} ELSE {}) \cup (mask \cap {"alarm"})
  <2> DEFINE change == ChangeFor(mask)
  <2>1. ("value" \in change <=> mask # {}) /\ ("alarm" \in change <=> "alarm" \in mask) /\ "property" \notin change
    BY DEF ChangeFor, Everything
  <2> HIDE DEF change
  <2>2. PartsOf("scalar", change) = (IF "alarm" \in change THEN {"alarm"} ELSE {}) \cup (IF "value" \in change THEN {"value"} ELSE {})
    BY <2>1 DEF PartsOf
  <2>3. mask \cap {"alarm"} = IF "alarm" \in change THEN {"alarm"} ELSE {}
    BY <2>1
  <2> QED BY <2>1, <2>2, <2>3 DEF change
<1>2. PartsOf("scalar", {"property"}) = {"prop"}
  BY DEF PartsOf
<1> QED BY <1>1, <1>2

\* The first update of the single source's subscription comes when both its
\* subscriptions to events have had their first, which is whole.
LEMMA SingleEventIs ==
    ASSUME Base, SInv, Snap(db, held) \in snaps, SingleEvent, Unseen, UNCHANGED <<groupVars, snaps>>
    PROVE  SInv' /\ GOther
<1> DEFINE e == Head(db.evq["single"])
           change == IF e.id.kind = "value" THEN ChangeFor(e.mask) ELSE {"property"}
           had == ssub.had \cup {e.id}
           parts == PartsOf("scalar", change)
           marks == ssub.marks \cup parts
           cur == SingleRefresh(e, change)
<1>1. /\ db.evq["single"] # <<>> /\ db' = Popped(db, "single") /\ UNCHANGED <<notify, sreply, held, srec>>
      /\ IF BothHad(had)
         THEN sfirst' = (IF BothHad(ssub.had) THEN sfirst ELSE marks) /\ ssub' = [ssub EXCEPT !.had = had, !.cur = cur, !.marks = {}]
         ELSE sfirst' = sfirst /\ ssub' = [ssub EXCEPT !.had = had, !.cur = cur, !.marks = marks]
  BY DEF SingleEvent, Popped
<1>2. ssub # NoSingleSub
  <2>1. SUFFICES ASSUME ssub = NoSingleSub PROVE FALSE
    OBVIOUS
  <2>2. Queue(db, "single", {}, {})
    BY <2>1 DEF SInv, SingleQueue
  <2>3. DbOK(db) /\ "single" \in Sources /\ db.evq["single"] # <<>>
    BY <1>1, SourcesAre DEF Base
  <2> HIDE DEF e
  <2>4. Head(db.evq["single"]).id \in {}
    BY ONLY <2>2, <2>3, QueuePop
  <2> QED BY <2>4
<1>3. /\ Queue(db, "single", SingleIds, ssub.had)
      /\ db.subs[SingleId("value")].select = ssub.select /\ db.subs[SingleId("property")].select = {"property"}
      /\ ssub.select \subseteq {"value", "alarm", "archive"} /\ ssub.select # {}
  BY <1>2 DEF SInv, SingleQueue
<1>4. /\ DbOK(db') /\ SameValues(db, db') /\ db'.subs = db.subs /\ db'.evq["group"] = db.evq["group"]
  BY <1>1, PoppedIs, SourcesAre DEF Base
<1>5. /\ Queue(db', "single", SingleIds, had)
      /\ e.id \in SingleIds /\ e.mask \subseteq db.subs[e.id].select
      /\ e.id \notin ssub.had => e.mask = db.subs[e.id].select
  BY <1>1, <1>3, QueuePop, SourcesAre DEF Base, Select
<1> HIDE DEF e
<1>6. SameSource(db, db', "group")
  BY <1>4 DEF SameSource
<1>7. Keeps("group")
  BY <1>6, SameKeeps
<1>8. GOther
  <2>1. Snap(db', held) \in snaps
    BY <1>4, SameSnap DEF SameValues
  <2> QED BY <1>1, <1>4, <1>7, <2>1 DEF GOther, SameValues, Unseen
<1>9. /\ SingleId("value") \in SingleIds /\ SingleId("property") \in SingleIds
      /\ \A id \in SingleIds : id = SingleId("value") \/ id = SingleId("property")
      /\ SingleId("value").kind = "value" /\ SingleId("property").kind = "property"
  BY DEF SingleIds, SingleId
<1>10. parts \subseteq SingleParts(ssub.select) /\ (e.id \notin ssub.had => SCovers(e.id) \subseteq parts)
  <2>1. CASE e.id = SingleId("value")
    <3>1. e.mask \in SUBSET {"value", "alarm", "archive"} /\ e.mask \subseteq ssub.select
      BY <1>3, <1>5, <2>1
    <3>2. parts = (IF e.mask # {} THEN {"value"} ELSE {}) \cup (e.mask \cap {"alarm"})
      BY <1>9, <2>1, <3>1, ScalarParts
    <3> HIDE DEF parts
    <3> QED BY <1>3, <1>5, <1>9, <2>1, <3>1, <3>2 DEF SingleParts, SCovers
  <2>2. CASE e.id = SingleId("property")
    <3>1. parts = {"prop"}
      BY <1>9, <2>2, ScalarParts
    <3> HIDE DEF parts
    <3> QED BY <1>9, <2>2, <3>1 DEF SingleParts, SCovers
  <2> QED BY <1>5, <1>9, <2>1, <2>2
<1> HIDE DEF parts
<1>11. SSubOK' /\ ssub' # NoSingleSub /\ ssub'.had = had /\ ssub'.select = ssub.select
       /\ ssub'.marks = (IF BothHad(had) THEN {} ELSE marks)
  <2> HIDE DEF cur, had, marks
  <2>1. /\ ssub.state \in {"stopped", "started"}
        /\ ssub = [state |-> ssub.state, had |-> ssub.had, cur |-> ssub.cur, marks |-> ssub.marks, select |-> ssub.select]
    BY <1>2 DEF SInv, SSubOK
  <2>2. ssub' = [state |-> ssub.state, had |-> had, cur |-> cur, marks |-> IF BothHad(had) THEN {} ELSE marks, select |-> ssub.select]
    BY <1>1, <2>1
  <2>3. ssub'.state = ssub.state
    BY <2>2
  <2> QED BY <2>1, <2>2, <2>3 DEF SSubOK, NoSingleSub
<1>12. SingleQueue'
  BY <1>3, <1>4, <1>5, <1>11 DEF SingleQueue
<1>13. SingleMarks'
  <2>1. ~BothHad(ssub.had) => /\ marks \subseteq SingleParts(ssub.select)
                              /\ \A id \in had : SCovers(id) \subseteq marks
    BY <1>2, <1>10 DEF SInv, SingleMarks
  <2>2. \A id : SCovers(id)' = SCovers(id)
    BY <1>11 DEF SCovers
  <2>3. CASE BothHad(ssub.had)
    <3>1. BothHad(had) /\ sfirst' = sfirst
      BY <1>1, <2>3 DEF BothHad
    <3>2. sfirst = SingleParts(ssub.select)
      BY <1>2, <2>3 DEF SInv, SingleMarks
    <3> QED BY <1>11, <3>1, <3>2 DEF SingleMarks, SingleParts
  <2>4. CASE ~BothHad(ssub.had) /\ BothHad(had)
    <3>1. sfirst' = marks
      BY <1>1, <2>4
    <3>2. SCovers(SingleId("value")) \cup SCovers(SingleId("property")) \subseteq marks
      BY <1>9, <2>1, <2>4 DEF BothHad
    <3>3. sfirst' = SingleParts(ssub.select)
      BY <1>9, <2>1, <2>4, <3>1, <3>2 DEF SCovers, SingleParts
    <3> HIDE DEF had, marks
    <3> QED BY <1>11, <2>4, <3>3 DEF SingleMarks, SingleParts
  <2>5. CASE ~BothHad(had)
    <3>1. ~BothHad(ssub.had)
      BY <2>5 DEF BothHad
    <3> HIDE DEF had, marks
    <3> QED BY <1>11, <2>1, <2>2, <2>5, <3>1 DEF SingleMarks, SingleParts
  <2> QED BY <2>3, <2>4, <2>5
<1>14. NotifyOK' /\ Waiting' /\ WaitReply' /\ (srec \in Records)'
  BY <1>1, <1>4 DEF SInv, NotifyOK, Waiting, WaitReply, SameValues
<1> QED BY <1>8, <1>11, <1>12, <1>13, <1>14 DEF SInv

-----------------------------------------------------------------------------
(* The group source.                                                       *)

LastPut ==
    last.k = "put" =>
        /\ last.kept
        /\ \A n \in 1..(Len(last.written) - 1) : last.written[n] < last.written[n + 1]
        /\ ToSet(last.written) = IF \A i \in Indices : HasRec(Group.fields[i]) => PutEnabled(Group.fields[i].rec)
                                 THEN {i \in WantOf(last.marked) : \A j \in WantOf(last.marked) : j <= i => CanWrite(Group.fields[j].rec)}
                                 ELSE {}
        /\ last.ok => /\ \A i \in Indices : HasRec(Group.fields[i]) => PutEnabled(Group.fields[i].rec)
                      /\ \A i \in WantOf(last.marked) : CanWrite(Group.fields[i].rec)
        /\ (\A i \in Indices : HasRec(Group.fields[i]) => PutEnabled(Group.fields[i].rec)) /\ ~last.ok => last.marked # {}

OpInv == OpOK /\ Locked /\ PutSoFar
SubInv == GSubOK /\ GevOK /\ GroupQueue /\ GroupMarks /\ GroupFirst
SeenInv == AtomicSeenWhole /\ LastPut
GInv == Chan /\ OpInv /\ OpSub /\ SubInv /\ SeenInv

\* The records of a group's fields are locked while an atomic operation goes on.
LEMMA HeldRecords ==
    ASSUME Base, Chan, op # Idle, held = OpLocks(TRUE), NEW i \in Indices, HasRec(Group.fields[i])
    PROVE  Group.fields[i].rec \in held
<1>1. GroupOK(Group)
  BY DEF Chan, Group
<1>2. FieldOK(Group, Group.fields[i]) /\ Group.lock \subseteq Records
  BY <1>1 DEF GroupOK, Indices
<1>3. Group.fields[i].rec \in Group.lock
  BY <1>2 DEF FieldOK, Mapped, HasRec
<1> QED BY <1>2, <1>3 DEF OpLocks, Together

\* An operation stays right while its records are left alone.
LEMMA OpKept ==
    ASSUME Base, Chan, OpInv, UNCHANGED <<groups, chan, op, held>>,
           \A r \in held : db'.val[r] = db.val[r], Snap(db', held) \in snaps'
    PROVE  OpInv'
<1>1. UNCHANGED <<Group, Indices>>
  BY DEF Group, Indices
<1>2. OpOK' /\ PutSoFar'
  BY <1>1 DEF OpInv, OpOK, PutSoFar, WantOf
<1>3. OpLocks(op.atomic)' = OpLocks(op.atomic)
  BY <1>1 DEF OpLocks
<1>4. ASSUME op.k = "get", op.atomic, NEW i \in DOMAIN op.acc, Mapped(Group.fields[i]), Group.fields[i].type # "meta"
      PROVE  op.acc[i].value = db'.val[Group.fields[i].rec]
  <2>1. op # Idle /\ held = OpLocks(TRUE)
    BY <1>4 DEF OpInv, Locked, Idle, OpOK
  <2>2. i \in Indices /\ HasRec(Group.fields[i])
    BY <1>4 DEF OpInv, Locked, Mapped, HasRec
  <2>3. Group.fields[i].rec \in held
    BY <2>1, <2>2, HeldRecords
  <2>4. op.acc[i].value = db.val[Group.fields[i].rec]
    BY <1>4 DEF OpInv, Locked
  <2> QED BY <2>3, <2>4
<1>5. ASSUME op.k = "put", op.atomic PROVE Kept'
  <2>1. op # Idle /\ held = OpLocks(TRUE)
    BY <1>5 DEF OpInv, Locked, Idle, OpOK
  <2>2. \A i \in ToSet(op.written) : i \in Indices /\ HasRec(Group.fields[i])
    BY <1>5 DEF OpInv, PutSoFar, WantOf
  <2>3. \A i \in ToSet(op.written) : Group.fields[i].rec \in held
    BY <2>1, <2>2, HeldRecords
  <2>4. Kept
    BY <1>5 DEF OpInv, Locked
  <2> QED BY <1>1, <2>3, <2>4 DEF Kept
<1> QED BY <1>1, <1>2, <1>3, <1>4, <1>5 DEF OpInv, Locked

\* The subscription stays right while its queue does.
LEMMA SubKept ==
    ASSUME SubInv, UNCHANGED <<groups, chan, gsub, gev, firstPost, raced>>, Keeps("group")
    PROVE  SubInv'
<1>1. UNCHANGED <<Group, Indices, AllIds, FieldIds, Consts>>
  BY DEF Group, Indices, AllIds, FieldIds, NothingToWaitFor, Consts
<1>2. \A id : UNCHANGED <<SubscribeField(id), Covers(id)>>
  BY <1>1 DEF SubscribeField, Covers
<1>3. GSubOK' /\ GevOK'
  BY DEF SubInv, GSubOK, GevOK
<1>4. GroupQueue'
  <2>1. CASE gsub = NoSub
    BY <2>1 DEF SubInv, GroupQueue, Keeps
  <2>2. CASE gsub # NoSub
    <3>1. /\ Queue(db, "group", FieldIds, gsub.had) /\ \A id \in FieldIds : db.subs[id].select = SubscribeField(id).select
          /\ gev # NoEvent => gev.e.id \in FieldIds \cap gsub.had
      BY <2>2 DEF SubInv, GroupQueue
    <3>2. Queue(db', "group", FieldIds, gsub.had)
      BY <3>1 DEF Keeps
    <3>3. \A id \in FieldIds : db'.subs[id].select = db.subs[id].select
      BY <3>1 DEF Keeps, Select, Queue
    <3> QED BY <1>1, <1>2, <2>2, <3>1, <3>2, <3>3 DEF GroupQueue
  <2> QED BY <2>1, <2>2
<1>5. GroupMarks'
  BY <1>1, <1>2 DEF SubInv, GroupMarks, Under
<1>6. GroupFirst'
  BY <1>1, <1>2 DEF SubInv, GroupFirst
<1> QED BY <1>3, <1>4, <1>5, <1>6 DEF SubInv

\* What was seen together was, whatever comes.
LEMMA SeenKept ==
    ASSUME SeenInv, UNCHANGED <<groups, chan, seen, last>>, snaps \subseteq snaps'
    PROVE  SeenInv'
<1>1. AtomicSeenWhole'
  BY DEF SeenInv, AtomicSeenWhole
<1>2. LastPut'
  BY DEF SeenInv, LastPut, Indices, Group, WantOf
<1> QED BY <1>1, <1>2 DEF SeenInv

\* An operation, a subscription or a reply to a put needs a channel.
LEMMA ChanKept ==
    ASSUME Chan, UNCHANGED <<groups, chan, phase>>,
           op' # Idle => op # Idle \/ chan # NoName, gsub' # NoSub => gsub # NoSub \/ chan # NoName,
           last'.k = "put" => last.k = "put" \/ chan # NoName
    PROVE  Chan'
BY DEF Chan, GroupOK, FieldOK, Mapped

\* A step of others leaves the group source's invariant.
LEMMA GOtherKeeps ==
    ASSUME Base, GInv, GOther
    PROVE  Base' /\ GInv'
<1>1. OpInv'
  BY OpKept DEF GInv, GOther, groupVars
<1>2. SubInv'
  BY SubKept DEF GInv, GOther, groupVars
<1>3. SeenInv'
  BY SeenKept DEF GInv, GOther, groupVars
<1>4. Chan' /\ OpSub'
  BY ChanKept DEF GInv, GOther, groupVars, OpSub
<1> QED BY <1>1, <1>2, <1>3, <1>4 DEF GInv, GOther, Base

\* The inductive invariant: the types of the database, what is left of the budget, the
\* group source and the single source
IInv == Base /\ Lefts /\ GInv /\ SInv

\* A database which stays as it is keeps its queues right.
LEMMA SameDb ==
    ASSUME db' = db, NEW s
    PROVE  Keeps(s)
BY DEF Keeps

\* What a step of the group source which leaves the database as it is leaves to
\* the single source
LEMMA SingleStays ==
    ASSUME SInv, db' = db, UNCHANGED singleVars
    PROVE  SInv'
<1>1. SOther
  BY SameDb DEF SOther, singleVars
<1> QED BY <1>1, SOtherKeeps DEF singleVars

\* Nothing goes on for the client.
Rests == op = Idle /\ gsub = NoSub /\ last.k # "put"
\* The group source's invariant says little while nothing goes on.
LEMMA RestsKeep ==
    ASSUME Base, GInv, Rests, Rests', Chan', UNCHANGED <<gev, db, held, seen, snaps>>
    PROVE  Base' /\ GInv'
<1>1. op'.k = "idle" /\ held = {} /\ Snap(db, held) \in snaps
  BY DEF GInv, OpInv, Locked, Rests, Idle
<1>2. OpInv' /\ OpSub'
  BY <1>1 DEF Rests, OpInv, OpOK, Locked, PutSoFar, OpSub
<1>3. SubInv'
  BY DEF GInv, SubInv, Rests, GSubOK, GevOK, GroupQueue, GroupMarks, GroupFirst
<1>4. SeenInv'
  BY DEF GInv, SeenInv, AtomicSeenWhole, LastPut, Rests
<1> QED BY <1>2, <1>3, <1>4 DEF Base, GInv

\* Without a channel nothing goes on.
LEMMA VoidRests ==
    ASSUME GInv, chan = NoName
    PROVE  Rests
BY DEF GInv, Chan, Rests

\* Groups are made while nothing goes on, and each which is served has its fields in
\* order.
LEMMA ConfigurationIs ==
    ASSUME IInv, Configuration
    PROVE  IInv'
<1> USE DEF IInv
<1>1. UNCHANGED <<singleVars, snaps, seen>>
  BY DEF Configuration
<1>2. ASSUME NEW f, DbLoadGroup(f) \/ DbUnloadGroup(f) PROVE (Base /\ GInv /\ SInv)'
  <2>1. UNCHANGED <<phase, groups, chan, op, last, gsub, gev, firstPost, raced, db, held>>
    BY <1>2 DEF DbLoadGroup, DbUnloadGroup
  <2>2. OpInv' /\ SubInv' /\ SeenInv' /\ Chan' /\ OpSub'
    BY <1>1, <2>1, SameDb, OpKept, SubKept, SeenKept, ChanKept DEF GInv, OpInv, Locked, OpSub
  <2> QED BY <1>1, <2>1, <2>2, SingleStays DEF GInv, Base
<1>3. ASSUME InitHook PROVE (Base /\ GInv /\ SInv)'
  <2>1. /\ phase = "void" /\ phase' \in {"ended", "run"} /\ groups' = ProcessGroups(Texts)
        /\ UNCHANGED <<chan, op, last, gsub, gev, firstPost, raced, db, held>>
    BY <1>3 DEF InitHook
  <2>2. chan = NoName
    BY <2>1 DEF GInv, Chan
  <2>3. Rests /\ Rests'
    BY <2>1, <2>2, VoidRests DEF Rests
  <2>4. \A g \in DOMAIN groups' : groups'[g].ok => GroupOK(groups'[g])
    BY <2>1, ProcessGroupsIs
  <2>5. Chan'
    BY <2>1, <2>2, <2>3, <2>4 DEF Chan, Rests
  <2> QED BY <1>1, <2>1, <2>3, <2>5, RestsKeep, SingleStays
<1>4. ASSUME ResetGroups PROVE (Base /\ GInv /\ SInv)'
  <2>1. /\ op = Idle /\ gsub = NoSub /\ phase' = "void" /\ groups' = <<>> /\ chan' = NoName /\ last' = NoReply
        /\ UNCHANGED <<op, gsub, gev, firstPost, raced, db, held>>
    BY <1>4 DEF ResetGroups
  <2>2. OpInv' /\ OpSub'
    <3>1. op'.k = "idle"
      BY <2>1 DEF Idle
    <3> QED BY <1>1, <2>1, <3>1 DEF GInv, OpInv, OpOK, Locked, PutSoFar, OpSub, Idle
  <2>3. SubInv'
    BY <2>1 DEF GInv, SubInv, GSubOK, GevOK, GroupQueue, GroupMarks, GroupFirst
  <2>4. SeenInv'
    BY <1>1, <2>1 DEF GInv, SeenInv, AtomicSeenWhole, LastPut, NoReply
  <2>5. Chan'
    BY <2>1 DEF Chan, NoReply
  <2> QED BY <1>1, <2>1, <2>2, <2>3, <2>4, <2>5, SingleStays DEF Base, GInv
<1>5. ASSUME NEW g, OnCreate(g) PROVE (Base /\ GInv /\ SInv)'
  <2>1. /\ phase = "run" /\ chan = NoName /\ g \in DOMAIN groups /\ groups[g].ok /\ chan' = g
        /\ UNCHANGED <<phase, groups, op, last, gsub, gev, firstPost, raced, db, held>>
    BY <1>5 DEF OnCreate
  <2>2. Rests /\ Rests'
    BY <2>1, VoidRests DEF Rests
  <2>3. Chan'
    BY <2>1, <2>2 DEF GInv, Chan, Rests, GroupOK, FieldOK, Mapped
  <2> QED BY <1>1, <2>1, <2>2, <2>3, RestsKeep, SingleStays
<1>6. ASSUME NEW f, Spend("load") /\ (DbLoadGroup(f) \/ DbUnloadGroup(f)) PROVE IInv'
  BY <1>2, <1>6, SpendLeft
<1>7. ASSUME InitHook, UNCHANGED left PROVE IInv'
  BY <1>3, <1>7 DEF Lefts
<1>8. ASSUME ResetGroups, Spend("reset") PROVE IInv'
  BY <1>4, <1>8, SpendLeft
<1>9. ASSUME NEW g, OnCreate(g), UNCHANGED left PROVE IInv'
  BY <1>5, <1>9 DEF Lefts
<1> QED BY <1>6, <1>7, <1>8, <1>9 DEF Configuration

\* What a step of an operation leaves to the subscription
LEMMA OpStepKeeps ==
    ASSUME Base, GInv, OpInv', UNCHANGED <<phase, groups, chan, gsub, gev, firstPost, raced, seen>>, Keeps("group"),
           DbOK(db'), held' \subseteq Records, snaps \subseteq snaps', LastPut', chan # NoName, op'.k \in {"idle", "get", "put"}
    PROVE  Base' /\ Chan' /\ OpInv' /\ OpSub' /\ SubInv' /\ LastPut'
<1>1. SubInv'
  BY SubKept DEF GInv
<1>2. Chan'
  BY ChanKept DEF GInv
<1>3. OpSub'
  BY DEF OpSub
<1> QED BY <1>1, <1>2, <1>3 DEF Base

\* What an operation locks are records.
LEMMA OpLocksIn ==
    ASSUME NEW atomic
    PROVE  OpLocks(atomic) \subseteq Records
BY DEF OpLocks, Together

\* The last reply stays right with the group.
LEMMA LastSame ==
    ASSUME LastPut, UNCHANGED <<groups, chan, last>>
    PROVE  LastPut'
BY DEF LastPut, Indices, Group, WantOf

\* What was seen together was, when nothing else is.
LEMMA SeenSame ==
    ASSUME AtomicSeenWhole, UNCHANGED seen, snaps \subseteq snaps'
    PROVE  AtomicSeenWhole'
BY DEF AtomicSeenWhole

\* The group which is served has its fields in order.
LEMMA GroupShape ==
    ASSUME Chan, chan # NoName
    PROVE  /\ GroupOK(Group) /\ Len(Group.fields) \in Nat /\ Indices = 1..Len(Group.fields) /\ Group.lock \subseteq Records
           /\ \A i \in Indices : FieldOK(Group, Group.fields[i])
<1>1. GroupOK(Group)
  BY DEF Chan, Group
<1> QED BY <1>1 DEF GroupOK, Indices

\* A get starts with nothing read.
LEMMA OnGetIs ==
    ASSUME Base, GInv, NEW atomic \in BOOLEAN, OnGet(atomic), Observe, Unseen
    PROVE  Base' /\ GInv' /\ db' = db
<1>1. /\ chan # NoName /\ op' = [k |-> "get", atomic |-> atomic, i |-> 1, acc |-> <<>>] /\ held' = OpLocks(atomic)
      /\ UNCHANGED <<phase, groups, chan, last, gsub, gev, firstPost, raced, db>>
  BY DEF OnGet
<1>2. OpInv'
  <2>1. OpOK' /\ op'.k = "get" /\ op'.atomic = atomic /\ DOMAIN op'.acc = {}
    BY <1>1 DEF OpOK
  <2>2. OpLocks(atomic)' = OpLocks(atomic)
    BY <1>1 DEF OpLocks, Group
  <2>3. Snap(db', held') \in snaps'
    BY DEF Observe
  <2> QED BY <1>1, <2>1, <2>2, <2>3 DEF OpInv, Locked, PutSoFar
<1>3. LastPut' /\ AtomicSeenWhole'
  BY <1>1, LastSame, SeenSame DEF GInv, SeenInv, Observe, Unseen
<1>4. Base' /\ Chan' /\ OpInv' /\ OpSub' /\ SubInv' /\ LastPut'
  BY <1>1, <1>2, <1>3, OpStepKeeps, OpLocksIn, SameDb DEF Base, Observe, Unseen
<1> QED BY <1>1, <1>3, <1>4 DEF GInv, SeenInv

\* A put starts with nothing written, when no record of the group is put-disabled.
LEMMA OnPutIs ==
    ASSUME Base, GInv, NEW atomic \in BOOLEAN, NEW force, NEW marked, OnPut(atomic, force, marked), Observe, Unseen
    PROVE  Base' /\ GInv' /\ db' = db
<1> DEFINE enabled == \A i \in Indices : HasRec(Group.fields[i]) => PutEnabled(Group.fields[i].rec)
<1>1. chan # NoName /\ op = Idle /\ UNCHANGED <<phase, groups, chan, gsub, gev, firstPost, raced, db>>
  BY DEF OnPut
<1>2. UNCHANGED <<Group, Indices>> /\ \A m : WantOf(m)' = WantOf(m)
  BY <1>1 DEF Group, Indices, WantOf
<1>3. ToSet(<<>>) = {} /\ Len(<<>>) = 0 /\ <<>> \in Seq(Nat)
  BY DEF ToSet
<1>4. Snap(db', held') \in snaps' /\ AtomicSeenWhole'
  BY SeenSame DEF Observe, Unseen, GInv, SeenInv
<1>5. CASE enabled
  <2>1. /\ op' = [k |-> "put", atomic |-> atomic, force |-> force, marked |-> marked, i |-> 1,
                  written |-> <<>>, did |-> FALSE, permitted |-> TRUE]
        /\ held' = OpLocks(atomic) /\ last' = last
    BY <1>5 DEF OnPut
  <2>2. OpOK' /\ op'.k = "put" /\ op'.atomic = atomic /\ op'.i = 1 /\ op'.written = <<>> /\ op'.permitted = TRUE /\ op'.marked = marked
    BY <1>3, <2>1 DEF OpOK
  <2>3. OpLocks(atomic)' = OpLocks(atomic)
    BY <1>2 DEF OpLocks
  <2>4. {i \in WantOf(marked) : i < 1} = {}
    BY <1>1, GroupShape DEF GInv, WantOf
  <2>5. PutSoFar'
    BY <1>2, <1>3, <1>5, <2>2, <2>4 DEF PutSoFar
  <2>6. Locked'
    BY <1>3, <1>4, <2>1, <2>2, <2>3 DEF Locked, Kept
  <2>7. LastPut'
    BY <1>1, <2>1, LastSame DEF GInv, SeenInv
  <2>8. Base' /\ Chan' /\ OpInv' /\ OpSub' /\ SubInv' /\ LastPut'
    BY <1>1, <2>1, <2>2, <2>5, <2>6, <2>7, OpStepKeeps, OpLocksIn, SameDb DEF OpInv, Base, Observe, Unseen
  <2> QED BY <1>1, <1>4, <2>8 DEF GInv, SeenInv
<1>6. CASE ~enabled
  <2>1. last' = [k |-> "put", ok |-> FALSE, marked |-> marked, written |-> <<>>, kept |-> TRUE] /\ op' = op /\ held' = held
    BY <1>6 DEF OnPut
  <2>2. last'.ok = FALSE /\ last'.written = <<>> /\ last'.kept = TRUE
    BY <2>1
  <2>3. ~enabled'
    BY <1>2, <1>6
  <2> HIDE DEF enabled
  <2>4. LastPut'
    BY <1>3, <2>2, <2>3 DEF LastPut, enabled
  <2>5. OpInv'
    BY <1>1, <1>4, <2>1, OpKept DEF GInv
  <2>6. Base' /\ Chan' /\ OpInv' /\ OpSub' /\ SubInv' /\ LastPut'
    BY <1>1, <2>1, <2>4, <2>5, OpStepKeeps, SameDb DEF Base, Observe, Unseen, Idle
  <2> QED BY <1>1, <1>4, <2>6 DEF GInv, SeenInv
<1> QED BY <1>5, <1>6

\* Every field read under the locks has the value of its record.
LEMMA GetFieldIs ==
    ASSUME Base, GInv, GetField, Observe, UNCHANGED seen
    PROVE  Base' /\ GInv' /\ db' = db
<1> DEFINE f == Group.fields[op.i]
           read == Read(NoNode, f.type, Everything, db, f.rec)
           acc == IF f.type \in {"proc", "structure"} THEN op.acc ELSE With(op.acc, op.i, read)
<1>1. /\ op.k = "get" /\ op.i \in Indices /\ op' = [op EXCEPT !.i = @ + 1, !.acc = acc]
      /\ UNCHANGED <<phase, groups, chan, last, gsub, gev, firstPost, raced, db, held>>
  BY DEF GetField
<1>2. /\ op = [k |-> "get", atomic |-> op.atomic, i |-> op.i, acc |-> op.acc] /\ op.atomic \in BOOLEAN /\ op.i \in Nat \ {0}
      /\ chan # NoName
  BY <1>1 DEF GInv, Chan, OpInv, OpOK, Idle
<1> HIDE DEF acc
<1>3. op' = [k |-> "get", atomic |-> op.atomic, i |-> op.i + 1, acc |-> acc]
  BY <1>1, <1>2
<1>4. UNCHANGED <<Group, Indices>> /\ OpLocks(op.atomic)' = OpLocks(op.atomic)
  BY <1>1 DEF Group, Indices, OpLocks
<1>5. DOMAIN acc \subseteq Indices
  BY <1>1 DEF acc, With, GInv, OpInv, Locked
<1>6. ASSUME op.atomic, NEW i \in DOMAIN acc, Mapped(Group.fields[i]), Group.fields[i].type # "meta"
      PROVE  acc[i].value = db.val[Group.fields[i].rec]
  <2>1. CASE f.type \in {"proc", "structure"} \/ i # op.i
    <3>1. i \in DOMAIN op.acc /\ acc[i] = op.acc[i]
      BY <2>1 DEF acc, With
    <3> QED BY <1>1, <1>6, <3>1 DEF GInv, OpInv, Locked
  <2>2. CASE f.type \notin {"proc", "structure"} /\ i = op.i
    <3>1. acc[i] = read
      BY <2>2 DEF acc, With
    <3>2. FieldOK(Group, f) /\ f.rec # NoName
      BY <1>1, <1>2, <1>6, <2>2, GroupShape DEF GInv, Mapped
    <3>3. f.type # "const"
      BY <3>2 DEF FieldOK
    <3>4. "value" \in PartsOf(f.type, Everything) /\ "value" \in DOMAIN NoNode
      BY <1>6, <2>2, <3>3 DEF PartsOf, Everything, NoNode
    <3> HIDE DEF f
    <3>5. read.value = db.val[f.rec]
      BY <3>3, <3>4 DEF Read, Get
    <3> QED BY <2>2, <3>1, <3>5 DEF f
  <2> QED BY <2>1, <2>2
<1>7. OpInv'
  <2>1. OpOK' /\ op'.k = "get" /\ op'.atomic = op.atomic /\ op'.acc = acc
    BY <1>2, <1>3 DEF OpOK
  <2>2. Locked'
    BY <1>1, <1>4, <1>5, <1>6, <2>1 DEF Locked, GInv, OpInv, Observe
  <2> QED BY <2>1, <2>2 DEF OpInv, PutSoFar
<1>8. LastPut' /\ AtomicSeenWhole'
  BY <1>1, LastSame, SeenSame DEF GInv, SeenInv, Observe
<1>9. Base' /\ Chan' /\ OpInv' /\ OpSub' /\ SubInv' /\ LastPut'
  BY <1>1, <1>2, <1>3, <1>7, <1>8, OpStepKeeps, SameDb DEF Base, Observe
<1> QED BY <1>1, <1>8, <1>9 DEF GInv, SeenInv

\* An atomic get ends with what its records have at that moment.
LEMMA GetReplyIs ==
    ASSUME Base, GInv, GetReply, Observe,
           seen' = IF op.atomic
                   THEN [r \in {Group.fields[i].rec : i \in {i \in DOMAIN op.acc : HasRec(Group.fields[i]) /\ Group.fields[i].type # "meta"}} |->
                           op.acc[CHOOSE i \in DOMAIN op.acc : Group.fields[i].rec = r /\ Group.fields[i].type # "meta"].value]
                   ELSE seen
    PROVE  Base' /\ GInv' /\ db' = db
<1> DEFINE read == {Group.fields[i].rec : i \in {i \in DOMAIN op.acc : HasRec(Group.fields[i]) /\ Group.fields[i].type # "meta"}}
           at(r) == CHOOSE i \in DOMAIN op.acc : Group.fields[i].rec = r /\ Group.fields[i].type # "meta"
           s == Snap(db, {})
<1>1. /\ op.k = "get" /\ last' = op /\ op' = Idle /\ held' = {}
      /\ UNCHANGED <<phase, groups, chan, gsub, gev, firstPost, raced, db>>
  BY DEF GetReply
<1>2. chan # NoName
  BY <1>1 DEF GInv, Chan, Idle
<1>3. s \in snaps' /\ snaps \subseteq snaps'
  BY <1>1 DEF Observe, Snap
<1>4. OpInv' /\ op'.k = "idle"
  BY <1>1, <1>3 DEF OpInv, OpOK, Locked, PutSoFar, Idle, Snap
<1>5. LastPut'
  BY <1>1 DEF LastPut
<1>6. AtomicSeenWhole'
  <2>1. CASE op.atomic
    <3>1. ASSUME NEW r \in read PROVE r \in DOMAIN s /\ s[r] = op.acc[at(r)].value
      <4>1. PICK i \in DOMAIN op.acc : Group.fields[i].rec = r /\ HasRec(Group.fields[i]) /\ Group.fields[i].type # "meta"
        BY <3>1
      <4>2. at(r) \in DOMAIN op.acc /\ Group.fields[at(r)].rec = r /\ Group.fields[at(r)].type # "meta"
        BY <4>1
      <4> HIDE DEF at
      <4>3. Mapped(Group.fields[at(r)]) /\ at(r) \in Indices
        BY <1>1, <4>1, <4>2 DEF Mapped, HasRec, GInv, OpInv, Locked
      <4>4. op.acc[at(r)].value = db.val[r]
        BY <1>1, <2>1, <4>2, <4>3 DEF GInv, OpInv, Locked
      <4>5. r \in Records
        BY <1>2, <4>2, <4>3, GroupShape DEF GInv, FieldOK, Mapped
      <4> QED BY <4>4, <4>5 DEF Snap
    <3>2. seen' = [r \in read |-> op.acc[at(r)].value]
      BY <2>1
    <3> HIDE DEF read, at, s
    <3>3. \A r \in DOMAIN seen' : r \in DOMAIN s /\ s[r] = seen'[r]
      BY <3>1, <3>2
    <3> QED BY <1>3, <3>3 DEF AtomicSeenWhole
  <2>2. CASE ~op.atomic
    BY <1>3, <2>2, SeenSame DEF GInv, SeenInv
  <2> QED BY <2>1, <2>2
<1>7. SubInv'
  BY <1>1, SameDb, SubKept DEF GInv
<1>8. Chan'
  BY <1>1, <1>2, ChanKept DEF GInv
<1>9. OpSub'
  BY <1>4 DEF OpSub
<1> QED BY <1>1, <1>4, <1>5, <1>6, <1>7, <1>8, <1>9 DEF Base, GInv, SeenInv

\* The reply to a put says what the put has come to.
LEMMA PutReplyIs ==
    ASSUME Base, GInv, PutReply, Observe, UNCHANGED seen
    PROVE  Base' /\ GInv' /\ db' = db
<1> DEFINE W == WantOf(op.marked)
           enabled == \A i \in Indices : HasRec(Group.fields[i]) => PutEnabled(Group.fields[i].rec)
<1>1. /\ op.k = "put" /\ (op.i \notin Indices \/ ~op.permitted)
      /\ last' = [k |-> "put", ok |-> op.permitted /\ (op.did \/ op.marked = {}), marked |-> op.marked,
                  written |-> op.written, kept |-> op.atomic => Kept]
      /\ op' = Idle /\ held' = {}
      /\ UNCHANGED <<phase, groups, chan, gsub, gev, firstPost, raced, db>>
  BY DEF PutReply
<1>2. chan # NoName /\ op.i \in Nat \ {0} /\ op.did \in BOOLEAN /\ op.permitted \in BOOLEAN
  BY <1>1 DEF GInv, Chan, Idle, OpInv, OpOK
<1>3. /\ enabled
      /\ \A n \in 1..(Len(op.written) - 1) : op.written[n] < op.written[n + 1]
      /\ ToSet(op.written) = {i \in W : i < op.i}
      /\ \A i \in W : i < op.i => CanWrite(Group.fields[i].rec)
      /\ ~op.permitted => op.i \in W /\ ~CanWrite(Group.fields[op.i].rec)
      /\ op.atomic => Kept
  BY <1>1 DEF GInv, OpInv, PutSoFar, Locked
<1>4. UNCHANGED <<Group, Indices>> /\ \A m : WantOf(m)' = WantOf(m)
  BY <1>1 DEF Group, Indices, WantOf
<1>5. W \subseteq Indices /\ W \subseteq op.marked /\ W \subseteq Nat
  BY <1>2, GroupShape DEF WantOf, GInv
<1>6. op.permitted => \A i \in W : i < op.i
  BY <1>1, <1>2, <1>5, GroupShape DEF GInv
<1> HIDE DEF W, enabled
<1>7. {i \in W : i < op.i} = {i \in W : \A j \in W : j <= i => CanWrite(Group.fields[j].rec)}
  <2>1. CASE op.permitted
    BY <1>3, <1>6, <2>1
  <2>2. CASE ~op.permitted
    <3>1. ASSUME NEW i \in W, i < op.i, NEW j \in W, j <= i PROVE CanWrite(Group.fields[j].rec)
      <4>1. j < op.i
        BY <1>2, <1>5, <3>1
      <4> QED BY <1>3, <4>1
    <3>2. ASSUME NEW i \in W, ~(i < op.i) PROVE op.i \in W /\ op.i <= i
      BY <1>2, <1>3, <1>5, <2>2, <3>2
    <3> QED BY <1>3, <2>2, <3>1, <3>2
  <2> QED BY <2>1, <2>2
<1>8. /\ last'.k = "put" /\ last'.marked = op.marked /\ last'.written = op.written /\ last'.kept
      /\ last'.ok <=> op.permitted /\ (op.did \/ op.marked = {})
  BY <1>1, <1>3
<1>9. LastPut'
  <2>1. WantOf(last.marked)' = W
    BY <1>4, <1>8 DEF W
  <2>2. (\A i \in Indices : HasRec(Group.fields[i]) => PutEnabled(Group.fields[i].rec))'
    BY <1>3, <1>4 DEF enabled
  <2>3. last'.ok => \A i \in W : CanWrite(Group.fields[i].rec)
    BY <1>3, <1>6, <1>8
  <2>4. ~last'.ok => last'.marked # {}
    BY <1>3, <1>5, <1>8
  <2>5. ToSet(last'.written) = {i \in W : \A j \in W : j <= i => CanWrite(Group.fields[j].rec)}
    BY <1>3, <1>7, <1>8
  <2> QED BY <1>3, <1>4, <1>8, <2>1, <2>2, <2>3, <2>4, <2>5 DEF LastPut
<1>10. OpInv' /\ op'.k = "idle"
  BY <1>1 DEF OpInv, OpOK, Locked, PutSoFar, Idle, Observe
<1>11. AtomicSeenWhole'
  BY SeenSame DEF GInv, SeenInv, Observe
<1>12. Base' /\ Chan' /\ OpInv' /\ OpSub' /\ SubInv' /\ LastPut'
  BY <1>1, <1>2, <1>9, <1>10, OpStepKeeps, SameDb DEF Base, Observe
<1> QED BY <1>1, <1>11, <1>12 DEF GInv, SeenInv

\* A field is written, unless its turn is to be refused: then nothing more is.
LEMMA PutFieldIs ==
    ASSUME Base, GInv, SInv, PutField, Observe, UNCHANGED <<seen, singleVars>>
    PROVE  Base' /\ GInv' /\ SInv'
<1> DEFINE f == Group.fields[op.i]
           changing == Changing(f, op.i)
           put == IF changing THEN Put(db, f.rec, f.type, PutValue) ELSE db
           does == changing \/ f.type = "proc"
           how == IF f.type = "proc" THEN "true" ELSE op.force
           done == IF does THEN PostProcess(put, f.rec, how) ELSE db
           written == IF changing THEN Append(op.written, op.i) ELSE op.written
           W == WantOf(op.marked)
           valued == f.type \in {"scalar", "plain", "any"}
<1>1. /\ op.k = "put" /\ op.i \in Indices /\ op.permitted
      /\ UNCHANGED <<phase, groups, chan, last, gsub, gev, firstPost, raced, held>>
      /\ IF changing /\ ~CanWrite(f.rec)
         THEN op' = [op EXCEPT !.permitted = FALSE] /\ db' = db
         ELSE db' = done /\ op' = [op EXCEPT !.i = @ + 1, !.did = @ \/ does, !.written = written]
  BY DEF PutField
<1>2. /\ op = [k |-> "put", atomic |-> op.atomic, force |-> op.force, marked |-> op.marked, i |-> op.i,
               written |-> op.written, did |-> op.did, permitted |-> op.permitted]
      /\ op.atomic \in BOOLEAN /\ op.i \in Nat \ {0} /\ op.written \in Seq(Nat)
      /\ op.did \in BOOLEAN /\ op.permitted \in BOOLEAN
  BY <1>1 DEF GInv, OpInv, OpOK, Idle
<1>3. chan # NoName /\ op # Idle
  BY <1>1 DEF GInv, Chan, Idle
<1>4. UNCHANGED <<Group, Indices>> /\ (\A m : WantOf(m)' = WantOf(m)) /\ \A a : OpLocks(a)' = OpLocks(a)
  BY <1>1 DEF Group, Indices, WantOf, OpLocks
<1>5. /\ \A i \in Indices : HasRec(Group.fields[i]) => PutEnabled(Group.fields[i].rec)
      /\ \A n \in 1..(Len(op.written) - 1) : op.written[n] < op.written[n + 1]
      /\ ToSet(op.written) = {i \in W : i < op.i}
      /\ \A i \in W : i < op.i => CanWrite(Group.fields[i].rec)
      /\ ToSet(op.written) # {} => op.did
      /\ op.atomic => Kept
      /\ held = OpLocks(op.atomic)
  BY <1>1 DEF GInv, OpInv, PutSoFar, Locked
<1>6. changing <=> op.i \in W
  BY <1>1 DEF Changing, WantOf
<1>7. FieldOK(Group, f)
  BY <1>1, <1>3, GroupShape DEF GInv
<1>8. does => f.rec \in Records
  BY <1>7 DEF FieldOK, Changing, HasRec
<1>9. W \subseteq Nat /\ W \subseteq Indices
  BY <1>3, GroupShape DEF WantOf, GInv
<1> HIDE DEF W
<1>10. Snap(db', held') \in snaps' /\ snaps \subseteq snaps' /\ LastPut' /\ AtomicSeenWhole'
  BY <1>1, LastSame, SeenSame DEF GInv, SeenInv, Observe
<1>11. CASE changing /\ ~CanWrite(f.rec)
  <2>1. op' = [k |-> "put", atomic |-> op.atomic, force |-> op.force, marked |-> op.marked, i |-> op.i,
               written |-> op.written, did |-> op.did, permitted |-> FALSE] /\ db' = db
    BY <1>1, <1>2, <1>11
  <2>2. OpOK'
    BY <1>2, <2>1 DEF OpOK
  <2>3. PutSoFar'
    BY <1>4, <1>5, <1>6, <1>11, <2>1 DEF PutSoFar, W
  <2>4. Locked'
    BY <1>1, <1>4, <1>5, <1>10, <2>1 DEF Locked, Kept
  <2>5. Base' /\ Chan' /\ OpInv' /\ OpSub' /\ SubInv' /\ LastPut'
    BY <1>1, <1>3, <1>10, <2>1, <2>2, <2>3, <2>4, OpStepKeeps, SameDb DEF OpInv, Base
  <2>6. SInv'
    BY <2>1, SingleStays
  <2> QED BY <1>10, <2>5, <2>6 DEF GInv, SeenInv
<1>12. CASE ~(changing /\ ~CanWrite(f.rec))
  <2>1. op' = [k |-> "put", atomic |-> op.atomic, force |-> op.force, marked |-> op.marked, i |-> op.i + 1,
               written |-> written, did |-> op.did \/ does, permitted |-> op.permitted] /\ db' = done
    <3> HIDE DEF changing, does, written, done
    <3> QED BY <1>1, <1>2, <1>12
  <2>2. /\ Grows(db, done) /\ db.pact \subseteq done.pact
        /\ done.val = IF changing /\ valued THEN [db.val EXCEPT ![f.rec] = PutValue] ELSE db.val
    <3>1. /\ DbOK(db) /\ Grows(db, put) /\ put.pact = db.pact
          /\ put.val = IF changing /\ valued THEN [db.val EXCEPT ![f.rec] = PutValue] ELSE db.val
      <4> DEFINE p == DbPut(db, f.rec, PutValue)
      <4>1. CASE changing /\ valued
        <5>1. Grows(db, p) /\ p.val = [db.val EXCEPT ![f.rec] = PutValue] /\ p.pact = db.pact
          BY <1>8, <4>1, DbPutIs, PutValueAssumption DEF Base
        <5>2. put = p
          BY <4>1 DEF Put
        <5> HIDE DEF p, put, changing, valued
        <5> QED BY <4>1, <5>1, <5>2 DEF Base
      <4>2. CASE ~(changing /\ valued)
        <5>1. put = db
          BY <4>2 DEF Put
        <5>2. Grows(db, db)
          BY GrowsSelf DEF Base
        <5> HIDE DEF put, changing, valued
        <5> QED BY <4>2, <5>1, <5>2 DEF Base
      <4> QED BY <4>1, <4>2
    <3> HIDE DEF put, changing, valued, how
    <3>2. CASE does
      <4> DEFINE e == PostProcess(put, f.rec, how)
      <4>1. DbOK(put)
        BY <3>1 DEF Grows
      <4>2. Grows(put, e) /\ e.val = put.val /\ put.pact \subseteq e.pact
        BY <1>8, <3>2, <4>1, PostProcessIs
      <4>3. done = e
        BY <3>2
      <4> HIDE DEF e, done
      <4>4. Grows(db, e)
        BY <3>1, <4>2, GrowsOn
      <4> QED BY <3>1, <4>2, <4>3, <4>4
    <3>3. CASE ~does
      <4>1. done = db /\ ~changing
        BY <3>3
      <4>2. Grows(db, db)
        BY <3>1, GrowsSelf
      <4> HIDE DEF done
      <4> QED BY <4>1, <4>2
    <3> QED BY <3>2, <3>3
  <2>3. DbOK(db') /\ Keeps("group") /\ Keeps("single")
    BY <2>1, <2>2, GrowsKeeps, SourcesAre DEF Base
  <2>4. \A r \in Records : db'.val[r] \in {db.val[r], PutValue}
    <3> HIDE DEF done, changing, valued
    <3> QED BY <2>1, <2>2 DEF Base, DbOK
  <2>5. changing /\ valued => db'.val[f.rec] = PutValue
    <3>1. DOMAIN db.val = Records
      BY DEF Base, DbOK
    <3> HIDE DEF done, valued
    <3>2. changing => f.rec \in Records
      BY <1>8
    <3> HIDE DEF changing
    <3> QED BY <2>1, <2>2, <3>1, <3>2
  <2>6. SInv'
    <3>1. SOther
      <4> HIDE DEF done
      <4> QED BY <2>1, <2>2, <2>3, <2>4 DEF SOther, singleVars, SInv
    <3> QED BY <3>1, SOtherKeeps DEF singleVars
  <2>7. /\ written \in Seq(Nat) /\ ToSet(written) = {i \in W : i < op.i + 1}
        /\ \A n \in 1..(Len(written) - 1) : written[n] < written[n + 1]
        /\ ToSet(written) = ToSet(op.written) \cup (IF changing THEN {op.i} ELSE {})
    <3>1. CASE changing
      <4> HIDE DEF changing
      <4>1. written = Append(op.written, op.i)
        BY <3>1
      <4> HIDE DEF written
      <4>2. /\ written \in Seq(Nat) /\ Len(op.written) \in Nat /\ Len(written) = Len(op.written) + 1
            /\ DOMAIN op.written = 1..Len(op.written) /\ DOMAIN written = 1..(Len(op.written) + 1)
            /\ \A n \in 1..Len(op.written) : written[n] = op.written[n]
            /\ written[Len(op.written) + 1] = op.i
        BY <1>2, <4>1, AppendProperties
      <4>3. \A n \in 1..Len(op.written) : op.written[n] \in Nat /\ op.written[n] < op.i
        BY <1>2, <1>5, <4>2 DEF ToSet
      <4>4. ASSUME NEW n \in 1..(Len(written) - 1) PROVE written[n] < written[n + 1]
        <5>1. n \in 1..Len(op.written)
          BY <4>2
        <5>2. CASE n = Len(op.written)
          BY <4>2, <4>3, <5>1, <5>2
        <5>3. CASE n # Len(op.written)
          <6>1. n \in 1..(Len(op.written) - 1) /\ n + 1 \in 1..Len(op.written)
            BY <4>2, <5>1, <5>3
          <6> QED BY <1>5, <4>2, <5>1, <6>1
        <5> QED BY <5>2, <5>3
      <4>5. ToSet(written) = ToSet(op.written) \cup {op.i}
        <5>1. \A n \in 1..(Len(op.written) + 1) : n \in 1..Len(op.written) \/ n = Len(op.written) + 1
          BY <4>2
        <5>2. 1..Len(op.written) \subseteq DOMAIN written /\ Len(op.written) + 1 \in DOMAIN written
          BY <4>2
        <5> QED BY <4>2, <5>1, <5>2 DEF ToSet
      <4>6. {i \in W : i < op.i + 1} = {i \in W : i < op.i} \cup {op.i}
        BY <1>2, <1>6, <1>9, <3>1
      <4> QED BY <1>5, <3>1, <4>2, <4>4, <4>5, <4>6
    <3>2. CASE ~changing
      <4>1. written = op.written
        BY <3>2
      <4>2. op.i \notin W
        BY <1>6, <3>2
      <4> HIDE DEF written, changing
      <4>3. {i \in W : i < op.i + 1} = {i \in W : i < op.i}
        BY <1>2, <1>9, <4>2
      <4> QED BY <1>2, <1>5, <3>2, <4>1, <4>3
    <3> QED BY <3>1, <3>2
  <2>8. CASE TRUE
    <3> HIDE DEF written, done, valued
    <3>1. OpOK' /\ op'.k = "put" /\ op'.permitted = TRUE /\ op'.i = op.i + 1 /\ op'.marked = op.marked
          /\ op'.written = written /\ op'.atomic = op.atomic /\ op'.did = (op.did \/ does)
      <4> HIDE DEF does
      <4> QED BY <1>1, <1>2, <2>1, <2>7 DEF OpOK
    <3>2. \A i \in W : i < op.i + 1 => CanWrite(Group.fields[i].rec)
      <4>1. \A i \in W : i < op.i + 1 => i < op.i \/ i = op.i
        BY <1>2, <1>9
      <4>2. op.i \in W => CanWrite(f.rec)
        BY <1>6, <1>12
      <4> QED BY <1>5, <4>1, <4>2
    <3>3. PutSoFar'
      <4>1. ToSet(written) # {} => op.did \/ does
        BY <1>5, <2>7
      <4>2. WantOf(op.marked)' = W
        BY <1>4, <3>1 DEF W
      <4> HIDE DEF does
      <4> QED BY <1>4, <1>5, <2>7, <3>1, <3>2, <4>1, <4>2 DEF PutSoFar
    <3>4. ASSUME op.atomic PROVE Kept'
      <4>1. ASSUME NEW i \in ToSet(written), Group.fields[i].type \in {"scalar", "plain", "any"}
            PROVE  db'.val[Group.fields[i].rec] = PutValue
        <5>1. CASE changing /\ i = op.i
          BY <2>5, <4>1, <5>1 DEF valued
        <5>2. CASE i \in ToSet(op.written)
          <6>1. db.val[Group.fields[i].rec] = PutValue
            BY <1>5, <3>4, <4>1, <5>2 DEF Kept
          <6>2. i \in W
            BY <1>5, <5>2
          <6>3. Group.fields[i].rec \in held
            BY <1>3, <1>5, <3>4, <6>2, HeldRecords DEF W, WantOf, GInv
          <6> QED BY <2>4, <6>1, <6>3 DEF Base
        <5> HIDE DEF changing
        <5> QED BY <2>7, <5>1, <5>2
      <4> QED BY <1>4, <3>1, <4>1 DEF Kept
    <3>5. Locked'
      BY <1>1, <1>4, <1>5, <1>10, <3>1, <3>4 DEF Locked
    <3>6. Base' /\ Chan' /\ OpInv' /\ OpSub' /\ SubInv' /\ LastPut'
      BY <1>1, <1>3, <1>10, <2>3, <3>1, <3>3, <3>5, OpStepKeeps DEF OpInv, Base
    <3> QED BY <1>10, <2>6, <3>6 DEF GInv, SeenInv
  <2> QED BY <2>8
<1> QED BY <1>11, <1>12

\* The subscriptions to events which the subscription to a group makes
LEMMA FieldIdsAre ==
    ASSUME Chan, chan # NoName
    PROVE  /\ FieldIds \subseteq Ids /\ IsFiniteSet(FieldIds) /\ FieldIds \subseteq AllIds
           /\ \A id \in FieldIds : /\ id.src = "group" /\ id.i \in Indices /\ id.kind \in Kinds
                                   /\ SubscribeField(id).rec \in Records /\ SubscribeField(id).select \in SUBSET Masks
<1> DEFINE n == Len(Group.fields)
           Of(kind) == {GroupId(i, kind) : i \in 1..n}
<1>1. n \in Nat /\ Indices = 1..n /\ \A i \in Indices : FieldOK(Group, Group.fields[i])
  BY GroupShape
<1> HIDE DEF n
<1>2. ASSUME NEW kind PROVE IsFiniteSet(Of(kind))
  <2> DEFINE g == [i \in 1..n |-> GroupId(i, kind)]
  <2>1. g \in Surjection(1..n, Of(kind))
    BY DEF Surjection
  <2>2. IsFiniteSet(1..n)
    BY <1>1, FS_Interval
  <2> HIDE DEF g, Of
  <2> QED BY <2>1, <2>2, FS_Surjection
<1>3. AllIds = Of("value") \cup Of("property")
  BY <1>1 DEF AllIds
<1> HIDE DEF Of
<1>4. IsFiniteSet(Of("value")) /\ IsFiniteSet(Of("property"))
  BY <1>2
<1>5. IsFiniteSet(Of("value") \cup Of("property"))
  BY <1>4, FS_Union
<1>6. FieldIds \subseteq AllIds
  BY DEF FieldIds
<1>7. IsFiniteSet(FieldIds)
  BY <1>3, <1>5, <1>6, FS_Subset
<1>8. \A id \in AllIds : id \in Ids /\ id.src = "group" /\ id.i \in Indices /\ id.kind \in Kinds
  BY <1>1 DEF AllIds, GroupId, Ids, Sources, Kinds
<1>9. ASSUME NEW id \in FieldIds PROVE SubscribeField(id).rec \in Records /\ SubscribeField(id).select \in SUBSET Masks
  <2>1. id.i \in Indices /\ HasRec(Group.fields[id.i])
    BY <1>8 DEF FieldIds, NothingToWaitFor
  <2>2. Group.fields[id.i].rec \in Records
    BY <1>1, <2>1 DEF FieldOK, HasRec
  <2> QED BY <2>2 DEF SubscribeField, ValueMask, Masks
<1> QED BY <1>6, <1>7, <1>8, <1>9

\* What a step of the subscription leaves to the operations and the single source
LEMMA SubStep ==
    ASSUME Base, GInv, SInv, DbOK(db'), SameValues(db, db'), Keeps("single"), chan # NoName,
           UNCHANGED <<groups, chan, phase, held, last, singleVars>>, Snap(db', held) \in snaps',
           OpOK', op' = op \/ (op.k \notin {"get", "put"} /\ op'.k \notin {"get", "put"})
    PROVE  Base' /\ Chan' /\ OpInv' /\ LastPut' /\ SInv'
<1>1. OpInv'
  <2>1. CASE op' = op
    BY <2>1, OpKept DEF GInv, SameValues
  <2>2. CASE op.k \notin {"get", "put"} /\ op'.k \notin {"get", "put"}
    BY <2>2 DEF GInv, OpInv, Locked, PutSoFar
  <2> QED BY <2>1, <2>2
<1>2. Chan' /\ LastPut'
  BY ChanKept, LastSame DEF GInv, SeenInv
<1>3. SOther
  BY DEF SOther, singleVars, SameValues
<1>4. SInv'
  BY <1>3, SOtherKeeps DEF singleVars
<1> QED BY <1>1, <1>2, <1>4 DEF Base

\* Nothing is had, marked or primed which was not.
LEMMA SubAlike ==
    ASSUME SubInv, gsub # NoSub, gsub' # NoSub, GSubOK',
           gsub'.had = gsub.had, gsub'.marks = gsub.marks, gsub'.primed = gsub.primed,
           UNCHANGED <<groups, chan, gev, firstPost, raced>>, Keeps("group")
    PROVE  SubInv'
<1>1. UNCHANGED <<Group, Indices, AllIds, FieldIds, Consts>>
  BY DEF Group, Indices, AllIds, FieldIds, NothingToWaitFor, Consts
<1>2. \A id : UNCHANGED <<SubscribeField(id), Covers(id)>>
  BY <1>1 DEF SubscribeField, Covers
<1>3. GevOK'
  BY DEF SubInv, GevOK
<1>4. GroupQueue'
  <2>1. /\ Queue(db, "group", FieldIds, gsub.had) /\ \A id \in FieldIds : db.subs[id].select = SubscribeField(id).select
        /\ gev # NoEvent => gev.e.id \in FieldIds \cap gsub.had
    BY DEF SubInv, GroupQueue
  <2>2. Queue(db', "group", FieldIds, gsub.had)
    BY <2>1 DEF Keeps
  <2>3. \A id \in FieldIds : db'.subs[id].select = db.subs[id].select
    BY <2>1 DEF Keeps, Select, Queue
  <2> QED BY <1>1, <1>2, <2>1, <2>2, <2>3 DEF GroupQueue
<1>5. GroupMarks'
  BY <1>1, <1>2 DEF SubInv, GroupMarks, Under
<1>6. GroupFirst'
  BY <1>1, <1>2 DEF SubInv, GroupFirst
<1> QED BY <1>3, <1>4, <1>5, <1>6 DEF SubInv

\* The same group has the same fields to wait for.
LEMMA GroupSame ==
    ASSUME UNCHANGED <<groups, chan>>
    PROVE  /\ UNCHANGED <<Group, Indices, AllIds, FieldIds, Consts>>
           /\ \A id : UNCHANGED <<SubscribeField(id), Covers(id)>>
<1>1. UNCHANGED <<Group, Indices, AllIds, FieldIds, Consts>>
  BY DEF Group, Indices, AllIds, FieldIds, NothingToWaitFor, Consts
<1>2. \A id : UNCHANGED <<SubscribeField(id), Covers(id)>>
  BY <1>1 DEF SubscribeField, Covers
<1> QED BY <1>1, <1>2

\* A new subscription waits for the events of its fields and has its constants.
LEMMA OnSubscribeIs ==
    ASSUME Base, GInv, SInv, OnSubscribe, Observe, Unseen, UNCHANGED singleVars
    PROVE  Base' /\ GInv' /\ SInv'
<1> DEFINE new == [id \in FieldIds |-> SubscribeField(id)]
           had == AllIds \ FieldIds
           cur == [i \in Indices |-> IF Group.fields[i].type = "const" THEN [NoNode EXCEPT !.value = 0] ELSE NoNode]
<1>1. /\ chan # NoName /\ op = Idle /\ gsub = NoSub
      /\ gsub' = [state |-> "stopped", primed |-> FALSE, options |-> TRUE, had |-> had, cur |-> cur, marks |-> Consts]
      /\ db' = Subscribe(db, new) /\ firstPost' = {}
      /\ UNCHANGED <<phase, groups, chan, op, last, gev, raced, held>>
  BY DEF OnSubscribe, Consts
<1> HIDE DEF cur
<1>2. gev = NoEvent /\ Queue(db, "group", {}, {})
  BY <1>1 DEF GInv, SubInv, GroupQueue
<1>3. DOMAIN new = FieldIds /\ \A id \in FieldIds : new[id] = SubscribeField(id)
  OBVIOUS
<1> HIDE DEF new
<1>4. /\ IsFiniteSet(DOMAIN new) /\ DOMAIN new \subseteq Ids /\ \A id \in DOMAIN new : id.src = "group"
      /\ \A id \in DOMAIN new : new[id].rec \in Records /\ new[id].select \in SUBSET Masks
  BY <1>1, <1>3, FieldIdsAre DEF GInv
<1>5. /\ DbOK(db') /\ SameValues(db, db') /\ \A id \in DOMAIN new : Select(db', id) = new[id].select
      /\ Queue(db', "group", DOMAIN new, had) /\ \A t \in Sources \ {"group"} : SameSource(db, db', t)
  <2> HIDE DEF had
  <2> QED BY <1>1, <1>2, <1>4, SourcesAre, SubscribeIs DEF Base
<1>6. Keeps("single")
  BY <1>5, SameKeeps, SourcesAre
<1>7. Snap(db', held) \in snaps' /\ AtomicSeenWhole'
  BY <1>1, SeenSame DEF Observe, Unseen, GInv, SeenInv
<1>8. OpOK'
  BY <1>1 DEF OpOK
<1>9. Base' /\ Chan' /\ OpInv' /\ LastPut' /\ SInv'
  BY <1>1, <1>5, <1>6, <1>7, <1>8, SubStep
<1>10. GSubOK' /\ gsub' # NoSub /\ gsub'.had = had /\ gsub'.marks = Consts /\ gsub'.primed = FALSE
  <2> HIDE DEF had
  <2> QED BY <1>1 DEF GSubOK, NoSub
<1>11. /\ UNCHANGED <<Group, Indices, AllIds, FieldIds, Consts>>
       /\ \A id : UNCHANGED <<SubscribeField(id), Covers(id)>>
  BY <1>1, GroupSame
<1>12. GroupQueue'
  <2> HIDE DEF had
  <2> QED BY <1>1, <1>2, <1>3, <1>5, <1>10, <1>11 DEF GroupQueue, Select
<1>13. GroupMarks' /\ GroupFirst'
  BY <1>10, <1>11 DEF GroupMarks, GroupFirst
<1>14. GevOK' /\ OpSub'
  BY <1>1, <1>2 DEF GevOK, OpSub, Idle
<1> QED BY <1>7, <1>9, <1>10, <1>12, <1>13, <1>14 DEF GInv, SubInv, SeenInv

\* Starting the group's subscription
LEMMA OnStartIs ==
    ASSUME Base, GInv, SInv, OnStart, Observe, Unseen, UNCHANGED singleVars
    PROVE  Base' /\ GInv' /\ SInv'
<1>1. /\ gsub.state = "stopped" /\ op = Idle /\ op' = [k |-> "start", i |-> 1] /\ gsub' = [gsub EXCEPT !.state = "started"]
      /\ UNCHANGED <<phase, groups, chan, last, gev, firstPost, raced, db, held>>
  BY DEF OnStart
<1>2. gsub # NoSub /\ chan # NoName
  BY <1>1 DEF NoSub, GInv, Chan
<1>3. /\ GSubOK' /\ gsub' # NoSub /\ gsub'.had = gsub.had /\ gsub'.marks = gsub.marks /\ gsub'.primed = gsub.primed
  BY <1>1, <1>2 DEF GInv, SubInv, GSubOK, NoSub
<1>4. Keeps("group") /\ Keeps("single") /\ DbOK(db') /\ SameValues(db, db')
  BY <1>1, SameDb DEF SameValues, Base
<1>5. SubInv'
  BY <1>1, <1>2, <1>3, <1>4, SubAlike DEF GInv
<1>6. OpOK' /\ op'.k = "start" /\ op.k = "idle"
  BY <1>1 DEF OpOK, Idle
<1>7. Snap(db', held) \in snaps' /\ AtomicSeenWhole'
  BY <1>1, SeenSame DEF Observe, Unseen, GInv, SeenInv
<1>8. Base' /\ Chan' /\ OpInv' /\ LastPut' /\ SInv'
  BY <1>1, <1>2, <1>4, <1>6, <1>7, SubStep
<1>9. OpSub'
  BY <1>3, <1>6 DEF OpSub
<1> QED BY <1>5, <1>7, <1>8, <1>9 DEF GInv, SeenInv

\* The events of one field are enabled.
LEMMA EnableFieldIs ==
    ASSUME Base, GInv, SInv, EnableField, Observe, UNCHANGED <<seen, singleVars>>
    PROVE  Base' /\ GInv' /\ SInv'
<1> DEFINE a == GroupId(op.i, "value")
           b == GroupId(op.i, "property")
<1>1. /\ op.k = "start" /\ op' = [op EXCEPT !.i = @ + 1] /\ db' = Enable(Enable(db, a), b)
      /\ UNCHANGED <<phase, groups, chan, last, gsub, gev, firstPost, raced, held>>
  BY DEF EnableField
<1> HIDE DEF a, b
<1>2. DbOK(db') /\ SameValues(db, db') /\ Keeps("group") /\ Keeps("single")
  BY <1>1, EnableKeeps, SourcesAre DEF Base
<1>3. op = [k |-> "start", i |-> op.i] /\ op.i \in Nat \ {0} /\ chan # NoName
  BY <1>1 DEF GInv, Chan, OpInv, OpOK, Idle
<1>4. OpOK' /\ op'.k = "start"
  BY <1>1, <1>3 DEF OpOK
<1>5. Snap(db', held) \in snaps' /\ AtomicSeenWhole'
  BY <1>1, SeenSame DEF Observe, GInv, SeenInv
<1>6. Base' /\ Chan' /\ OpInv' /\ LastPut' /\ SInv'
  BY <1>1, <1>2, <1>3, <1>4, <1>5, SubStep
<1>7. SubInv' /\ OpSub'
  BY <1>1, <1>2, <1>4, SubKept DEF GInv, OpSub
<1> QED BY <1>5, <1>6, <1>7 DEF GInv, SeenInv

\* Stopping the group's subscription
LEMMA OnDisableIs ==
    ASSUME Base, GInv, SInv, OnDisable, Observe, Unseen, UNCHANGED singleVars
    PROVE  Base' /\ GInv' /\ SInv'
<1>1. /\ gsub.state = "started" /\ op = Idle /\ db' = Disable(db, FieldIds) /\ gsub' = [gsub EXCEPT !.state = "stopped"]
      /\ UNCHANGED <<phase, groups, chan, op, last, gev, firstPost, raced, held>>
  BY DEF OnDisable
<1>2. gsub # NoSub /\ chan # NoName
  BY <1>1 DEF NoSub, GInv, Chan
<1>3. /\ GSubOK' /\ gsub' # NoSub /\ gsub'.had = gsub.had /\ gsub'.marks = gsub.marks /\ gsub'.primed = gsub.primed
  BY <1>1, <1>2 DEF GInv, SubInv, GSubOK, NoSub
<1>4. Keeps("group") /\ Keeps("single") /\ DbOK(db') /\ SameValues(db, db')
  BY <1>1, DisableKeeps, SourcesAre DEF Base
<1>5. SubInv'
  BY <1>1, <1>2, <1>3, <1>4, SubAlike DEF GInv
<1>6. OpOK' /\ op'.k = "idle"
  BY <1>1 DEF OpOK, Idle
<1>7. Snap(db', held) \in snaps' /\ AtomicSeenWhole'
  BY <1>1, SeenSame DEF Observe, Unseen, GInv, SeenInv
<1>8. Base' /\ Chan' /\ OpInv' /\ LastPut' /\ SInv'
  BY <1>1, <1>2, <1>4, <1>6, <1>7, SubStep
<1>9. OpSub'
  BY <1>6 DEF OpSub
<1> QED BY <1>5, <1>7, <1>8, <1>9 DEF GInv, SeenInv

\* Closing the group's subscription, when no callback is under way
LEMMA OnCloseIs ==
    ASSUME Base, GInv, SInv, OnClose, Observe, Unseen, UNCHANGED singleVars
    PROVE  Base' /\ GInv' /\ SInv'
<1>1. /\ gsub.state = "stopped" /\ op = Idle /\ gev = NoEvent /\ db' = Cancel(db, "group") /\ gsub' = NoSub
      /\ UNCHANGED <<phase, groups, chan, op, last, gev, raced, held>>
  BY DEF OnClose
<1>2. gsub # NoSub /\ chan # NoName
  BY <1>1 DEF NoSub, GInv, Chan
<1>3. DbOK(db') /\ SameValues(db, db') /\ Queue(db', "group", {}, {}) /\ SameSource(db, db', "single")
  BY <1>1, CancelIs, SourcesAre DEF Base
<1>4. Keeps("single")
  BY <1>3, SameKeeps
<1>5. OpOK' /\ op'.k = "idle"
  BY <1>1 DEF OpOK, Idle
<1>6. Snap(db', held) \in snaps' /\ AtomicSeenWhole'
  BY <1>1, SeenSame DEF Observe, Unseen, GInv, SeenInv
<1>7. Base' /\ Chan' /\ OpInv' /\ LastPut' /\ SInv'
  BY <1>1, <1>2, <1>3, <1>4, <1>5, <1>6, SubStep
<1>8. SubInv' /\ OpSub'
  BY <1>1, <1>3, <1>5 DEF SubInv, GSubOK, GevOK, GroupQueue, GroupMarks, GroupFirst, OpSub
<1> QED BY <1>6, <1>7, <1>8 DEF GInv, SeenInv

\* A start which meets no callback and finds every event come posts the whole group.
LEMMA StartPostIs ==
    ASSUME Base, GInv, SInv, StartPost, Observe, UNCHANGED <<seen, singleVars>>
    PROVE  Base' /\ GInv' /\ SInv'
<1>1. /\ op.k = "start"
      /\ firstPost' = IF Posts(gsub) /\ ~gsub.primed THEN gsub.marks ELSE firstPost
      /\ gsub' = (IF Primed(gsub) THEN [gsub EXCEPT !.primed = TRUE] ELSE gsub)
      /\ op' = (IF Posts(gsub) THEN [k |-> "unmark"] ELSE Idle)
      /\ raced' = (raced \/ gev # NoEvent)
      /\ UNCHANGED <<phase, groups, chan, last, gev, db, held>>
  BY DEF StartPost, SubscriptionPost
<1>2. gsub # NoSub /\ chan # NoName
  BY <1>1 DEF GInv, OpSub, Chan, Idle
<1>3. /\ gsub.state \in {"stopped", "started"} /\ gsub.primed \in BOOLEAN /\ gsub.options \in BOOLEAN
      /\ gsub = [state |-> gsub.state, primed |-> gsub.primed, options |-> gsub.options, had |-> gsub.had,
                 cur |-> gsub.cur, marks |-> gsub.marks]
  BY <1>2 DEF GInv, SubInv, GSubOK
<1>4. /\ gsub' = [state |-> gsub.state, primed |-> Primed(gsub), options |-> gsub.options, had |-> gsub.had,
                  cur |-> gsub.cur, marks |-> gsub.marks]
      /\ Primed(gsub) <=> gsub.primed \/ AllIds \subseteq gsub.had
      /\ Primed(gsub) \in BOOLEAN
  <2>1. (Primed(gsub) <=> gsub.primed \/ AllIds \subseteq gsub.had) /\ Primed(gsub) \in BOOLEAN
    BY <1>3 DEF Primed
  <2>2. CASE Primed(gsub)
    <3>1. Primed(gsub) = TRUE
      BY <2>1, <2>2
    <3>2. gsub' = [gsub EXCEPT !.primed = TRUE]
      BY <1>1, <2>2
    <3> QED BY <1>3, <2>1, <3>1, <3>2
  <2>3. CASE ~Primed(gsub)
    <3>1. Primed(gsub) = gsub.primed
      BY <1>3, <2>1, <2>3
    <3>2. gsub' = gsub
      BY <1>1, <2>3
    <3> QED BY <1>3, <2>1, <3>1, <3>2
  <2> QED BY <2>2, <2>3
<1>5. /\ GSubOK' /\ gsub' # NoSub /\ gsub'.had = gsub.had /\ gsub'.marks = gsub.marks
      /\ gsub'.primed <=> gsub.primed \/ AllIds \subseteq gsub.had
  <2>1. gsub'.state = gsub.state /\ gsub'.primed = Primed(gsub) /\ gsub'.options = gsub.options
        /\ gsub'.had = gsub.had /\ gsub'.marks = gsub.marks /\ gsub'.cur = gsub.cur
    BY <1>4
  <2> QED BY <1>3, <1>4, <2>1 DEF GSubOK, NoSub
<1>6. /\ UNCHANGED <<Group, Indices, AllIds, FieldIds, Consts>>
      /\ \A id : UNCHANGED <<SubscribeField(id), Covers(id)>>
  BY <1>1, GroupSame
<1>7. GevOK' /\ GroupQueue'
  BY <1>1, <1>2, <1>5, <1>6 DEF GInv, SubInv, GevOK, GroupQueue
<1>8. GroupMarks'
  BY <1>1, <1>2, <1>5, <1>6 DEF GInv, SubInv, GroupMarks, Under
<1>9. ASSUME gsub'.primed, ~raced' PROVE Consts \cup UNION {Covers(id) : id \in FieldIds} \subseteq firstPost'
  <2>1. ~raced /\ gev = NoEvent
    BY <1>1, <1>9
  <2>2. CASE gsub.primed
    BY <1>1, <1>2, <2>1, <2>2 DEF GInv, SubInv, GroupFirst
  <2>3. CASE ~gsub.primed
    <3>1. Posts(gsub) /\ AllIds \subseteq gsub.had
      BY <1>4, <1>5, <1>9, <2>3 DEF Posts
    <3>2. firstPost' = gsub.marks
      BY <1>1, <2>3, <3>1
    <3>3. Consts \subseteq gsub.marks /\ \A id \in gsub.had \cap FieldIds : Covers(id) \subseteq gsub.marks
      BY <1>2, <2>1, <2>3 DEF GInv, SubInv, GroupMarks, Under
    <3>4. FieldIds \subseteq gsub.had
      BY <3>1 DEF FieldIds
    <3> QED BY <3>2, <3>3, <3>4
  <2> QED BY <2>2, <2>3
<1>10. GroupFirst'
  BY <1>6, <1>9 DEF GroupFirst
<1>11. Keeps("single") /\ DbOK(db') /\ SameValues(db, db')
  BY <1>1, SameDb DEF SameValues, Base
<1>12. OpOK' /\ op'.k \in {"unmark", "idle"} /\ (op'.k = "unmark" => Posts(gsub))
  BY <1>1 DEF OpOK, Idle
<1>13. Snap(db', held) \in snaps' /\ AtomicSeenWhole'
  BY <1>1, SeenSame DEF Observe, GInv, SeenInv
<1>14. Base' /\ Chan' /\ OpInv' /\ LastPut' /\ SInv'
  BY <1>1, <1>2, <1>11, <1>12, <1>13, SubStep
<1>15. OpSub'
  BY <1>4, <1>5, <1>12 DEF OpSub, Posts
<1> QED BY <1>5, <1>7, <1>8, <1>10, <1>13, <1>14, <1>15 DEF GInv, SubInv, SeenInv

\* What was posted at the start is unmarked.
LEMMA StartUnmarkIs ==
    ASSUME Base, GInv, SInv, StartUnmark, Observe, UNCHANGED <<seen, singleVars>>
    PROVE  Base' /\ GInv' /\ SInv'
<1>1. /\ op.k = "unmark" /\ gsub' = [gsub EXCEPT !.marks = {}, !.options = FALSE] /\ op' = Idle
      /\ raced' = (raced \/ gev # NoEvent)
      /\ UNCHANGED <<phase, groups, chan, last, gev, firstPost, db, held>>
  BY DEF StartUnmark, Unmark
<1>2. gsub # NoSub /\ gsub.primed /\ chan # NoName
  BY <1>1 DEF GInv, OpSub, Chan, Idle
<1>3. GSubOK' /\ gsub' # NoSub /\ gsub'.had = gsub.had /\ gsub'.primed
  <2>1. /\ gsub.state \in {"stopped", "started"} /\ gsub.primed \in BOOLEAN
        /\ gsub = [state |-> gsub.state, primed |-> gsub.primed, options |-> gsub.options, had |-> gsub.had,
                   cur |-> gsub.cur, marks |-> gsub.marks]
    BY <1>2 DEF GInv, SubInv, GSubOK
  <2>2. gsub' = [state |-> gsub.state, primed |-> gsub.primed, options |-> FALSE, had |-> gsub.had,
                 cur |-> gsub.cur, marks |-> {}]
    BY <1>1, <2>1
  <2>3. gsub'.state = gsub.state /\ gsub'.primed = gsub.primed /\ gsub'.options = FALSE
        /\ gsub'.had = gsub.had /\ gsub'.marks = {} /\ gsub'.cur = gsub.cur
    BY <2>2
  <2> QED BY <1>2, <2>1, <2>2, <2>3 DEF GSubOK, NoSub
<1>4. /\ UNCHANGED <<Group, Indices, AllIds, FieldIds, Consts>>
      /\ \A id : UNCHANGED <<SubscribeField(id), Covers(id)>>
  BY <1>1, GroupSame
<1>5. GevOK' /\ GroupQueue'
  BY <1>1, <1>2, <1>3, <1>4 DEF GInv, SubInv, GevOK, GroupQueue
<1>6. GroupMarks' /\ GroupFirst'
  BY <1>1, <1>2, <1>3, <1>4 DEF GInv, SubInv, GroupMarks, GroupFirst
<1>7. Keeps("single") /\ DbOK(db') /\ SameValues(db, db')
  BY <1>1, SameDb DEF SameValues, Base
<1>8. OpOK' /\ op'.k = "idle"
  BY <1>1 DEF OpOK, Idle
<1>9. Snap(db', held) \in snaps' /\ AtomicSeenWhole'
  BY <1>1, SeenSame DEF Observe, GInv, SeenInv
<1>10. Base' /\ Chan' /\ OpInv' /\ LastPut' /\ SInv'
  BY <1>1, <1>2, <1>7, <1>8, <1>9, SubStep
<1>11. OpSub'
  BY <1>8 DEF OpSub
<1> QED BY <1>3, <1>5, <1>6, <1>9, <1>10, <1>11 DEF GInv, SubInv, SeenInv

\* A callback begins: it is the first of its subscription only with all which that selects.
LEMMA EventBeginIs ==
    ASSUME Base, GInv, SInv, EventBegin, UNCHANGED <<seen, singleVars, snaps>>
    PROVE  Base' /\ GInv' /\ SInv'
<1> DEFINE h == Head(db.evq["group"])
           had == gsub.had \cup {h.id}
<1>1. /\ gev = NoEvent /\ db.evq["group"] # <<>> /\ gev' = [k |-> "event", e |-> h] /\ db' = Popped(db, "group")
      /\ gsub' = [gsub EXCEPT !.had = had]
      /\ UNCHANGED <<phase, groups, chan, op, last, firstPost, raced, held>>
  BY DEF EventBegin, Popped
<1>2. DbOK(db) /\ "group" \in Sources /\ db.evq["group"] # <<>>
  BY <1>1, SourcesAre DEF Base
<1>3. gsub # NoSub
  <2>1. SUFFICES ASSUME gsub = NoSub PROVE FALSE
    OBVIOUS
  <2>2. Queue(db, "group", {}, {})
    BY <2>1 DEF GInv, SubInv, GroupQueue
  <2> HIDE DEF h
  <2>3. Head(db.evq["group"]).id \in {}
    BY ONLY <1>2, <2>2, QueuePop
  <2> QED BY <2>3
<1>4. chan # NoName
  BY <1>3 DEF GInv, Chan
<1>5. Queue(db, "group", FieldIds, gsub.had) /\ \A id \in FieldIds : db.subs[id].select = SubscribeField(id).select
  BY <1>3 DEF GInv, SubInv, GroupQueue
<1>6. /\ Queue(db', "group", FieldIds, had) /\ h \in Events /\ h.id \in FieldIds
      /\ h.id \notin gsub.had => h.mask = db.subs[h.id].select
  BY <1>1, <1>2, <1>5, QueuePop DEF Select
<1>7. DbOK(db') /\ SameValues(db, db') /\ db'.subs = db.subs /\ db'.evq["single"] = db.evq["single"]
  BY <1>1, <1>2, PoppedIs, SourcesAre
<1> HIDE DEF h
<1>8. Keeps("single")
  <2>1. SameSource(db, db', "single")
    BY <1>7 DEF SameSource
  <2> QED BY <2>1, SameKeeps
<1>9. /\ GSubOK' /\ gsub' # NoSub /\ gsub'.had = had /\ gsub'.marks = gsub.marks /\ gsub'.primed = gsub.primed
  <2> HIDE DEF had
  <2> QED BY <1>1, <1>3 DEF GInv, SubInv, GSubOK, NoSub
<1>10. /\ UNCHANGED <<Group, Indices, AllIds, FieldIds, Consts>>
       /\ \A id : UNCHANGED <<SubscribeField(id), Covers(id)>>
  BY <1>1, GroupSame
<1>11. GevOK' /\ gev'.e = h /\ gev' # NoEvent
  BY <1>1, <1>6 DEF GevOK, NoEvent
<1>12. GroupQueue'
  <2>1. h.id \in had
    OBVIOUS
  <2> HIDE DEF had
  <2> QED BY <1>5, <1>6, <1>7, <1>9, <1>10, <1>11, <2>1 DEF GroupQueue
<1>13. GroupMarks'
  <2>1. ASSUME ~gsub.primed, NEW id \in had \cap FieldIds
        PROVE  Covers(id) \subseteq gsub.marks \/ (h.id = id /\ h.mask = SubscribeField(id).select)
    <3>1. CASE id \in gsub.had
      BY <1>1, <1>3, <2>1, <3>1 DEF GInv, SubInv, GroupMarks, Under
    <3>2. CASE id \notin gsub.had
      <4>1. h.id = id
        BY <2>1, <3>2
      <4> QED BY <1>5, <1>6, <3>2, <4>1
    <3> QED BY <3>1, <3>2
  <2>2. ~gsub.primed => AllIds \ FieldIds \subseteq gsub.had /\ Consts \subseteq gsub.marks
    BY <1>3 DEF GInv, SubInv, GroupMarks
  <2>3. gsub.had \subseteq had
    OBVIOUS
  <2> HIDE DEF had
  <2> QED BY <1>9, <1>10, <1>11, <2>1, <2>2, <2>3 DEF GroupMarks, Under
<1>14. GroupFirst'
  BY <1>1, <1>3, <1>9, <1>10 DEF GInv, SubInv, GroupFirst
<1>15. Snap(db', held) \in snaps' /\ AtomicSeenWhole' /\ OpOK'
  <2>1. Snap(db', held) = Snap(db, held)
    BY <1>7, SameSnap DEF SameValues
  <2> QED BY <1>1, <2>1, SeenSame DEF GInv, SeenInv, OpInv, Locked, OpOK
<1>16. Base' /\ Chan' /\ OpInv' /\ LastPut' /\ SInv'
  BY <1>1, <1>4, <1>7, <1>8, <1>15, SubStep
<1>17. OpSub'
  BY <1>1, <1>3, <1>9 DEF GInv, OpSub
<1> QED BY <1>9, <1>11, <1>12, <1>13, <1>14, <1>15, <1>16, <1>17 DEF GInv, SubInv, SeenInv

\* What a callback leaves: the parts its event brings are marked.
LEMMA AfterEventIs ==
    ASSUME Chan, SubInv, gsub # NoSub, chan # NoName, gev # NoEvent
    PROVE  LET s == AfterEvent(gev.e)
           IN  /\ s = [state |-> gsub.state, primed |-> gsub.primed, options |-> gsub.options, had |-> gsub.had,
                       cur |-> s.cur, marks |-> s.marks]
               /\ gsub.marks \subseteq s.marks
               /\ gev.e.mask = SubscribeField(gev.e.id).select => Covers(gev.e.id) \subseteq s.marks
<1> DEFINE e == gev.e
           id == e.id
           f == Group.fields[id.i]
           s == AfterEvent(e)
           refreshed == IF id.kind = "value" THEN f.triggers ELSE {id.i}
           change(i) == IF id.kind = "value" THEN ChangeOf(e, i) ELSE {"property"}
           more == UNION {{<<i, x>> : x \in PartsOf(Group.fields[i].type, change(i))} : i \in refreshed}
           node(i) == IF id.kind = "value" THEN Triggered(e, i, gsub.cur[i]) ELSE Read(gsub.cur[i], f.type, {"property"}, db, f.rec)
           cur == [i \in DOMAIN gsub.cur |-> IF i \in refreshed THEN node(i) ELSE gsub.cur[i]]
<1>1. /\ gsub = [state |-> gsub.state, primed |-> gsub.primed, options |-> gsub.options, had |-> gsub.had,
                 cur |-> gsub.cur, marks |-> gsub.marks]
  BY DEF SubInv, GSubOK
<1>2. s = [gsub EXCEPT !.cur = cur, !.marks = @ \cup more]
  BY DEF AfterEvent
<1> HIDE DEF cur, more, s
<1>3. s = [state |-> gsub.state, primed |-> gsub.primed, options |-> gsub.options, had |-> gsub.had,
           cur |-> cur, marks |-> gsub.marks \cup more]
  BY <1>1, <1>2
<1>4. s.cur = cur /\ s.marks = gsub.marks \cup more
  BY <1>3
<1>5. id \in FieldIds
  BY DEF SubInv, GroupQueue
<1>6. id.kind \in {"value", "property"}
  BY <1>5, FieldIdsAre DEF Kinds
<1>7. ASSUME e.mask = SubscribeField(id).select PROVE Covers(id) \subseteq more
  <2>1. CASE id.kind = "value"
    <3>1. e.mask = ValueMask(f)
      BY <1>7, <2>1 DEF SubscribeField
    <3>2. refreshed = f.triggers
      BY <2>1
    <3>3. ASSUME NEW i \in f.triggers
          PROVE  change(i) = IF i = id.i THEN ValueMask(Group.fields[i]) ELSE {"value", "alarm"}
      BY <2>1, <3>1 DEF ChangeOf
    <3> HIDE DEF change, refreshed
    <3> QED BY <2>1, <3>2, <3>3 DEF Covers, more
  <2>2. CASE id.kind = "property"
    <3>1. refreshed = {id.i} /\ change(id.i) = {"property"}
      BY <2>2
    <3>2. Covers(id) = {<<id.i, x>> : x \in PartsOf(f.type, {"property"})}
      BY <2>2 DEF Covers
    <3> HIDE DEF change, refreshed
    <3> QED BY <3>1, <3>2 DEF more
  <2> QED BY <1>6, <2>1, <2>2
<1> QED BY <1>3, <1>4, <1>7 DEF s

\* A callback reads records which are not locked; when it is the last which was
\* waited for, the first update has everything.
LEMMA EventReadIs ==
    ASSUME Base, GInv, SInv, EventRead, UNCHANGED <<singleVars, snaps>>,
           seen' = IF gev.e.id.kind = "value" THEN [r \in LiveReads(gev.e) |-> db.val[r]] ELSE seen
    PROVE  Base' /\ GInv' /\ SInv'
<1> DEFINE e == gev.e
           id == e.id
           s == AfterEvent(e)
           t == IF Posts(s) THEN [s EXCEPT !.marks = {}, !.options = FALSE] ELSE s
<1>1. /\ gev # NoEvent /\ CanLock(FieldLock(e))
      /\ firstPost' = (IF Posts(s) /\ ~s.primed THEN s.marks ELSE firstPost)
      /\ gsub' = [t EXCEPT !.primed = Primed(s)] /\ gev' = NoEvent /\ raced' = (raced \/ op.k = "unmark")
      /\ UNCHANGED <<phase, groups, chan, op, last, db, held>>
  BY DEF EventRead, SubscriptionPost, Unmark
<1>2. gsub # NoSub /\ chan # NoName
  BY <1>1 DEF GInv, SubInv, GroupQueue, Chan
<1>3. /\ Queue(db, "group", FieldIds, gsub.had) /\ \A x \in FieldIds : db.subs[x].select = SubscribeField(x).select
      /\ id \in FieldIds \cap gsub.had
  BY <1>1, <1>2 DEF GInv, SubInv, GroupQueue
<1>4. /\ s = [state |-> gsub.state, primed |-> gsub.primed, options |-> gsub.options, had |-> gsub.had,
              cur |-> s.cur, marks |-> s.marks]
      /\ gsub.marks \subseteq s.marks
      /\ e.mask = SubscribeField(id).select => Covers(id) \subseteq s.marks
  BY <1>1, <1>2, AfterEventIs DEF GInv
<1>5. gsub.state \in {"stopped", "started"} /\ gsub.primed \in BOOLEAN /\ gsub.options \in BOOLEAN
  BY <1>2 DEF GInv, SubInv, GSubOK
<1> HIDE DEF s
<1>6. /\ s.primed = gsub.primed /\ s.had = gsub.had /\ s.options = gsub.options /\ s.state = gsub.state
      /\ Primed(s) \in BOOLEAN /\ (Primed(s) <=> gsub.primed \/ AllIds \subseteq gsub.had)
      /\ Posts(s) => Primed(s)
  <2>1. s.primed = gsub.primed /\ s.had = gsub.had /\ s.options = gsub.options /\ s.state = gsub.state
    BY <1>4
  <2> QED BY <1>5, <2>1 DEF Primed, Posts
<1>7. gsub' = [state |-> gsub.state, primed |-> Primed(s), options |-> t.options, had |-> gsub.had,
               cur |-> s.cur, marks |-> t.marks]
      /\ t.options \in BOOLEAN /\ t.marks = IF Posts(s) THEN {} ELSE s.marks
  <2>1. CASE Posts(s)
    <3>1. t = [s EXCEPT !.marks = {}, !.options = FALSE]
      BY <2>1
    <3> HIDE DEF t
    <3> DEFINE c == s.cur
               m == s.marks
    <3>0. s = [state |-> gsub.state, primed |-> gsub.primed, options |-> gsub.options, had |-> gsub.had, cur |-> c, marks |-> m]
      BY <1>4
    <3> HIDE DEF c, m
    <3>4. t = [state |-> gsub.state, primed |-> gsub.primed, options |-> FALSE, had |-> gsub.had, cur |-> c, marks |-> {}]
      BY <3>0, <3>1
    <3>2. t = [state |-> gsub.state, primed |-> gsub.primed, options |-> FALSE, had |-> gsub.had, cur |-> s.cur, marks |-> {}]
      BY <3>4 DEF c
    <3>3. t.options = FALSE /\ t.marks = {}
      BY <3>2
    <3> QED BY <1>1, <2>1, <3>2, <3>3
  <2>2. CASE ~Posts(s)
    <3>1. t = s
      BY <2>2
    <3> HIDE DEF t
    <3> QED BY <1>1, <1>4, <1>5, <1>6, <2>2, <3>1
  <2> QED BY <2>1, <2>2
<1> HIDE DEF t
<1>8. /\ GSubOK' /\ gsub' # NoSub /\ gsub'.had = gsub.had /\ gsub'.primed = Primed(s)
      /\ gsub'.marks = IF Posts(s) THEN {} ELSE s.marks
  <2>1. gsub'.state = gsub.state /\ gsub'.primed = Primed(s) /\ gsub'.options = t.options
        /\ gsub'.had = gsub.had /\ gsub'.marks = t.marks /\ gsub'.cur = s.cur
    BY <1>7
  <2> QED BY <1>5, <1>6, <1>7, <2>1 DEF GSubOK, NoSub
<1>9. /\ UNCHANGED <<Group, Indices, AllIds, FieldIds, Consts>>
      /\ \A x : UNCHANGED <<SubscribeField(x), Covers(x)>>
  BY <1>1, GroupSame
<1>10. GevOK' /\ GroupQueue'
  BY <1>1, <1>2, <1>3, <1>8, <1>9 DEF GevOK, GroupQueue
<1>11. ~gsub.primed => /\ AllIds \ FieldIds \subseteq gsub.had
                       /\ Consts \subseteq s.marks
                       /\ \A x \in gsub.had \cap FieldIds : Covers(x) \subseteq s.marks
  BY <1>1, <1>2, <1>4 DEF GInv, SubInv, GroupMarks, Under
<1>12. GroupMarks'
  BY <1>6, <1>8, <1>9, <1>11 DEF GroupMarks
<1>13. ASSUME Primed(s), ~raced' PROVE Consts \cup UNION {Covers(x) : x \in FieldIds} \subseteq firstPost'
  <2>1. ~raced
    BY <1>1, <1>13
  <2>2. CASE gsub.primed
    BY <1>1, <1>2, <1>6, <2>1, <2>2 DEF GInv, SubInv, GroupFirst
  <2>3. CASE ~gsub.primed
    <3>1. Posts(s) /\ AllIds \subseteq gsub.had
      BY <1>6, <1>13, <2>3 DEF Posts
    <3>2. firstPost' = s.marks
      BY <1>1, <1>6, <2>3, <3>1
    <3>3. FieldIds \subseteq gsub.had
      BY <3>1 DEF FieldIds
    <3> QED BY <1>11, <2>3, <3>2, <3>3
  <2> QED BY <2>2, <2>3
<1>14. GroupFirst'
  BY <1>8, <1>9, <1>13 DEF GroupFirst
<1>15. Snap(db, held) \in snaps' /\ OpOK' /\ Snap(db', held) \in snaps'
  BY <1>1 DEF GInv, OpInv, Locked, OpOK
<1>16. AtomicSeenWhole'
  <2>1. CASE id.kind = "value"
    <3>1. id.i \in Indices
      BY <1>2, <1>3, FieldIdsAre DEF GInv
    <3>2. FieldOK(Group, Group.fields[id.i])
      BY <1>2, <3>1, GroupShape DEF GInv
    <3>3. LiveReads(e) \subseteq FieldLock(e) /\ FieldLock(e) \subseteq Records
      BY <2>1, <3>2 DEF LiveReads, FieldLock, FieldOK
    <3>4. FieldLock(e) \cap held = {}
      BY <1>1, <3>3, LockedOut
    <3>5. seen' = [r \in LiveReads(e) |-> db.val[r]]
      BY <2>1
    <3> HIDE DEF e
    <3>6. \A r \in DOMAIN seen' : r \in DOMAIN Snap(db, held) /\ Snap(db, held)[r] = seen'[r]
      BY <3>3, <3>4, <3>5 DEF Snap
    <3> QED BY <1>15, <3>6 DEF AtomicSeenWhole
  <2>2. CASE id.kind # "value"
    BY <2>2, SeenSame DEF GInv, SeenInv
  <2> QED BY <2>1, <2>2
<1>17. Keeps("single") /\ DbOK(db') /\ SameValues(db, db')
  BY <1>1, SameDb DEF SameValues, Base
<1>18. Base' /\ Chan' /\ OpInv' /\ LastPut' /\ SInv'
  BY <1>1, <1>2, <1>15, <1>17, SubStep
<1>19. OpSub'
  BY <1>1, <1>2, <1>6, <1>8 DEF GInv, OpSub
<1> QED BY <1>8, <1>10, <1>12, <1>14, <1>16, <1>18, <1>19 DEF GInv, SubInv, SeenInv

-----------------------------------------------------------------------------
(* Every step, and what it shows.                                          *)

\* Scans and changes of properties
LEMMA EnvironmentIs ==
    ASSUME IInv, Environment
    PROVE  IInv'
<1>1. Observe /\ Unseen /\ UNCHANGED singleVars
  BY DEF Environment
<1>2. ASSUME NEW S \in left.scans, ScanLockSet(S), Spend("scan") PROVE IInv'
  <2>1. S \in SUBSET Records
    BY DEF IInv, Lefts
  <2>2. SInv' /\ GOther
    BY <1>1, <1>2, <2>1, ScanLockSetIs DEF IInv
  <2> QED BY <1>2, <2>2, SpendLeft, GOtherKeeps DEF IInv
<1>3. ASSUME NEW r \in left.props, ChangeProperty(r), Spend("prop") PROVE IInv'
  <2>1. r \in Records
    BY DEF IInv, Lefts
  <2>2. SInv' /\ GOther
    BY <1>1, <1>3, <2>1, ChangePropertyIs DEF IInv
  <2> QED BY <1>3, <2>2, SpendLeft, GOtherKeeps DEF IInv
<1> QED BY <1>2, <1>3 DEF Environment

\* The client's requests to the group
LEMMA RequestIs ==
    ASSUME IInv, Request
    PROVE  IInv'
<1> USE DEF IInv
<1>1. Observe /\ Unseen /\ UNCHANGED singleVars
  BY DEF Request
<1>2. ASSUME NEW atomic \in BOOLEAN, OnGet(atomic), Spend("get") PROVE IInv'
  <2>1. Base' /\ GInv' /\ db' = db
    BY <1>1, <1>2, OnGetIs
  <2> QED BY <1>1, <1>2, <2>1, SpendLeft, SingleStays
<1>3. ASSUME NEW atomic \in BOOLEAN, NEW force, NEW marked, OnPut(atomic, force, marked), Spend("put") PROVE IInv'
  <2>1. Base' /\ GInv' /\ db' = db
    BY <1>1, <1>3, OnPutIs
  <2> QED BY <1>1, <1>3, <2>1, SpendLeft, SingleStays
<1>4. ASSUME OnSubscribe, Spend("sub") PROVE IInv'
  BY <1>1, <1>4, SpendLeft, OnSubscribeIs
<1>5. ASSUME OnStart, Spend("start") PROVE IInv'
  BY <1>1, <1>5, SpendLeft, OnStartIs
<1>6. ASSUME OnDisable, Spend("stop") PROVE IInv'
  BY <1>1, <1>6, SpendLeft, OnDisableIs
<1>7. ASSUME OnClose, UNCHANGED left PROVE IInv'
  BY <1>1, <1>7, OnCloseIs DEF Lefts
<1> QED BY <1>2, <1>3, <1>4, <1>5, <1>6, <1>7 DEF Request

\* What the worker does of them
LEMMA WorkerIs ==
    ASSUME IInv, Worker
    PROVE  IInv'
<1> USE DEF IInv
<1>1. Observe /\ UNCHANGED <<singleVars, left>>
  BY DEF Worker
<1>2. Lefts'
  BY <1>1 DEF Lefts
<1>3. ASSUME GetField, UNCHANGED seen PROVE IInv'
  <2>1. Base' /\ GInv' /\ db' = db
    BY <1>1, <1>3, GetFieldIs
  <2> QED BY <1>1, <1>2, <2>1, SingleStays
<1>4. ASSUME GetReply,
             seen' = IF op.atomic
                     THEN [r \in {Group.fields[i].rec : i \in {i \in DOMAIN op.acc : HasRec(Group.fields[i]) /\ Group.fields[i].type # "meta"}} |->
                             op.acc[CHOOSE i \in DOMAIN op.acc : Group.fields[i].rec = r /\ Group.fields[i].type # "meta"].value]
                     ELSE seen
      PROVE  IInv'
  <2>1. Base' /\ GInv' /\ db' = db
    BY <1>1, <1>4, GetReplyIs
  <2> QED BY <1>1, <1>2, <2>1, SingleStays
<1>5. ASSUME PutField, UNCHANGED seen PROVE IInv'
  BY <1>1, <1>2, <1>5, PutFieldIs
<1>6. ASSUME PutReply, UNCHANGED seen PROVE IInv'
  <2>1. Base' /\ GInv' /\ db' = db
    BY <1>1, <1>6, PutReplyIs
  <2> QED BY <1>1, <1>2, <2>1, SingleStays
<1>7. ASSUME EnableField, UNCHANGED seen PROVE IInv'
  BY <1>1, <1>2, <1>7, EnableFieldIs
<1>8. ASSUME StartPost, UNCHANGED seen PROVE IInv'
  BY <1>1, <1>2, <1>8, StartPostIs
<1>9. ASSUME StartUnmark, UNCHANGED seen PROVE IInv'
  BY <1>1, <1>2, <1>9, StartUnmarkIs
<1> QED BY <1>3, <1>4, <1>5, <1>6, <1>7, <1>8, <1>9 DEF Worker

\* The callbacks of the group source
LEMMA GroupEventsIs ==
    ASSUME IInv, GroupEvents
    PROVE  IInv'
<1> USE DEF IInv
<1>1. UNCHANGED <<singleVars, snaps, left>>
  BY DEF GroupEvents
<1>2. Lefts'
  BY <1>1 DEF Lefts
<1>3. ASSUME EventBegin, UNCHANGED seen PROVE IInv'
  BY <1>1, <1>2, <1>3, EventBeginIs
<1>4. ASSUME EventRead, seen' = IF gev.e.id.kind = "value" THEN [r \in LiveReads(gev.e) |-> db.val[r]] ELSE seen
      PROVE  IInv'
  BY <1>1, <1>2, <1>4, EventReadIs
<1> QED BY <1>3, <1>4 DEF GroupEvents

\* The client's requests to the record
LEMMA SingleRequestIs ==
    ASSUME IInv, SingleRequest
    PROVE  IInv'
<1> USE DEF IInv
<1>1. Observe /\ Unseen /\ UNCHANGED groupVars
  BY DEF SingleRequest
<1>2. ASSUME SInv' /\ GOther, NEW w, w \notin {"scans", "props"}, Spend(w) \/ UNCHANGED left PROVE IInv'
  <2>1. Lefts'
    BY <1>2, SpendLeft DEF Lefts
  <2> QED BY <1>2, <2>1, GOtherKeeps
<1>3. ASSUME NEW block \in BOOLEAN, NEW force, NEW marked \in BOOLEAN, SinglePut(block, force, marked), Spend("sput") PROVE IInv'
  <2>1. SInv' /\ GOther
    BY <1>1, <1>3, SinglePutIs
  <2> QED BY <1>2, <1>3, <2>1
<1>4. ASSUME SingleGet, Spend("sget") PROVE IInv'
  <2>1. SInv' /\ GOther
    BY <1>1, <1>4, SingleGetIs
  <2> QED BY <1>2, <1>4, <2>1
<1>5. ASSUME NEW dbe, SingleSubscribe(dbe), Spend("ssub") PROVE IInv'
  <2>1. SInv' /\ GOther
    BY <1>1, <1>5, SingleSubscribeIs
  <2> QED BY <1>2, <1>5, <2>1
<1>6. ASSUME NEW start \in BOOLEAN, NEW w, w \in {"sstart", "sstop"}, SingleStart(start), Spend(w) PROVE IInv'
  <2>1. SInv' /\ GOther
    BY <1>1, <1>6, SingleStartIs
  <2>2. w \notin {"scans", "props"}
    BY <1>6
  <2> QED BY <1>2, <1>6, <2>1, <2>2
<1>7. ASSUME SingleClose, UNCHANGED left PROVE IInv'
  <2>1. SInv' /\ GOther
    BY <1>1, <1>7, SingleCloseIs
  <2>2. "get" \notin {"scans", "props"}
    OBVIOUS
  <2> QED BY <1>2, <1>7, <2>1, <2>2
<1> QED BY <1>3, <1>4, <1>5, <1>6, <1>7 DEF SingleRequest

\* The invariant holds at the start.
LEMMA InitIs ==
    ASSUME Init
    PROVE  IInv
<1> USE DEF Init, InitDb, InitGroup, InitSingle
<1>1. Lefts /\ srec \in Records
  BY BudgetsAssumption DEF Lefts
<1>2. /\ db = [val |-> [r \in Records |-> 0], prop |-> [r \in Records |-> 0], posted |-> [r \in Records |-> 0],
               pact |-> {}, rpro |-> {}, subs |-> <<>>, evq |-> [s \in Sources |-> <<>>]]
      /\ held = {}
  OBVIOUS
<1>3. IsFiniteSet({}) /\ <<>> \in Seq(Events) /\ DOMAIN <<>> = {}
  BY FS_EmptySet
<1>4. DbOK(db)
  BY <1>2, <1>3 DEF DbOK
<1>5. \A s \in Sources : Queue(db, s, {}, {})
  BY <1>2, <1>3 DEF Queue
<1>6. Chan
  <2>1. DOMAIN groups = {} /\ chan = NoName /\ last.k = "none"
    BY <1>3 DEF NoReply
  <2> QED BY <2>1 DEF Chan
<1>7. OpInv /\ OpSub
  <2>1. op.k = "idle" /\ op = Idle
    BY DEF Idle
  <2>2. Snap(db, held) \in snaps
    BY <1>2 DEF Snap
  <2> QED BY <1>2, <2>1, <2>2 DEF OpInv, OpOK, Locked, PutSoFar, OpSub
<1>8. SubInv
  BY <1>5, SourcesAre DEF SubInv, GSubOK, GevOK, GroupQueue, GroupMarks, GroupFirst
<1>9. SeenInv
  <2>1. DOMAIN seen = {} /\ last.k = "none" /\ snaps # {}
    BY <1>3 DEF NoReply
  <2> QED BY <2>1 DEF SeenInv, AtomicSeenWhole, LastPut
<1>10. SInv
  <2>1. sreply.k = "none" /\ notify.state = "none" /\ ssub = NoSingleSub /\ notify = NoNotify
    BY DEF NoNotify
  <2> QED BY <1>1, <1>5, <2>1, SourcesAre DEF SInv, SSubOK, NotifyOK, SingleQueue, Waiting, SingleMarks, WaitReply
<1> QED BY <1>1, <1>2, <1>4, <1>6, <1>7, <1>8, <1>9, <1>10 DEF IInv, GInv, Base

\* It stays when nothing happens.
LEMMA StutterIs ==
    ASSUME IInv, UNCHANGED vars
    PROVE  IInv'
<1> USE DEF IInv
<1>1. UNCHANGED <<groupVars, singleVars, db, held, snaps, seen, left>>
  BY DEF vars
<1>2. GOther
  BY <1>1, SameDb DEF GOther, Base, GInv, OpInv, Locked
<1>3. Base' /\ GInv'
  BY <1>2, GOtherKeeps
<1>4. SInv' /\ Lefts'
  BY <1>1, SingleStays DEF Lefts
<1> QED BY <1>3, <1>4

\* Every step keeps the invariant.
LEMMA NextKeeps ==
    ASSUME IInv, [Next]_vars
    PROVE  IInv'
<1>1. ASSUME Completion PROVE IInv'
  <2>1. PICK r \in Async : AsyncComplete(r)
    BY <1>1 DEF Completion
  <2>2. Observe /\ Unseen /\ UNCHANGED <<groupVars, left>>
    BY <1>1 DEF Completion
  <2>3. SInv' /\ GOther
    BY <2>1, <2>2, AsyncCompleteIs DEF IInv
  <2> QED BY <2>2, <2>3, GOtherKeeps DEF IInv, Lefts
<1>2. ASSUME SingleEvents PROVE IInv'
  <2>1. SingleEvent /\ Unseen /\ UNCHANGED <<groupVars, snaps, left>>
    BY <1>2 DEF SingleEvents
  <2>2. Snap(db, held) \in snaps
    BY DEF IInv, GInv, OpInv, Locked
  <2>3. SInv' /\ GOther
    BY <2>1, <2>2, SingleEventIs DEF IInv
  <2> QED BY <2>1, <2>3, GOtherKeeps DEF IInv, Lefts
<1>3. ASSUME Notified PROVE IInv'
  <2>1. NotifyRestart /\ Observe /\ Unseen /\ UNCHANGED <<groupVars, left>>
    BY <1>3 DEF Notified
  <2>2. SInv' /\ GOther
    BY <2>1, NotifyRestartIs DEF IInv
  <2> QED BY <2>1, <2>2, GOtherKeeps DEF IInv, Lefts
<1> QED BY <1>1, <1>2, <1>3, ConfigurationIs, EnvironmentIs, RequestIs, WorkerIs, GroupEventsIs, SingleRequestIs, StutterIs DEF Next

\* What the invariant says of the first update is FirstIsWhole: each part of a
\* field is brought by the first event of a field which refreshes it.
LEMMA FirstWhole ==
    ASSUME IInv
    PROVE  FirstIsWhole
<1>1. ASSUME gsub # NoSub, ~raced, gsub.primed, NEW i \in Indices,
             NEW x \in TypeParts(Group.fields[i].type),
             x = "prop" \/ Group.fields[i].type = "const" \/ RefreshedBySome(i)
      PROVE  <<i, x>> \in firstPost
  <2> DEFINE f == Group.fields[i]
  <2>1. chan # NoName /\ Chan
    BY <1>1 DEF IInv, GInv, Chan
  <2>2. Consts \subseteq firstPost /\ \A id \in FieldIds : Covers(id) \subseteq firstPost
    BY <1>1 DEF IInv, GInv, SubInv, GroupFirst
  <2>3. /\ i \in Indices /\ \A j \in Indices : FieldOK(Group, Group.fields[j])
    BY <1>1, <2>1, GroupShape
  <2>4. CASE f.type = "const"
    <3>1. x = "value"
      BY <1>1, <2>4 DEF TypeParts, PartsOf
    <3> QED BY <2>2, <2>3, <2>4, <3>1 DEF Consts
  <2>5. CASE f.type # "const" /\ x = "prop"
    <3> DEFINE id == GroupId(i, "property")
    <3>1. f.type = "scalar"
      BY <1>1, <2>5 DEF TypeParts, PartsOf
    <3>2. HasRec(f)
      BY <2>3, <3>1 DEF FieldOK, HasRec
    <3>3. id.i = i /\ id.kind = "property" /\ id \in AllIds
      BY <2>3 DEF GroupId, AllIds
    <3> HIDE DEF id
    <3>4. id \in FieldIds
      BY <3>1, <3>2, <3>3 DEF FieldIds, NothingToWaitFor, HasProperties
    <3>5. "prop" \in PartsOf(f.type, {"property"})
      BY <3>1 DEF PartsOf
    <3>6. <<i, x>> \in Covers(id)
      BY <2>5, <3>3, <3>5 DEF Covers
    <3> QED BY <2>2, <3>4, <3>6
  <2>6. CASE f.type # "const" /\ x # "prop"
    <3>1. PICK j \in Indices : i \in Group.fields[j].triggers
      BY <1>1, <2>6 DEF RefreshedBySome
    <3> DEFINE id == GroupId(j, "value")
               change == IF i = j THEN ValueMask(f) ELSE {"value", "alarm"}
    <3>2. HasRec(Group.fields[j])
      BY <2>3, <3>1 DEF FieldOK, Mapped, HasRec
    <3>3. id.i = j /\ id.kind = "value" /\ id \in AllIds
      BY <3>1 DEF GroupId, AllIds
    <3> HIDE DEF id
    <3>4. id \in FieldIds
      BY <3>2, <3>3 DEF FieldIds, NothingToWaitFor
    <3>5. /\ (x = "alarm" /\ f.type \in {"scalar", "meta"}) \/ (x = "value" /\ f.type # "meta")
          /\ f.type \notin {"proc", "structure"}
      <4> HIDE DEF f
      <4> QED BY <1>1, <2>6 DEF TypeParts, PartsOf, Everything, f
    <3>6. ("alarm" \in change) /\ (f.type # "meta" => "value" \in change)
      BY DEF ValueMask
    <3> HIDE DEF change
    <3>7. x \in PartsOf(f.type, change)
      BY <2>6, <3>5, <3>6 DEF PartsOf
    <3>8. <<i, x>> \in Covers(id)
      BY <3>1, <3>3, <3>7 DEF Covers, change
    <3> QED BY <2>2, <3>4, <3>8
  <2> QED BY <2>4, <2>5, <2>6
<1>2. ASSUME ssub # NoSingleSub, SingleIds \subseteq ssub.had
      PROVE  sfirst = {"value", "prop"} \cup (ssub.select \cap {"alarm"})
  BY <1>2 DEF IInv, SInv, SingleMarks, BothHad, SingleParts
<1> QED BY <1>1, <1>2 DEF FirstIsWhole

\* The invariant holds in every state.
THEOREM QsrvInvariant == Spec => []IInv
<1>1. Init => IInv
  BY InitIs
<1>2. IInv /\ [Next]_vars => IInv'
  BY NextKeeps
<1> QED BY <1>1, <1>2, PTL DEF Spec

\* What an atomic get returns, or one callback reads of other fields, was true of
\* all these records at one moment (groupsource.cpp takes the locks of a whole
\* group, or of the fields an event refreshes, before it reads).
THEOREM AtomicSeenWholeAlways == Spec => []AtomicSeenWhole
<1>1. IInv => AtomicSeenWhole
  BY DEF IInv, GInv, SeenInv
<1> QED BY <1>1, QsrvInvariant, PTL

\* A put writes the marked fields with a +putorder in that order, up to the first
\* which may not be written, and says whether it wrote them all; a put which waits
\* is answered when the record was processed with its value (onPutGroup(),
\* putGroupField(), dbProcessNotify()).
THEOREM PutRepliedAlways == Spec => []PutReplied
<1>1. IInv => PutReplied
  <2>1. IInv => LastPut /\ WaitReply
    BY DEF IInv, GInv, SeenInv, SInv
  <2>2. LastPut /\ WaitReply => PutReplied
    BY DEF LastPut, WaitReply, PutReplied, WantOf
  <2> QED BY <2>1, <2>2
<1> QED BY <1>1, QsrvInvariant, PTL

\* The first update of a group's or of a single record's subscription has every part
\* of every field (eventsPrimed, hadValueEvent and hadPropertyEvent).
THEOREM FirstIsWholeAlways == Spec => []FirstIsWhole
<1>1. IInv => FirstIsWhole
  BY FirstWhole
<1> QED BY <1>1, QsrvInvariant, PTL
=============================================================================
