------------------------------- MODULE PvaLink -------------------------------
(***************************************************************************)
(* Database links to one PV which share a channel (struct pvaLinkChannel). *)
(* The threads: the client worker, which queues updates and runs the       *)
(* callbacks of puts; the worker of linkGlobal, which takes updates and    *)
(* processes the records of CP links; and the threads which process        *)
(* records, read input links and write output links.  A channel's lock is  *)
(* held for the whole of each action, and record locks are in "locked".    *)
(* A record has the name of its link.                                      *)
(***************************************************************************)
EXTENDS LinkConfig, TLC

CONSTANTS
  Text,       \* link -> the items of its JSON text
  Type,       \* link -> the type of its field: INLINK, OUTLINK or FWDLINK
  LinkOrder,  \* the links as a sequence, in the order of their addresses
  WriteSeq,   \* the output links, in the order in which a chain of records writes
  AtStart,    \* the links attached by iocInit(); the others come and go
  Passive,    \* the records with SCAN=Passive
  Async,      \* the records which complete asynchronously
  Severity,   \* the severity of each value of the PV: value -> 0..3
  Budgets     \* bounds: sets of [upd, loss, link, put, fwd, stop, wait]

VARIABLES
  up, rval,                    \* the PV: reachable, its value
  mon,                         \* op_mon: [open, q, needNotify]
  queue,                       \* linkGlobal->queue
  root, connected,             \* cache of the channel
  links, links_changed, atomic_records, nonatomic_records,
  pc, todo, locked,            \* the worker of linkGlobal
  rec,                         \* the records of input links
  once,                        \* records queued by scanOnce()
  scratch, pend,               \* put_scratch, put_queue of the output links; None: not used
  op_put, ops,                 \* the current put; every put not destroyed: id -> [st, cancel]
  net,                         \* puts on their way to the PV: <<id, values>>
  after_put, pact,             \* records which wait for a put, and which are active
  got,                         \* what the PV has received for each output link
  chain, turn, cut, notActive, \* the writer, and history for the properties
  bud                          \* what is left of the bounds

inVars == <<root, connected, links, links_changed, atomic_records, nonatomic_records>>
outVars == <<scratch, pend, op_put, ops, after_put>>
wrVars == <<chain, turn, cut, notActive>>
vars == <<up, rval, mon, queue, inVars, pc, todo, locked, rec, once, outVars, net, pact, got, wrVars, bud>>

None == -1
Gone == -2                             \* the Disconnect exception in the queue of updates
Config == [l \in DOMAIN Text |-> Parse(Text[l])]

\* the links of this module are those which pvaOpenLink gives one channel
ASSUME OneChannel == \A l, m \in DOMAIN Text : ChannelKey(Config[l]) = ChannelKey(Config[m])


Of(t) == {l \in DOMAIN Type : Type[l] = t}
Outs == Of("OUTLINK")

ASSUME LinksAssumption ==
  /\ AtStart \subseteq DOMAIN Type
  /\ WriteSeq \in Seq(Outs)
  /\ \A l \in Outs : \E i \in 1..Len(WriteSeq) : WriteSeq[i] = l
  /\ \A i, j \in 1..Len(WriteSeq) : WriteSeq[i] = WriteSeq[j] => i = j

Queued(l) == \E i \in 1..Len(queue) : queue[i] = l
QSize == Config[LinkOrder[1]].queueSize

\* LinkSort: by monorder, then by address
Before(a, b) ==
  LET at(l) == CHOOSE i \in 1..Len(LinkOrder) : LinkOrder[i] = l
  IN \/ Config[a].monorder < Config[b].monorder
     \/ Config[a].monorder = Config[b].monorder /\ at(a) < at(b)

Spend(k) == bud[k] > 0 /\ bud' = [bud EXCEPT ![k] = @ - 1]
----------------------------------------------------------------------------
(* The subscription, and how it wakes the worker: open(), the client.      *)

Push(e) ==
  LET n == Len(mon.q)
      full == n >= QSize /\ e # Gone /\ mon.q[n] # Gone
  IN /\ mon' = [mon EXCEPT !.q = IF full THEN [@ EXCEPT ![n] = e] ELSE Append(@, e), !.needNotify = FALSE]
     /\ queue' = IF mon.needNotify THEN Append(queue, "chan") ELSE queue

\* linkGlobal_t::init: from here channels are open
Init_ ==
  /\ ~mon.open
  /\ IF up
     THEN /\ queue' = Append(queue, "chan")
          /\ mon' = [open |-> TRUE, q |-> <<rval>>, needNotify |-> FALSE]
     ELSE queue' = queue /\ mon' = [mon EXCEPT !.open = TRUE]
  /\ UNCHANGED <<up, rval, inVars, pc, todo, locked, rec, once, outVars, net, pact, got, wrVars, bud>>

\* linkGlobal_t::close, as iocShutdown() calls it
Close ==
  /\ mon.open /\ ~Queued("null") /\ pc # "exited"
  /\ Spend("stop")
  /\ queue' = Append(queue, "null")
  /\ UNCHANGED <<up, rval, mon, inVars, pc, todo, locked, rec, once, outVars, net, pact, got, wrVars>>

Update ==
  /\ Spend("upd") /\ rval' = rval + 1
  /\ IF up /\ mon.open THEN Push(rval') ELSE UNCHANGED <<mon, queue>>
  /\ UNCHANGED <<up, inVars, pc, todo, locked, rec, once, outVars, net, pact, got, wrVars>>

Connect ==
  /\ ~up /\ up' = TRUE
  /\ IF mon.open THEN Push(rval) ELSE UNCHANGED <<mon, queue>>
  /\ UNCHANGED <<rval, inVars, pc, todo, locked, rec, once, outVars, net, pact, got, wrVars, bud>>

\* puts which wait for their reply fail; those not yet sent wait for the next connection
Lose ==
  /\ up /\ Spend("loss") /\ up' = FALSE
  /\ IF mon.open THEN Push(Gone) ELSE UNCHANGED <<mon, queue>>
  /\ ops' = [i \in DOMAIN ops |-> IF ops[i].st = "wait" THEN ops[i] ELSE [ops[i] EXCEPT !.st = "failed"]]
  /\ net' = <<>> /\ cut' = chain
  /\ UNCHANGED <<rval, inVars, pc, todo, locked, rec, once, scratch, pend, op_put, after_put, pact, got, chain, turn, notActive>>
----------------------------------------------------------------------------
(* pvaLinkChannel::run and the records of its CP links.                    *)

\* pvaGetValue for record r, which has r as its input link
GetValue(r) ==
  IF r \notin links THEN rec[r]
  ELSE IF connected THEN [rec[r] EXCEPT !.val = root, !.sevr = PassedOn(Config[r], Severity[root])]
  ELSE [rec[r] EXCEPT !.sevr = 3]

\* dbProcess of a record which is not active
Processed(r) == [GetValue(r) EXCEPT !.pact = r \in Async]

\* scanOnUpdate() of link l, which is evaluated when the list of records is made
Scanned(l) == ScanOnUpdate(Type[l], Config[l])

\* a mutant forgets an update which finds the record active
ScanNoRpro(r) ==
  IF (Scanned(r) = "passive" /\ r \notin Passive) \/ rec[r].pact THEN rec[r] ELSE Processed(r)

\* ScanTrack::scan of record r, with check_passive if its link has proc:CPP
Scan(r) ==
  IF Scanned(r) = "passive" /\ r \notin Passive THEN rec[r]
  ELSE IF rec[r].pact THEN [rec[r] EXCEPT !.rpro = TRUE]
  ELSE Processed(r)

\* a mutant takes every link for one which is not atomic
TracksApart(ls, atomic) == {l \in ls : ~atomic /\ Scanned(l) # "no"}

\* the records to process on an update, of the links of ls that are (not) atomic
Tracks(ls, atomic) == {l \in ls : Scanned(l) # "no" /\ (Config[l].atomic <=> atomic)}

\* a put which is reset is cancelled later, by the client worker
Reset(os, id) == IF id \in DOMAIN os THEN [os EXCEPT ![id].cancel = TRUE] ELSE os

Popped(v) ==
  CASE v = Gone ->
         /\ connected' = FALSE /\ ops' = Reset(ops, op_put) /\ op_put' = 0
         /\ scratch' = [l \in Outs |-> IF l \in links THEN None ELSE scratch[l]]
         /\ pend' = [l \in Outs |-> IF l \in links THEN None ELSE pend[l]]
         /\ cut' = chain
         /\ UNCHANGED root
    [] OTHER -> connected' = TRUE /\ root' = v /\ UNCHANGED <<ops, op_put, scratch, pend, cut>>

\* the worker takes "chan": the part of run() which holds the channel's lock
RunPop ==
  /\ pc = "idle" /\ queue # <<>> /\ Head(queue) = "chan"
  /\ IF mon.q = <<>>
     THEN /\ mon' = [mon EXCEPT !.needNotify = TRUE]
          /\ pc' = IF Queued("null") THEN "exited" ELSE "idle"
          /\ queue' = Tail(queue)
          /\ UNCHANGED <<inVars, outVars, todo, locked, cut>>
     ELSE /\ mon' = [mon EXCEPT !.q = Tail(@)]
          /\ Popped(Head(mon.q))
          /\ IF links_changed
             THEN /\ atomic_records' = Tracks(links, TRUE) /\ nonatomic_records' = Tracks(links, FALSE)
             ELSE UNCHANGED <<atomic_records, nonatomic_records>>
          /\ links_changed' = FALSE
          /\ pc' = "atomic" /\ todo' = atomic_records'
          /\ locked' = {} /\ queue' = Tail(queue)
          /\ UNCHANGED <<links, after_put>>
  /\ UNCHANGED <<up, rval, rec, once, net, pact, got, chain, turn, notActive, bud>>

\* one turn of a loop over the records, which are in the order of their links
ScanNext ==
  \E r \in todo :
    /\ \A other \in todo \ {r} : Before(r, other)
    /\ rec' = [rec EXCEPT ![r] = Scan(r)]
    /\ todo' = todo \ {r}

\* DBManyLocker of all atomic records, one of which is processed
ScanAtomic ==
  /\ pc = "atomic" /\ locked' = atomic_records
  /\ ScanNext
  /\ UNCHANGED <<up, rval, mon, queue, inVars, pc, once, outVars, net, pact, got, wrVars, bud>>

UnlockAtomic ==
  /\ pc = "atomic" /\ todo = {}
  /\ locked' = {} /\ pc' = "nonatomic" /\ todo' = nonatomic_records
  /\ UNCHANGED <<up, rval, mon, queue, inVars, rec, once, outVars, net, pact, got, wrVars, bud>>

ScanNonAtomic ==
  /\ pc = "nonatomic" /\ ScanNext
  /\ UNCHANGED <<up, rval, mon, queue, inVars, pc, locked, once, outVars, net, pact, got, wrVars, bud>>

\* run() queues itself until it finds no more updates; the worker looks at
\* workerStop after each item
RunDone ==
  /\ pc = "nonatomic" /\ todo = {}
  /\ queue' = Append(queue, "chan")
  /\ pc' = IF Queued("null") THEN "exited" ELSE "idle"
  /\ UNCHANGED <<up, rval, mon, inVars, todo, locked, rec, once, outVars, net, pact, got, wrVars, bud>>

\* the entry which only wakes the worker
RunNull ==
  /\ pc = "idle" /\ queue # <<>> /\ Head(queue) = "null"
  /\ pc' = "exited" /\ queue' = Tail(queue)
  /\ UNCHANGED <<up, rval, mon, inVars, todo, locked, rec, once, outVars, net, pact, got, wrVars, bud>>

\* the thread of scanOnce(): dbProcess, which does nothing to an active record
ScanOnce(r) ==
  /\ r \in once \ locked /\ once' = once \ {r}
  /\ rec' = [rec EXCEPT ![r] = IF @.pact THEN @ ELSE Processed(r)]
  /\ UNCHANGED <<up, rval, mon, queue, inVars, pc, todo, locked, outVars, net, pact, got, wrVars, bud>>

\* an asynchronous record completes, and is processed again if rpro is set
Complete(r) ==
  /\ rec[r].pact /\ r \notin locked
  /\ rec' = [rec EXCEPT ![r].pact = FALSE, ![r].rpro = FALSE]
  /\ once' = IF rec[r].rpro THEN once \cup {r} ELSE once
  /\ UNCHANGED <<up, rval, mon, queue, inVars, pc, todo, locked, outVars, net, pact, got, wrVars, bud>>

\* pvaOpenLink, which finds the channel; the record is not active
PvaOpenLink(l) ==
  /\ l \notin links /\ Type[l] = "INLINK" /\ ~rec[l].pact /\ l \notin locked
  /\ Spend("link")
  /\ links' = links \cup {l} /\ links_changed' = TRUE
  /\ once' = IF connected /\ (Scanned(l) = "yes" \/ (Scanned(l) = "passive" /\ l \in Passive)) THEN once \cup {l} ELSE once
  /\ UNCHANGED <<up, rval, mon, queue, root, connected, atomic_records, nonatomic_records, pc, todo, locked, rec,
                 outVars, net, pact, got, wrVars>>

\* pvaRemoveLink and ~pvaLink
PvaRemoveLink(l) ==
  /\ l \in links \ AtStart /\ l \notin locked
  /\ links' = links \ {l} /\ links_changed' = TRUE
  /\ UNCHANGED <<up, rval, mon, queue, root, connected, atomic_records, nonatomic_records, pc, todo, locked, rec, once,
                 outVars, net, pact, got, wrVars, bud>>
----------------------------------------------------------------------------
(* Output links.  put() under the channel's lock, from the scratch values  *)
(* sc: every value written goes into the next put, which replaces op_put.  *)

\* an identifier for a new put, not one of a put still on its way
Started(os) ==
  LET used == DOMAIN os \cup {net[k][1] : k \in 1..Len(net)}
  IN CHOOSE i \in 1..(Cardinality(used) + 1) : i \notin used /\ \A j \in 1..(i - 1) : j \in used

\* a mutant moves the value of one link only
MovedOne(sc, q) ==
  LET used == {l \in Outs : sc[l] # None}
      last == CHOOSE l \in used : \A k \in used : Config[k].monorder =< Config[l].monorder
  IN [l \in Outs |-> IF used # {} /\ l = last THEN sc[l] ELSE q[l]]

Moved(sc, q) == [l \in Outs |-> IF sc[l] # None THEN sc[l] ELSE q[l]]

Put(sc, os, old, force) ==
  /\ scratch' = [l \in Outs |-> None]
  /\ pend' = Moved(sc, pend)
  /\ IF force \/ \E l \in Outs : sc[l] # None
     THEN LET id == Started(os)
          IN op_put' = id /\ ops' = (id :> [st |-> "wait", cancel |-> FALSE]) @@ Reset(os, old)
     ELSE op_put' = old /\ ops' = os

Valid == connected

\* pvaPutValueX: v is the value written, wait is set by pvaPutValueAsync
PutValue(l, v, wait) ==
  /\ after_put' = IF wait THEN after_put \cup {l} ELSE after_put
  /\ IF Config[l].defer THEN scratch' = [scratch EXCEPT ![l] = v] /\ UNCHANGED <<pend, op_put, ops>>
     ELSE Put([scratch EXCEPT ![l] = v], ops, op_put, FALSE)

CanWrite(l) == Config[l].retry \/ Valid

\* a chain of records: each in turn writes the number of the run through its link
Write(l, wait) ==
  /\ mon.open /\ WriteSeq[turn] = l /\ l \notin pact
  /\ (turn > 1 \/ bud.put > 0)
  /\ bud' = IF turn = 1 THEN [bud EXCEPT !.put = @ - 1] ELSE bud
  /\ wait => bud.wait /\ ~Config[l].defer
  /\ chain' = IF turn = 1 THEN chain + 1 ELSE chain
  /\ turn' = (turn % Len(WriteSeq)) + 1
  /\ IF CanWrite(l) THEN PutValue(l, chain', wait) /\ pact' = (IF wait THEN pact \cup {l} ELSE pact) /\ cut' = cut
     ELSE UNCHANGED <<outVars, pact>> /\ cut' = chain'
  /\ UNCHANGED <<up, rval, mon, queue, inVars, pc, todo, locked, rec, once, net, got, notActive>>

\* pvaScanForward: a put even without a value
ScanForward(l) ==
  /\ Type[l] = "FWDLINK" /\ mon.open /\ Spend("fwd") /\ CanWrite(l)
  /\ Put(scratch, ops, op_put, TRUE)
  /\ UNCHANGED <<up, rval, mon, queue, inVars, pc, todo, locked, rec, once, after_put, net, pact, got, wrVars>>

\* linkBuildPut, called by the client once it knows the type of the PV
Sent(q) == [l \in {x \in Outs : q[x] # None} |-> q[l]]

BuildPut(id) ==
  /\ up /\ ops[id].st = "wait"
  /\ ops' = [ops EXCEPT ![id].st = "exec"]
  /\ net' = Append(net, <<id, Sent(pend)>>)
  /\ pend' = [l \in Outs |-> None]
  /\ UNCHANGED <<up, rval, mon, queue, inVars, pc, todo, locked, rec, once, scratch, op_put, after_put, pact, got, wrVars, bud>>

\* a put changes the fields which it has
Stored(f, old) == [l \in Outs |-> IF l \in DOMAIN f THEN f[l] ELSE old[l]]

\* the PV takes a put; its reply follows if the client still knows the operation
Receive ==
  /\ net # <<>> /\ net' = Tail(net)
  /\ got' = Stored(Head(net)[2], got)
  /\ ops' = [i \in DOMAIN ops |-> IF i = Head(net)[1] /\ ops[i].st = "exec" THEN [ops[i] EXCEPT !.st = "ok"] ELSE ops[i]]
  /\ UNCHANGED <<up, rval, mon, queue, inVars, pc, todo, locked, rec, once, scratch, pend, op_put, after_put, pact, wrVars, bud>>

\* linkPutDone: the current put is reset, be it the one that is done or another
PutDone(id) ==
  /\ ops[id].st \in {"ok", "failed"}
  /\ LET others == [i \in DOMAIN ops \ {id} |-> ops[i]]
         rest == Reset(others, op_put)
     IN IF ops[id].st = "ok" THEN Put(scratch, rest, 0, FALSE)
        ELSE op_put' = 0 /\ ops' = rest /\ UNCHANGED <<scratch, pend>>
  /\ queue' = IF after_put # {} THEN Append(queue, "after") ELSE queue
  /\ UNCHANGED <<up, rval, mon, inVars, pc, todo, locked, rec, once, after_put, net, pact, got, wrVars, bud>>

\* the client worker destroys a put which was reset
Cancelled(id) ==
  /\ ops[id].cancel
  /\ ops' = [i \in DOMAIN ops \ {id} |-> ops[i]]
  /\ UNCHANGED <<up, rval, mon, queue, inVars, pc, todo, locked, rec, once, scratch, pend, op_put, after_put, net, pact, got,
                 wrVars, bud>>

\* AfterPut::run
AfterPut ==
  /\ pc = "idle" /\ queue # <<>> /\ Head(queue) = "after"
  /\ notActive' = (notActive \/ ~(after_put \subseteq pact))
  /\ pact' = pact \ after_put /\ after_put' = {}
  /\ queue' = Tail(queue)
  /\ pc' = IF Queued("null") THEN "exited" ELSE "idle"
  /\ UNCHANGED <<up, rval, mon, inVars, todo, locked, rec, once, scratch, pend, op_put, ops, net, got, chain, turn, cut, bud>>
----------------------------------------------------------------------------
Init ==
  /\ up \in BOOLEAN /\ rval = 0
  /\ mon = [open |-> FALSE, q |-> <<>>, needNotify |-> TRUE]
  /\ queue = <<>> /\ root = 0 /\ connected = FALSE
  /\ links = AtStart /\ links_changed = TRUE
  /\ atomic_records = {} /\ nonatomic_records = {}
  /\ pc = "idle" /\ todo = {} /\ locked = {}
  /\ rec = [r \in Of("INLINK") |-> [val |-> 0, sevr |-> 3, pact |-> FALSE, rpro |-> FALSE]]
  /\ once = {} /\ scratch = [l \in Outs |-> None] /\ pend = [l \in Outs |-> None]
  /\ op_put = 0 /\ ops = <<>> /\ net = <<>>
  /\ after_put = {} /\ pact = {} /\ got = [l \in Outs |-> 0]
  /\ chain = 0 /\ turn = 1 /\ cut = 0 /\ notActive = FALSE
  /\ bud \in Budgets

Worker == RunPop \/ ScanAtomic \/ UnlockAtomic \/ ScanNonAtomic \/ RunDone \/ RunNull \/ AfterPut
Client == \/ \E id \in DOMAIN ops : BuildPut(id) \/ PutDone(id) \/ Cancelled(id)
          \/ Receive
Scans == \E r \in Of("INLINK") : ScanOnce(r) \/ Complete(r)

Next ==
  \/ Init_ \/ Close \/ Update \/ Connect \/ Lose
  \/ Worker \/ Client \/ Scans
  \/ \E l \in DOMAIN Type : PvaOpenLink(l) \/ PvaRemoveLink(l) \/ ScanForward(l)
  \/ \E l \in Outs, wait \in BOOLEAN : Write(l, wait)

\* every thread keeps running, a chain that is begun is ended, and a PV that is lost comes back
Fairness == WF_vars(turn > 1 /\ \E l \in Outs : Write(l, FALSE)) /\ WF_vars(Init_) /\ WF_vars(Worker) /\ WF_vars(Client) /\ WF_vars(Scans) /\ WF_vars(Connect)

Spec == Init /\ [][Next]_vars /\ Fairness
----------------------------------------------------------------------------
(* Properties.                                                             *)

CP(l) == Scanned(l) # "no" /\ (Scanned(l) = "passive" => l \in Passive)
Together == {l \in AtStart \ Async : CP(l) /\ Config[l].atomic}

\* what the record of link l holds after an update to v, or the loss of the connection since
Holds(l, v, valid) ==
  rec[l].val = v /\ rec[l].sevr = IF valid THEN PassedOn(Config[l], Severity[v]) ELSE 3

\* pvalink.rst on "atomic": all records linked with atomic:true to one PV are
\* processed as one.  Whoever locks two of them finds both at the same update
\* or both without connection, whatever updates, losses and links come between.
\* (A record which is still active at an update is processed later, by itself.)
AtomicTogether ==
  \A a, b \in Together :
    {a, b} \cap locked = {} =>
      \E valid \in BOOLEAN : Holds(a, rec[a].val, valid) /\ Holds(b, rec[a].val, valid)

\* pvalink.rst on "defer": several fields in a single put.  A value the PV has
\* from the last link of a chain comes with what the deferred links wrote
\* before it, whichever put carries it and whichever put it replaced, unless
\* the connection was lost since.  And no record is completed which is not
\* active ("Logic error?" in AfterPut::run).
DeferredTogether ==
  LET last == WriteSeq[Len(WriteSeq)]
  IN /\ \A l \in Outs : got[last] > cut => got[l] >= got[last]
     /\ ~notActive

\* In the end each record of a CP link holds the last value of the PV and the
\* severity its link passes on: no update is left in the queue with the worker
\* asleep, no record misses it because it was active or its link was new, a
\* record which waits for a put completes if no connection is lost, and a
\* shutdown ends the worker whatever is queued.
Settled ==
  <>[](pc # "exited" =>
         /\ \A l \in links : CP(l) =>
              rec[l].val = rval /\ rec[l].sevr = PassedOn(Config[l], Severity[rval])
         /\ cut = 0 => pact = {}
         /\ ~Queued("null"))
=============================================================================
