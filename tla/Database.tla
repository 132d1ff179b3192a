------------------------------ MODULE Database ------------------------------
(***************************************************************************)
(* What QSRV uses of an IOC's database: records in lock sets, which change *)
(* when they are scanned, put to or complete; subscriptions to a record's  *)
(* events, and a queue of events for each of the two sources.  EPICS Base  *)
(* is external.  Only the server's worker keeps records locked from one    *)
(* step to the next (held); everyone else locks, works and unlocks in one. *)
(***************************************************************************)
EXTENDS Integers, FiniteSets, Sequences, SequencesExt, FiniteSetsExt, TLC

CONSTANTS
  Records,
  LockSet,      \* [Records -> lock sets]
  Async,        \* records which complete some time after they are processed
  Passive,      \* records with SCAN Passive
  Disabled,     \* records with DISP set
  Denied,       \* records which the clients may not write
  HighLimit     \* a value from here on is in alarm

ASSUME RecordsAssumption == IsFiniteSet(Records)

VARIABLES
  db,           \* [val, prop, posted, pact, rpro, subs, evq]
  held          \* the records locked by the worker

\* a function with one more entry, or another value of one
With(f, k, v) == [x \in DOMAIN f \cup {k} |-> IF x = k THEN v ELSE f[x]]

\* step for one element of a sequence after the other
InTurn(step(_, _), start, s) ==
  LET after[i \in 0..Len(s)] == IF i = 0 THEN start ELSE step(after[i - 1], s[i])
  IN after[Len(s)]

Sources == {"group", "single"}
AlarmOf(v) == IF v >= HighLimit THEN 1 ELSE 0
Severity(d, r) == AlarmOf(d.posted[r])      \* set by processing, not by a put

InitDb ==
  /\ db = [val |-> [r \in Records |-> 0], prop |-> [r \in Records |-> 0], posted |-> [r \in Records |-> 0],
           pact |-> {}, rpro |-> {}, subs |-> <<>>, evq |-> [s \in Sources |-> <<>>]]
  /\ held = {}

\* the records which are locked when those of S are
Together(S) == {r \in Records : \E s \in S : LockSet[s] = LockSet[r]}
CanLock(S) == Together(S) \cap held = {}

Event(d, id, mask) == [id |-> id, mask |-> mask, log |-> d.val[d.subs[id].rec], sevr |-> Severity(d, d.subs[id].rec)]

\* db_post_events(): to the subscriptions which are enabled and select it
PostEvents(d, r, mask) ==
  LET to(s) == {id \in DOMAIN d.subs : /\ id.src = s /\ d.subs[id].rec = r /\ d.subs[id].enabled
                                       /\ d.subs[id].select \cap mask # {}}
      events(s) == SetToSeq({Event(d, id, d.subs[id].select \cap mask) : id \in to(s)})
  IN [d EXCEPT !.evq = [s \in Sources |-> @[s] \o events(s)],
               !.subs = [id \in DOMAIN @ |-> IF \E s \in Sources : id \in to(s) THEN [@[id] EXCEPT !.last = d.val[r]] ELSE @[id]]]

\* the end of processing: what changed since it was last posted
Complete(d, r) ==
  LET old == d.posted[r]
      new == d.val[r]
      mask == (IF old # new THEN {"value", "archive"} ELSE {}) \cup (IF AlarmOf(old) # AlarmOf(new) THEN {"alarm"} ELSE {})
  IN PostEvents([d EXCEPT !.posted[r] = new], r, mask)

DbProcess(d, r) == IF r \in Async THEN [d EXCEPT !.pact = @ \cup {r}] ELSE Complete(d, r)

\* dbPut() of VAL leaves the event to processing
DbPut(d, r, v) == [d EXCEPT !.val[r] = v]

\* Subscription::subscribe(), enable(), disable() and cancel(); new says of each
\* new subscription which record it is to and what it selects
Subscribe(d, new) ==
  [d EXCEPT !.subs = [id \in DOMAIN @ \cup DOMAIN new |->
     IF id \in DOMAIN new THEN [rec |-> new[id].rec, select |-> new[id].select, enabled |-> FALSE, last |-> 0] ELSE @[id]]]

Enable(d, id) ==
  IF id \notin DOMAIN d.subs THEN d
  ELSE [d EXCEPT !.subs[id].enabled = TRUE, !.subs[id].last = d.val[d.subs[id].rec],
                 !.evq[id.src] = Append(@, Event(d, id, d.subs[id].select))]

Disable(d, ids) == [d EXCEPT !.subs = [id \in DOMAIN @ |-> IF id \in ids THEN [@[id] EXCEPT !.enabled = FALSE] ELSE @[id]]]

Cancel(d, src) ==
  [d EXCEPT !.subs = [id \in {x \in DOMAIN @ : x.src # src} |-> @[id]], !.evq[src] = <<>>]

-----------------------------------------------------------------------------
(* IOCSource: what the two sources share.  A node has the parts value,     *)
(* alarm and prop.                                                         *)

NoNode == [value |-> -1, alarm |-> -1, prop |-> -1]

\* the parts of a node which a change of this kind refreshes
PartsOf(type, change) ==
  CASE type \in {"proc", "structure"} -> {}
    [] type = "const" -> {"value"}
    [] OTHER -> (IF "property" \in change /\ type = "scalar" THEN {"prop"} ELSE {})
                \cup (IF "alarm" \in change /\ type \in {"scalar", "meta"} THEN {"alarm"} ELSE {})
                \cup (IF "value" \in change /\ type # "meta" THEN {"value"} ELSE {})

\* IOCSource::get() of value v with severity a and properties p
Get(node, type, change, v, a, p) ==
  LET parts == PartsOf(type, change)
      now == [value |-> IF type = "const" THEN 0 ELSE v, alarm |-> a, prop |-> p]
  IN [x \in DOMAIN node |-> IF x \in parts THEN now[x] ELSE node[x]]

Everything == {"value", "alarm", "property"}

\* ... which finds them in the database
Read(node, type, change, d, r) ==
  IF type = "const" THEN Get(node, type, change, 0, 0, 0) ELSE Get(node, type, change, d.val[r], Severity(d, r), d.prop[r])

\* doPreProcessing(), doFieldPreProcessing()
PutEnabled(r) == r \notin Disabled
CanWrite(r) == r \notin Denied

\* doPostProcessing(): force is TRUE, FALSE or unset
PostProcess(d, r, force) ==
  IF force = "true" \/ (force = "unset" /\ r \in Passive)
  THEN IF r \in d.pact THEN [d EXCEPT !.rpro = @ \cup {r}] ELSE DbProcess(d, r)
  ELSE d

\* IOCSource::put()
Put(d, r, type, v) == IF type \in {"scalar", "plain", "any"} THEN DbPut(d, r, v) ELSE d
=============================================================================
