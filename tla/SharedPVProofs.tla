--------------------------- MODULE SharedPVProofs ---------------------------
(***************************************************************************)
(* A SharedPV strands no operation, loses no update and keeps its books,   *)
(* for any number of user threads, channels, values and calls of close().  *)
(***************************************************************************)
EXTENDS SharedPV, SequenceTheorems, TLAPS

Works == {"attach", "op", "subscribe", "post", "chanClosed", "subClosed", "open"}

\* What the worker does, and which closers wait for it
At(w, c) == task = Task(w, c)
Due(w, c) == Task(w, c) \in closers

Types ==
    /\ TypeOK
    /\ task # Nobody => \E w \in Works, c \in Channels : At(w, c)
    /\ offered \in [Threads -> Nat]
    /\ seen \in [Channels -> Seq(Nat)]

\* The thread in open(), while the subscribers are connected, has the lock, besides
\* in the catch clause; until then the value it gives is the current one.
Locked ==
    /\ current \in {0, serial}
    /\ \A u \in Threads :
          /\ pc[u] \in {"connect", "resumed"} => lock = u
          /\ pc[u] = "connect" => offered[u] = current /\ current # 0
          /\ offered[u] <= serial
    /\ \A u \in Threads : pc[u] = "close" => closes > 0
    /\ ClientsCounted

\* A thread in open() is to connect the get or put of channel c; one in close() is
\* to close the channel.
Opening(c) == \E u \in Threads : pc[u] \in {"connect", "caught", "resumed", "ops"} /\ c \in todo[u]
Closing(c) == \E u \in Threads : pc[u] = "close" /\ c \in todo[u]

\* The loop of some open() comes to subscriber c.
Visiting(c) == \E u \in Threads : c \in visit[u]

\* Who knows of channel c
ChanInv(c) ==
    /\ chan[c] = "none" \/ At("attach", c) => op[c] = "none" /\ sub[c] = "none"
    /\ At("attach", c) => chan[c] = "Active"
    /\ c \in channels => chan[c] = "Active" \/ At("chanClosed", c)
    /\ chan[c] = "Active" => c \in channels \/ At("attach", c) \/ Closing(c)
    /\ At("chanClosed", c) => chan[c] # "Active" /\ (closes = 0 => c \in channels)
    /\ chan[c] = "lost" => op[c] \in {"none", "Dead"} /\ sub[c] \in {"none", "Dead"}

\* Who knows of its get or put
OpInv(c) ==
    /\ At("op", c) => op[c] = "Creating"
    /\ op[c] = "none" \/ At("op", c) => c \notin pending /\ ~Opening(c)
    /\ c \in pending => /\ current = 0 /\ ~Opening(c)
                        /\ op[c] = "Creating" \/ Due("opClosed", c)
    /\ Due("opClosed", c) => op[c] = "Dead"
    /\ op[c] = "Creating" => At("op", c) \/ c \in pending \/ Opening(c)

\* Who knows of its subscription
SubInv(c) ==
    /\ At("subscribe", c) => sub[c] = "Creating"
    /\ sub[c] = "none" \/ At("subscribe", c) => c \notin msubscribers
    /\ c \in msubscribers =>
          sub[c] \in {"Creating", "connected"} \/ Due("subClosed", c) \/ At("subClosed", c)
    /\ Due("subClosed", c) \/ At("subClosed", c) => sub[c] = "Dead"
    /\ sub[c] = "Creating" /\ chan[c] = "Active" =>
          At("subscribe", c) \/ (c \in msubscribers /\ mcontrol[c] = "mpending") \/ Closing(c)
    /\ current # 0 /\ c \in msubscribers /\ mcontrol[c] = "mpending" => Visiting(c) \/ c \in slipped

\* What it has been given
SeenSteps(s) == \A i \in 1..(Len(s) - 1) : s[i + 1] = s[i] + 1
SeenGrows(s) == \A i \in 1..(Len(s) - 1) : s[i] < s[i + 1]
LastSeen(s) == s[Len(s)]
SeenInv(c) ==
    /\ SeenGrows(seen[c])
    /\ seen[c] # <<>> => LastSeen(seen[c]) <= serial
    /\ sub[c] = "none" \/ At("subscribe", c) \/ mcontrol[c] = "mpending" => seen[c] = <<>>
    /\ c \notin slipped => SeenSteps(seen[c])
    /\ c \in msubscribers /\ mcontrol[c] = "mcontrol" =>
          seen[c] # <<>> /\ (c \notin slipped => current # 0 /\ LastSeen(seen[c]) = current)

Inv ==
    /\ Types /\ Locked
    /\ \A c \in Channels : ChanInv(c) /\ OpInv(c) /\ SubInv(c) /\ SeenInv(c)
-----------------------------------------------------------------------------
\* Tasks are told apart by what is done and for which channel.
LEMMA TaskFacts ==
    /\ \A v, w, c, d : Task(v, c) = Task(w, d) => v = w /\ c = d
    /\ \A w \in Works, c \in Channels : Task(w, c) # Nobody
    /\ \A w, c : Task(w, c).chan = c
BY NobodyAssumption DEF Task, Works

\* The worker has no task, or this one.
LEMMA Idle ==
    ASSUME task = Nobody, NEW c \in Channels
    PROVE  /\ ~At("attach", c) /\ ~At("op", c) /\ ~At("subscribe", c)
           /\ ~At("chanClosed", c) /\ ~At("subClosed", c)
BY TaskFacts DEF At, Works

\* And after the step.
LEMMA IdleNext ==
    ASSUME task' = Nobody, NEW c \in Channels
    PROVE  /\ ~At("attach", c)' /\ ~At("op", c)' /\ ~At("subscribe", c)'
           /\ ~At("chanClosed", c)' /\ ~At("subClosed", c)'
BY TaskFacts DEF At, Works

\* The worker which opens has no other task.
LEMMA OpensOnly ==
    ASSUME Opens, NEW c \in Channels
    PROVE  /\ ~At("attach", c) /\ ~At("op", c) /\ ~At("subscribe", c)
           /\ ~At("chanClosed", c) /\ ~At("subClosed", c)
BY TaskFacts DEF At, Opens

\* A thread in open() has synced. with the worker.
LEMMA SyncedIdle ==
    ASSUME NEW u \in Threads, Synced(u), NEW c \in Channels
    PROVE  /\ ~At("attach", c) /\ ~At("op", c) /\ ~At("subscribe", c)
           /\ ~At("chanClosed", c) /\ ~At("subClosed", c)
BY OpensOnly, Idle DEF Synced

\* Another update
LEMMA NextSeen ==
    ASSUME NEW s \in Seq(Nat), NEW n \in Nat, SeenGrows(s), s # <<>>, LastSeen(s) <= n
    PROVE  /\ SeenGrows(Append(s, n + 1)) /\ Append(s, n + 1) # <<>>
           /\ LastSeen(Append(s, n + 1)) = n + 1
           /\ SeenSteps(s) /\ LastSeen(s) = n => SeenSteps(Append(s, n + 1))
<1> DEFINE a == Append(s, n + 1)
<1>1. /\ Len(s) \in Nat /\ Len(s) > 0 /\ Len(a) = Len(s) + 1 /\ a \in Seq(Nat) /\ a[Len(s) + 1] = n + 1
      /\ \A i \in 1..Len(s) : a[i] = s[i] /\ s[i] \in Nat
  OBVIOUS
<1> HIDE DEF a
<1>2. ASSUME NEW i \in 1..(Len(a) - 1)
      PROVE  a[i] < a[i + 1] /\ (SeenSteps(s) /\ LastSeen(s) = n => a[i + 1] = a[i] + 1)
  <2>1. CASE i = Len(s)
    BY <1>1, <2>1 DEF LastSeen
  <2>2. CASE i # Len(s)
    <3>1. i \in 1..(Len(s) - 1) /\ i \in 1..Len(s) /\ i + 1 \in 1..Len(s)
      BY <1>1, <1>2, <2>2
    <3>2. QED
      BY <1>1, <3>1 DEF SeenSteps, SeenGrows
  <2>3. QED
    BY <2>1, <2>2
<1>3. a # <<>> /\ LastSeen(a) = n + 1
  BY <1>1 DEF LastSeen
<1>4. QED
  BY <1>2, <1>3 DEF SeenSteps, SeenGrows, a

\* What the first update does
LEMMA FirstSeen ==
    ASSUME NEW s, s = <<>>, NEW n \in Nat
    PROVE  /\ SeenGrows(Append(s, n)) /\ SeenSteps(Append(s, n))
           /\ Append(s, n) # <<>> /\ LastSeen(Append(s, n)) = n
<1>1. Append(s, n) = <<n>>
  OBVIOUS
<1>2. QED
  BY <1>1 DEF SeenSteps, SeenGrows, LastSeen

\* What has been seen is not changed.
LEMMA SameSeen ==
    ASSUME NEW c \in Channels, seen'[c] = seen[c]
    PROVE  /\ SeenGrows(seen'[c]) <=> SeenGrows(seen[c])
           /\ SeenSteps(seen'[c]) <=> SeenSteps(seen[c])
           /\ LastSeen(seen'[c]) = LastSeen(seen[c])
BY DEF SeenGrows, SeenSteps, LastSeen

\* CREATE_CHANNEL
LEMMA BeginAttachStep ==
    ASSUME Inv, NEW k \in Channels, BeginAttach(k) PROVE Inv'
<1>1. /\ chan[k] = "none" /\ chan' = [chan EXCEPT ![k] = "Active"]
      /\ task = Nobody /\ task' = Task("attach", k)
      /\ UNCHANGED <<lock, current, channels, pending, msubscribers, mcontrol, op, sub, closers,
                  pc, todo, offered, visit, at, serial, closes, seen, slipped, clients>>
  BY DEF BeginAttach, Begin, implvars, servvars, uservars, openvars, histvars
<1>2. Types'
  BY <1>1 DEF Inv, Types, TypeOK, Works, At
<1>3. Locked'
  BY <1>1 DEF Inv, Locked, ClientsCounted
<1> SUFFICES ASSUME NEW c \in Channels
             PROVE  ChanInv(c)' /\ OpInv(c)' /\ SubInv(c)' /\ SeenInv(c)'
  BY <1>2, <1>3 DEF Inv
<1>4. ChanInv(c) /\ OpInv(c) /\ SubInv(c) /\ SeenInv(c)
  BY DEF Inv
<1>5. /\ ~At("attach", c) /\ ~At("op", c) /\ ~At("subscribe", c)
      /\ ~At("chanClosed", c) /\ ~At("subClosed", c)
      /\ At("attach", c)' <=> c = k
      /\ ~At("op", c)' /\ ~At("subscribe", c)' /\ ~At("chanClosed", c)' /\ ~At("subClosed", c)'
  BY <1>1, Idle, TaskFacts DEF At
<1>6. UNCHANGED <<Opening(c), Closing(c), Visiting(c), Due("opClosed", c), Due("subClosed", c)>>
  BY <1>1 DEF Opening, Closing, Visiting, Due
<1>7. chan'[c] = IF c = k THEN "Active" ELSE chan[c]
  BY <1>1 DEF Inv, Types, TypeOK
<1>8. ChanInv(c)'
  BY <1>1, <1>4, <1>5, <1>6, <1>7 DEF ChanInv
<1>9. OpInv(c)'
  BY <1>1, <1>4, <1>5, <1>6, <1>7 DEF OpInv
<1>10. SubInv(c)'
  BY <1>1, <1>4, <1>5, <1>6, <1>7 DEF SubInv, ChanInv
<1>11. SeenInv(c)'
  BY <1>1, <1>4, <1>5, <1>6, <1>7 DEF SeenInv
<1>12. QED
  BY <1>8, <1>9, <1>10, <1>11

\* INIT of a get or put
LEMMA BeginOpStep ==
    ASSUME Inv, NEW k \in Channels, BeginOp(k) PROVE Inv'
<1>1. /\ chan[k] \in {"Active", "Destroy"} /\ op[k] = "none" /\ op' = [op EXCEPT ![k] = "Creating"]
      /\ task = Nobody /\ task' = Task("op", k)
      /\ UNCHANGED <<lock, current, channels, pending, msubscribers, mcontrol, chan, sub, closers,
                  pc, todo, offered, visit, at, serial, closes, seen, slipped, clients>>
  BY DEF BeginOp, Begin, implvars, servvars, uservars, openvars, histvars
<1>2. Types'
  BY <1>1 DEF Inv, Types, TypeOK, Works, At
<1>3. Locked'
  BY <1>1 DEF Inv, Locked, ClientsCounted
<1> SUFFICES ASSUME NEW c \in Channels
             PROVE  ChanInv(c)' /\ OpInv(c)' /\ SubInv(c)' /\ SeenInv(c)'
  BY <1>2, <1>3 DEF Inv
<1>4. ChanInv(c) /\ OpInv(c) /\ SubInv(c) /\ SeenInv(c)
  BY DEF Inv
<1>5. /\ ~At("attach", c) /\ ~At("op", c) /\ ~At("subscribe", c)
      /\ ~At("chanClosed", c) /\ ~At("subClosed", c)
      /\ At("op", c)' <=> c = k
      /\ ~At("attach", c)' /\ ~At("subscribe", c)' /\ ~At("chanClosed", c)' /\ ~At("subClosed", c)'
  BY <1>1, Idle, TaskFacts DEF At
<1>6. UNCHANGED <<Opening(c), Closing(c), Visiting(c), Due("opClosed", c), Due("subClosed", c)>>
  BY <1>1 DEF Opening, Closing, Visiting, Due
<1>7. op'[c] = IF c = k THEN "Creating" ELSE op[c]
  BY <1>1 DEF Inv, Types, TypeOK
<1>8. ChanInv(c)'
  BY <1>1, <1>4, <1>5, <1>6, <1>7 DEF ChanInv
<1>9. OpInv(c)'
  BY <1>1, <1>4, <1>5, <1>6, <1>7 DEF OpInv
<1>10. SubInv(c)'
  BY <1>1, <1>4, <1>5, <1>6, <1>7 DEF SubInv
<1>11. SeenInv(c)'
  BY <1>1, <1>4, <1>5, <1>6, <1>7 DEF SeenInv
<1>12. QED
  BY <1>8, <1>9, <1>10, <1>11

\* INIT of a subscription
LEMMA BeginSubscribeStep ==
    ASSUME Inv, NEW k \in Channels, BeginSubscribe(k) PROVE Inv'
<1>1. /\ chan[k] \in {"Active", "Destroy"} /\ sub[k] = "none" /\ sub' = [sub EXCEPT ![k] = "Creating"]
      /\ task = Nobody /\ task' = Task("subscribe", k)
      /\ UNCHANGED <<lock, current, channels, pending, msubscribers, mcontrol, chan, op, closers,
                  pc, todo, offered, visit, at, serial, closes, seen, slipped, clients>>
  BY DEF BeginSubscribe, Begin, implvars, servvars, uservars, openvars, histvars
<1>2. Types'
  BY <1>1 DEF Inv, Types, TypeOK, Works, At
<1>3. Locked'
  BY <1>1 DEF Inv, Locked, ClientsCounted
<1> SUFFICES ASSUME NEW c \in Channels
             PROVE  ChanInv(c)' /\ OpInv(c)' /\ SubInv(c)' /\ SeenInv(c)'
  BY <1>2, <1>3 DEF Inv
<1>4. ChanInv(c) /\ OpInv(c) /\ SubInv(c) /\ SeenInv(c)
  BY DEF Inv
<1>5. /\ ~At("attach", c) /\ ~At("op", c) /\ ~At("subscribe", c)
      /\ ~At("chanClosed", c) /\ ~At("subClosed", c)
      /\ At("subscribe", c)' <=> c = k
      /\ ~At("attach", c)' /\ ~At("op", c)' /\ ~At("chanClosed", c)' /\ ~At("subClosed", c)'
  BY <1>1, Idle, TaskFacts DEF At
<1>6. UNCHANGED <<Opening(c), Closing(c), Visiting(c), Due("opClosed", c), Due("subClosed", c)>>
  BY <1>1 DEF Opening, Closing, Visiting, Due
<1>7. sub'[c] = IF c = k THEN "Creating" ELSE sub[c]
  BY <1>1 DEF Inv, Types, TypeOK
<1>8. ChanInv(c)'
  BY <1>1, <1>4, <1>5, <1>6, <1>7 DEF ChanInv
<1>9. OpInv(c)'
  BY <1>1, <1>4, <1>5, <1>6, <1>7 DEF OpInv
<1>10. SubInv(c)'
  BY <1>1, <1>4, <1>5, <1>6, <1>7 DEF SubInv
<1>11. SeenInv(c)'
  BY <1>1, <1>4, <1>5, <1>6, <1>7 DEF SeenInv
<1>12. QED
  BY <1>8, <1>9, <1>10, <1>11

\* EXEC of a put
LEMMA BeginPutStep ==
    ASSUME Inv, NEW k \in Channels, BeginPut(k) PROVE Inv'
<1>1. /\ task = Nobody /\ task' = Task("post", k)
      /\ UNCHANGED <<lock, current, channels, pending, msubscribers, mcontrol, chan, op, sub,
                  closers, pc, todo, offered, visit, at, serial, closes, seen, slipped, clients>>
  BY DEF BeginPut, Begin, implvars, servvars, uservars, openvars, histvars
<1>2. Types'
  BY <1>1 DEF Inv, Types, TypeOK, Works, At
<1>3. Locked'
  BY <1>1 DEF Inv, Locked, ClientsCounted
<1> SUFFICES ASSUME NEW c \in Channels
             PROVE  ChanInv(c)' /\ OpInv(c)' /\ SubInv(c)' /\ SeenInv(c)'
  BY <1>2, <1>3 DEF Inv
<1>4. ChanInv(c) /\ OpInv(c) /\ SubInv(c) /\ SeenInv(c)
  BY DEF Inv
<1>5. /\ ~At("attach", c) /\ ~At("op", c) /\ ~At("subscribe", c)
      /\ ~At("chanClosed", c) /\ ~At("subClosed", c)
      /\ ~At("attach", c)' /\ ~At("op", c)' /\ ~At("subscribe", c)'
      /\ ~At("chanClosed", c)' /\ ~At("subClosed", c)'
  BY <1>1, Idle, TaskFacts DEF At
<1>6. UNCHANGED <<Opening(c), Closing(c), Visiting(c), Due("opClosed", c), Due("subClosed", c)>>
  BY <1>1 DEF Opening, Closing, Visiting, Due
<1>8. ChanInv(c)'
  BY <1>1, <1>4, <1>5, <1>6 DEF ChanInv
<1>9. OpInv(c)'
  BY <1>1, <1>4, <1>5, <1>6 DEF OpInv
<1>10. SubInv(c)'
  BY <1>1, <1>4, <1>5, <1>6 DEF SubInv
<1>11. SeenInv(c)'
  BY <1>1, <1>4, <1>5, <1>6 DEF SeenInv
<1>12. QED
  BY <1>8, <1>9, <1>10, <1>11

\* The connection is closed.
LEMMA BeginLostStep ==
    ASSUME Inv, NEW k \in Channels, BeginLost(k) PROVE Inv'
<1>1. /\ chan[k] \in {"Active", "Destroy", "gone"} /\ chan' = [chan EXCEPT ![k] = "lost"]
      /\ op' = [op EXCEPT ![k] = IF @ = "none" THEN @ ELSE "Dead"]
      /\ sub' = [sub EXCEPT ![k] = IF @ = "none" THEN @ ELSE "Dead"]
      /\ closers' = closers \cup Closers(k)
      /\ task = Nobody /\ task' = IF chan[k] = "Active" THEN Task("chanClosed", k) ELSE Nobody
      /\ UNCHANGED <<lock, current, channels, pending, msubscribers, mcontrol, pc,
                  todo, offered, visit, at, serial, closes, seen, slipped, clients>>
  BY DEF BeginLost, Begin, EndOps, implvars, servvars, uservars, openvars, histvars
<1>2. Types'
  BY <1>1 DEF Inv, Types, TypeOK, Works, At
<1>3. Locked'
  BY <1>1 DEF Inv, Locked, ClientsCounted
<1> SUFFICES ASSUME NEW c \in Channels
             PROVE  ChanInv(c)' /\ OpInv(c)' /\ SubInv(c)' /\ SeenInv(c)'
  BY <1>2, <1>3 DEF Inv
<1>4. ChanInv(c) /\ OpInv(c) /\ SubInv(c) /\ SeenInv(c)
  BY DEF Inv
<1>5. /\ ~At("attach", c) /\ ~At("op", c) /\ ~At("subscribe", c)
      /\ ~At("chanClosed", c) /\ ~At("subClosed", c)
      /\ At("chanClosed", c)' <=> c = k /\ chan[k] = "Active"
      /\ ~At("attach", c)' /\ ~At("op", c)' /\ ~At("subscribe", c)' /\ ~At("subClosed", c)'
  BY <1>1, Idle, IdleNext, TaskFacts DEF At
<1>6. /\ UNCHANGED <<Opening(c), Closing(c), Visiting(c)>>
      /\ Due("opClosed", c)' <=> Due("opClosed", c) \/ (c = k /\ op[k] \in {"Creating", "connected"})
      /\ Due("subClosed", c)' <=> Due("subClosed", c) \/ (c = k /\ sub[k] \in {"Creating", "connected"})
  BY <1>1, TaskFacts DEF Opening, Closing, Visiting, Due, Closers
<1>7. /\ op'[c] = IF c = k /\ op[c] # "none" THEN "Dead" ELSE op[c]
      /\ sub'[c] = IF c = k /\ sub[c] # "none" THEN "Dead" ELSE sub[c]
      /\ chan'[c] = IF c = k THEN "lost" ELSE chan[c]
  BY <1>1 DEF Inv, Types, TypeOK
<1>8. ChanInv(c)'
  BY <1>1, <1>4, <1>5, <1>6, <1>7 DEF ChanInv, Locked, Inv, Closing, ClientsCounted
<1>9. OpInv(c)'
  BY <1>1, <1>4, <1>5, <1>6, <1>7 DEF OpInv, ChanInv
<1>10. SubInv(c)'
  BY <1>1, <1>4, <1>5, <1>6, <1>7 DEF SubInv, ChanInv
<1>11. SeenInv(c)'
  BY <1>1, <1>4, <1>5, <1>6, <1>7 DEF SeenInv
<1>12. QED
  BY <1>8, <1>9, <1>10, <1>11

\* onClose() of a get or put
LEMMA OpClosedStep ==
    ASSUME Inv, NEW k \in Channels, OpClosed(k) PROVE Inv'
<1>1. /\ task = Nobody /\ Task("opClosed", k) \in closers
      /\ closers' = closers \ {Task("opClosed", k)} /\ pending' = pending \ {k}
      /\ UNCHANGED <<lock, current, channels, msubscribers, mcontrol, chan, op, sub, task,
                  pc, todo, offered, visit, at, serial, closes, seen, slipped, clients>>
  BY DEF OpClosed, Begin, implvars, servvars, uservars, openvars, histvars
<1>2. Types'
  BY <1>1 DEF Inv, Types, TypeOK, Works, At
<1>3. Locked'
  BY <1>1 DEF Inv, Locked, ClientsCounted
<1> SUFFICES ASSUME NEW c \in Channels
             PROVE  ChanInv(c)' /\ OpInv(c)' /\ SubInv(c)' /\ SeenInv(c)'
  BY <1>2, <1>3 DEF Inv
<1>4. ChanInv(c) /\ OpInv(c) /\ SubInv(c) /\ SeenInv(c)
  BY DEF Inv
<1>5. /\ ~At("attach", c) /\ ~At("op", c) /\ ~At("subscribe", c)
      /\ ~At("chanClosed", c) /\ ~At("subClosed", c)
      /\ ~At("attach", c)' /\ ~At("op", c)' /\ ~At("subscribe", c)'
      /\ ~At("chanClosed", c)' /\ ~At("subClosed", c)'
  BY <1>1, Idle, IdleNext
<1>6. /\ UNCHANGED <<Opening(c), Closing(c), Visiting(c), Due("subClosed", c)>>
      /\ Due("opClosed", c)' <=> Due("opClosed", c) /\ c # k
  BY <1>1, TaskFacts DEF Opening, Closing, Visiting, Due
<1>7. Due("opClosed", k)
  BY <1>1 DEF Due
<1>8. ChanInv(c)'
  BY <1>1, <1>4, <1>5, <1>6, <1>7 DEF ChanInv
<1>9. OpInv(c)'
  BY <1>1, <1>4, <1>5, <1>6, <1>7 DEF OpInv
<1>10. SubInv(c)'
  BY <1>1, <1>4, <1>5, <1>6, <1>7 DEF SubInv
<1>11. SeenInv(c)'
  BY <1>1, <1>4, <1>5, <1>6, <1>7 DEF SeenInv
<1>12. QED
  BY <1>8, <1>9, <1>10, <1>11

\* onClose() of a subscription is called.
LEMMA BeginSubClosedStep ==
    ASSUME Inv, NEW k \in Channels, BeginSubClosed(k) PROVE Inv'
<1>1. /\ Task("subClosed", k) \in closers /\ closers' = closers \ {Task("subClosed", k)}
      /\ task = Nobody /\ task' = Task("subClosed", k)
      /\ UNCHANGED <<lock, current, channels, pending, msubscribers, mcontrol, chan, op, sub,
                  pc, todo, offered, visit, at, serial, closes, seen, slipped, clients>>
  BY DEF BeginSubClosed, Begin, implvars, servvars, uservars, openvars, histvars
<1>2. Types'
  BY <1>1 DEF Inv, Types, TypeOK, Works, At
<1>3. Locked'
  BY <1>1 DEF Inv, Locked, ClientsCounted
<1> SUFFICES ASSUME NEW c \in Channels
             PROVE  ChanInv(c)' /\ OpInv(c)' /\ SubInv(c)' /\ SeenInv(c)'
  BY <1>2, <1>3 DEF Inv
<1>4. ChanInv(c) /\ OpInv(c) /\ SubInv(c) /\ SeenInv(c)
  BY DEF Inv
<1>5. /\ ~At("attach", c) /\ ~At("op", c) /\ ~At("subscribe", c)
      /\ ~At("chanClosed", c) /\ ~At("subClosed", c)
      /\ At("subClosed", c)' <=> c = k
      /\ ~At("attach", c)' /\ ~At("op", c)' /\ ~At("subscribe", c)' /\ ~At("chanClosed", c)'
  BY <1>1, Idle, TaskFacts DEF At
<1>6. /\ UNCHANGED <<Opening(c), Closing(c), Visiting(c), Due("opClosed", c)>>
      /\ Due("subClosed", c)' <=> Due("subClosed", c) /\ c # k
  BY <1>1, TaskFacts DEF Opening, Closing, Visiting, Due
<1>7. Due("subClosed", k)
  BY <1>1 DEF Due
<1>8. ChanInv(c)'
  BY <1>1, <1>4, <1>5, <1>6, <1>7 DEF ChanInv
<1>9. OpInv(c)'
  BY <1>1, <1>4, <1>5, <1>6, <1>7 DEF OpInv
<1>10. SubInv(c)'
  BY <1>1, <1>4, <1>5, <1>6, <1>7 DEF SubInv
<1>11. SeenInv(c)'
  BY <1>1, <1>4, <1>5, <1>6, <1>7 DEF SeenInv
<1>12. QED
  BY <1>8, <1>9, <1>10, <1>11

\* onClose() of a subscription
LEMMA SubClosedStep ==
    ASSUME Inv, NEW k \in Channels, SubClosed(k) PROVE Inv'
<1>1. /\ lock = Nobody /\ task = Task("subClosed", k) /\ task' = Nobody
      /\ msubscribers' = msubscribers \ {k} /\ mcontrol' = [mcontrol EXCEPT ![k] = "neither"]
      /\ UNCHANGED <<lock, current, channels, pending, chan, op, sub, closers,
                  pc, todo, offered, visit, at, serial, closes, seen, slipped, clients>>
  BY DEF SubClosed, Running, implvars, servvars, uservars, openvars, histvars
<1>2. Types'
  BY <1>1 DEF Inv, Types, TypeOK, Works, At
<1>3. Locked'
  BY <1>1 DEF Inv, Locked, ClientsCounted
<1> SUFFICES ASSUME NEW c \in Channels
             PROVE  ChanInv(c)' /\ OpInv(c)' /\ SubInv(c)' /\ SeenInv(c)'
  BY <1>2, <1>3 DEF Inv
<1>4. ChanInv(c) /\ OpInv(c) /\ SubInv(c) /\ SeenInv(c)
  BY DEF Inv
<1>5. /\ At("subClosed", c) <=> c = k
      /\ ~At("attach", c) /\ ~At("op", c) /\ ~At("subscribe", c) /\ ~At("chanClosed", c)
      /\ ~At("attach", c)' /\ ~At("op", c)' /\ ~At("subscribe", c)'
      /\ ~At("chanClosed", c)' /\ ~At("subClosed", c)'
  BY <1>1, IdleNext, TaskFacts DEF At
<1>6. UNCHANGED <<Opening(c), Closing(c), Visiting(c), Due("opClosed", c), Due("subClosed", c)>>
  BY <1>1 DEF Opening, Closing, Visiting, Due
<1>7. mcontrol'[c] = IF c = k THEN "neither" ELSE mcontrol[c]
  BY <1>1 DEF Inv, Types, TypeOK
<1>8. ChanInv(c)'
  BY <1>1, <1>4, <1>5, <1>6, <1>7 DEF ChanInv
<1>9. OpInv(c)'
  BY <1>1, <1>4, <1>5, <1>6, <1>7 DEF OpInv
<1>10. SubInv(c)'
  BY <1>1, <1>4, <1>5, <1>6, <1>7 DEF SubInv
<1>11. SeenInv(c)'
  BY <1>1, <1>4, <1>5, <1>6, <1>7 DEF SeenInv
<1>12. QED
  BY <1>8, <1>9, <1>10, <1>11

\* attach()
LEMMA AttachStep ==
    ASSUME Inv, NEW k \in Channels, Attach(k) PROVE Inv'
<1>1. /\ lock = Nobody /\ task = Task("attach", k) /\ task' \in {Task("open", k), Nobody}
      /\ channels' = channels \cup {k}
      /\ clients' = IF channels = {} THEN clients + 1 ELSE clients
      /\ UNCHANGED <<lock, current, pending, msubscribers, mcontrol, chan, op, sub,
                  closers, pc, todo, offered, visit, at, serial, closes, seen, slipped>>
  BY DEF Attach, Running, IsFirst, implvars, servvars, uservars, openvars, histvars
<1>2. Types'
  BY <1>1 DEF Inv, Types, TypeOK, Works, At
<1>3. Locked'
  BY <1>1 DEF Inv, Locked, ClientsCounted
<1> SUFFICES ASSUME NEW c \in Channels
             PROVE  ChanInv(c)' /\ OpInv(c)' /\ SubInv(c)' /\ SeenInv(c)'
  BY <1>2, <1>3 DEF Inv
<1>4. ChanInv(c) /\ OpInv(c) /\ SubInv(c) /\ SeenInv(c)
  BY DEF Inv
<1>5. /\ At("attach", c) <=> c = k
      /\ ~At("op", c) /\ ~At("subscribe", c) /\ ~At("chanClosed", c) /\ ~At("subClosed", c)
      /\ ~At("attach", c)' /\ ~At("op", c)' /\ ~At("subscribe", c)'
      /\ ~At("chanClosed", c)' /\ ~At("subClosed", c)'
  BY <1>1, IdleNext, TaskFacts DEF At
<1>6. UNCHANGED <<Opening(c), Closing(c), Visiting(c), Due("opClosed", c), Due("subClosed", c)>>
  BY <1>1 DEF Opening, Closing, Visiting, Due
<1>8. ChanInv(c)'
  BY <1>1, <1>4, <1>5, <1>6 DEF ChanInv
<1>9. OpInv(c)'
  BY <1>1, <1>4, <1>5, <1>6 DEF OpInv
<1>10. SubInv(c)'
  BY <1>1, <1>4, <1>5, <1>6 DEF SubInv
<1>11. SeenInv(c)'
  BY <1>1, <1>4, <1>5, <1>6 DEF SeenInv
<1>12. QED
  BY <1>8, <1>9, <1>10, <1>11

\* onOp()
LEMMA OnOpStep ==
    ASSUME Inv, NEW k \in Channels, OnOp(k) PROVE Inv'
<1>1. /\ lock = Nobody /\ task = Task("op", k) /\ task' = Nobody
      /\ pending' = IF current = 0 THEN pending \cup {k} ELSE pending
      /\ op' = IF current = 0 THEN op ELSE Connected(op, {k})
      /\ UNCHANGED <<lock, current, channels, msubscribers, mcontrol, chan, sub, closers,
                  pc, todo, offered, visit, at, serial, closes, seen, slipped, clients>>
  BY DEF OnOp, Running, implvars, servvars, uservars, openvars, histvars
<1>2. Types'
  BY <1>1 DEF Inv, Types, TypeOK, Connected
<1>3. Locked'
  BY <1>1 DEF Inv, Locked, ClientsCounted
<1> SUFFICES ASSUME NEW c \in Channels
             PROVE  ChanInv(c)' /\ OpInv(c)' /\ SubInv(c)' /\ SeenInv(c)'
  BY <1>2, <1>3 DEF Inv
<1>4. ChanInv(c) /\ OpInv(c) /\ SubInv(c) /\ SeenInv(c)
  BY DEF Inv
<1>5. /\ At("op", c) <=> c = k
      /\ ~At("attach", c) /\ ~At("subscribe", c) /\ ~At("chanClosed", c) /\ ~At("subClosed", c)
      /\ ~At("attach", c)' /\ ~At("op", c)' /\ ~At("subscribe", c)'
      /\ ~At("chanClosed", c)' /\ ~At("subClosed", c)'
  BY <1>1, IdleNext, TaskFacts DEF At
<1>6. UNCHANGED <<Opening(c), Closing(c), Visiting(c), Due("opClosed", c), Due("subClosed", c)>>
  BY <1>1 DEF Opening, Closing, Visiting, Due
<1>7. op'[c] = IF current # 0 /\ c = k /\ op[c] = "Creating" THEN "connected" ELSE op[c]
  BY <1>1 DEF Inv, Types, TypeOK, Connected
<1>8. ChanInv(c)'
  BY <1>1, <1>4, <1>5, <1>6, <1>7 DEF ChanInv
<1>9. OpInv(c)'
  BY <1>1, <1>4, <1>5, <1>6, <1>7 DEF OpInv
<1>10. SubInv(c)'
  BY <1>1, <1>4, <1>5, <1>6, <1>7 DEF SubInv
<1>11. SeenInv(c)'
  BY <1>1, <1>4, <1>5, <1>6, <1>7 DEF SeenInv
<1>12. QED
  BY <1>8, <1>9, <1>10, <1>11

\* onClose() of a channel
LEMMA ChanClosedStep ==
    ASSUME Inv, NEW k \in Channels, ChanClosed(k) PROVE Inv'
<1>1. /\ lock = Nobody /\ task = Task("chanClosed", k) /\ task' = Nobody
      /\ channels' = channels \ {k}
      /\ clients' = IF channels \ {k} = {} THEN clients - 1 ELSE clients
      /\ UNCHANGED <<lock, current, pending, msubscribers, mcontrol, chan, op, sub,
                  closers, pc, todo, offered, visit, at, serial, closes, seen, slipped>>
  BY DEF ChanClosed, Running, implvars, servvars, uservars, openvars, histvars
<1>2. Types'
  BY <1>1 DEF Inv, Types, TypeOK, Works, At
<1>3. Locked'
  <2>1. closes = 0 => k \in channels
    BY <1>1 DEF Inv, ChanInv, At
  <2>2. QED
    BY <1>1, <2>1 DEF Inv, Locked, ClientsCounted
<1> SUFFICES ASSUME NEW c \in Channels
             PROVE  ChanInv(c)' /\ OpInv(c)' /\ SubInv(c)' /\ SeenInv(c)'
  BY <1>2, <1>3 DEF Inv
<1>4. ChanInv(c) /\ OpInv(c) /\ SubInv(c) /\ SeenInv(c)
  BY DEF Inv
<1>5. /\ At("chanClosed", c) <=> c = k
      /\ ~At("attach", c) /\ ~At("op", c) /\ ~At("subscribe", c) /\ ~At("subClosed", c)
      /\ ~At("attach", c)' /\ ~At("op", c)' /\ ~At("subscribe", c)'
      /\ ~At("chanClosed", c)' /\ ~At("subClosed", c)'
  BY <1>1, IdleNext, TaskFacts DEF At
<1>6. UNCHANGED <<Opening(c), Closing(c), Visiting(c), Due("opClosed", c), Due("subClosed", c)>>
  BY <1>1 DEF Opening, Closing, Visiting, Due
<1>8. ChanInv(c)'
  BY <1>1, <1>4, <1>5, <1>6 DEF ChanInv
<1>9. OpInv(c)'
  BY <1>1, <1>4, <1>5, <1>6 DEF OpInv
<1>10. SubInv(c)'
  BY <1>1, <1>4, <1>5, <1>6 DEF SubInv
<1>11. SeenInv(c)'
  BY <1>1, <1>4, <1>5, <1>6 DEF SeenInv
<1>12. QED
  BY <1>8, <1>9, <1>10, <1>11

\* onSubscribe()
LEMMA OnSubscribeStep ==
    ASSUME Inv, NEW k \in Channels, OnSubscribe(k) PROVE Inv'
<1>1. /\ lock = Nobody /\ task = Task("subscribe", k) /\ task' = Nobody
      /\ msubscribers' = msubscribers \cup {k}
      /\ mcontrol' = [mcontrol EXCEPT ![k] = IF current = 0 THEN "mpending" ELSE "mcontrol"]
      /\ sub' = IF current = 0 THEN sub ELSE Connected(sub, {k})
      /\ seen' = IF current = 0 THEN seen ELSE [seen EXCEPT ![k] = Append(@, current)]
      /\ UNCHANGED <<lock, current, channels, pending, chan, op, closers,
                  pc, todo, offered, visit, at, serial, closes, slipped, clients>>
  BY DEF OnSubscribe, Running, implvars, servvars, uservars, openvars, histvars
<1>2. Types'
  <2>1. current \in Nat
    BY DEF Inv, Types, TypeOK
  <2>2. seen' \in [Channels -> Seq(Nat)]
    BY <1>1, <2>1 DEF Inv, Types
  <2>3. mcontrol' \in [Channels -> {"mpending", "mcontrol", "neither"}]
    BY <1>1 DEF Inv, Types, TypeOK
  <2>4. sub' \in [Channels -> {"none", "Creating", "connected", "Dead"}]
    BY <1>1 DEF Inv, Types, TypeOK, Connected
  <2>5. QED
    BY <1>1, <2>2, <2>3, <2>4 DEF Inv, Types, TypeOK
<1>3. Locked'
  BY <1>1 DEF Inv, Locked, ClientsCounted
<1> SUFFICES ASSUME NEW c \in Channels
             PROVE  ChanInv(c)' /\ OpInv(c)' /\ SubInv(c)' /\ SeenInv(c)'
  BY <1>2, <1>3 DEF Inv
<1>4. ChanInv(c) /\ OpInv(c) /\ SubInv(c) /\ SeenInv(c)
  BY DEF Inv
<1>5. /\ At("subscribe", c) <=> c = k
      /\ ~At("attach", c) /\ ~At("op", c) /\ ~At("chanClosed", c) /\ ~At("subClosed", c)
      /\ ~At("attach", c)' /\ ~At("op", c)' /\ ~At("subscribe", c)'
      /\ ~At("chanClosed", c)' /\ ~At("subClosed", c)'
  BY <1>1, IdleNext, TaskFacts DEF At
<1>6. UNCHANGED <<Opening(c), Closing(c), Visiting(c), Due("opClosed", c), Due("subClosed", c)>>
  BY <1>1 DEF Opening, Closing, Visiting, Due
<1>7. /\ sub'[c] = IF current # 0 /\ c = k /\ sub[c] = "Creating" THEN "connected" ELSE sub[c]
      /\ mcontrol'[c] = IF c # k THEN mcontrol[c] ELSE IF current = 0 THEN "mpending" ELSE "mcontrol"
      /\ seen'[c] = IF current # 0 /\ c = k THEN Append(seen[c], current) ELSE seen[c]
  BY <1>1 DEF Inv, Types, TypeOK, Connected
<1>8. ChanInv(c)'
  BY <1>1, <1>4, <1>5, <1>6, <1>7 DEF ChanInv
<1>9. OpInv(c)'
  BY <1>1, <1>4, <1>5, <1>6, <1>7 DEF OpInv
<1>10. SubInv(c)'
  BY <1>1, <1>4, <1>5, <1>6, <1>7 DEF SubInv
<1>11. SeenInv(c)'
  <2>1. current \in Nat /\ serial \in Nat /\ current <= serial
    BY DEF Inv, Types, TypeOK
  <2>2. CASE c = k /\ current # 0
    <3>1. seen[c] = <<>> /\ seen'[c] = Append(seen[c], current)
      BY <1>4, <1>5, <1>7, <2>2 DEF SeenInv
    <3>2. /\ SeenGrows(seen'[c]) /\ SeenSteps(seen'[c])
          /\ seen'[c] # <<>> /\ LastSeen(seen'[c]) = current
      BY <2>1, <3>1, FirstSeen
    <3>3. mcontrol'[c] = "mcontrol" /\ sub'[c] # "none"
      BY <1>4, <1>5, <1>7, <2>2 DEF SubInv
    <3>4. QED
      BY <1>1, <1>5, <2>1, <2>2, <3>2, <3>3 DEF SeenInv
  <2>3. CASE ~(c = k /\ current # 0)
    <3>1. seen'[c] = seen[c]
      BY <1>7, <2>3
    <3>2. QED
      BY <1>1, <1>4, <1>5, <1>7, <2>3, <3>1, SameSeen DEF SeenInv
  <2>4. QED
    BY <2>2, <2>3
<1>12. QED
  BY <1>8, <1>9, <1>10, <1>11

\* connectOp() of what was pending
LEMMA OpenOpsStep ==
    ASSUME Inv, NEW t \in Threads, OpenOps(t) PROVE Inv'
<1>1. /\ pc[t] = "ops" /\ pc' = [pc EXCEPT ![t] = "idle"]
      /\ todo' = [todo EXCEPT ![t] = {}]
      /\ op' = Connected(op, todo[t])
      /\ task' = task \/ (Opens /\ task' = Nobody)
      /\ UNCHANGED <<lock, current, channels, pending, msubscribers, mcontrol, chan, sub,
                  closers, offered, visit, at, serial, closes, seen, slipped, clients>>
  BY DEF OpenOps, Connected, implvars, servvars, uservars, openvars, histvars
<1>2. Types'
  <2>1. task' # Nobody => \E w \in Works, c \in Channels : At(w, c)'
    BY <1>1 DEF Inv, Types, At
  <2>2. QED
    BY <1>1, <2>1 DEF Inv, Types, TypeOK, Connected
<1>3. Locked'
  BY <1>1 DEF Inv, Locked, ClientsCounted, Types, TypeOK
<1> SUFFICES ASSUME NEW c \in Channels
             PROVE  ChanInv(c)' /\ OpInv(c)' /\ SubInv(c)' /\ SeenInv(c)'
  BY <1>2, <1>3 DEF Inv
<1>4. ChanInv(c) /\ OpInv(c) /\ SubInv(c) /\ SeenInv(c)
  BY DEF Inv
<1>5. /\ At("attach", c)' <=> At("attach", c)
      /\ At("op", c)' <=> At("op", c)
      /\ At("subscribe", c)' <=> At("subscribe", c)
      /\ At("chanClosed", c)' <=> At("chanClosed", c)
      /\ At("subClosed", c)' <=> At("subClosed", c)
  <2>1. CASE task' = task
    BY <2>1, Zenon DEF At
  <2>2. CASE Opens /\ task' = Nobody
    BY <2>2, OpensOnly, IdleNext
  <2>3. QED
    BY <1>1, <2>1, <2>2
<1>6. /\ UNCHANGED <<Closing(c), Visiting(c), Due("opClosed", c), Due("subClosed", c)>>
      /\ Opening(c)' => Opening(c)
      /\ Opening(c) => Opening(c)' \/ c \in todo[t]
      /\ c \in todo[t] => Opening(c)
  BY <1>1 DEF Opening, Closing, Visiting, Due, Inv, Types, TypeOK
<1>7. op'[c] = IF c \in todo[t] /\ op[c] = "Creating" THEN "connected" ELSE op[c]
  BY <1>1 DEF Inv, Types, TypeOK, Connected
<1>8. ChanInv(c)'
  BY <1>1, <1>4, <1>5, <1>6, <1>7 DEF ChanInv
<1>9. OpInv(c)'
  BY <1>1, <1>4, <1>5, <1>6, <1>7 DEF OpInv
<1>10. SubInv(c)'
  BY <1>1, <1>4, <1>5, <1>6, <1>7 DEF SubInv
<1>11. SeenInv(c)'
  BY <1>1, <1>4, <1>5, <1>6, <1>7 DEF SeenInv
<1>12. QED
  BY <1>8, <1>9, <1>10, <1>11

\* open() unlocks.
LEMMA OpenReleaseStep ==
    ASSUME Inv, NEW t \in Threads, OpenRelease(t) PROVE Inv'
<1>1. /\ pc[t] \in {"connect", "resumed"} /\ pc' = [pc EXCEPT ![t] = "ops"] /\ lock' = Nobody
      /\ offered' = [offered EXCEPT ![t] = 0] /\ visit' = [visit EXCEPT ![t] = {}]
      /\ visit[t] \cap Waiting = {}
      /\ UNCHANGED <<current, channels, pending, msubscribers, mcontrol, chan, op, sub,
                  closers, task, todo, serial, closes, seen, slipped, clients>>
  BY DEF OpenRelease, OpenedOwner, implvars, servvars, uservars, openvars, histvars
<1>2. Types'
  BY <1>1 DEF Inv, Types, TypeOK, Works, At
<1>3. Locked'
  <2>1. lock = t /\ \A u \in Threads : pc[u] \in {"connect", "resumed"} => u = t
    BY <1>1 DEF Inv, Locked
  <2>2. QED
    BY <1>1, <2>1 DEF Inv, Locked, ClientsCounted, Types, TypeOK
<1> SUFFICES ASSUME NEW c \in Channels
             PROVE  ChanInv(c)' /\ OpInv(c)' /\ SubInv(c)' /\ SeenInv(c)'
  BY <1>2, <1>3 DEF Inv
<1>4. ChanInv(c) /\ OpInv(c) /\ SubInv(c) /\ SeenInv(c)
  BY DEF Inv
<1>5. /\ UNCHANGED <<At("attach", c), At("op", c), At("subscribe", c),
                     At("chanClosed", c), At("subClosed", c)>>
  BY <1>1, Zenon DEF At
<1>6. UNCHANGED <<Opening(c), Closing(c), Due("opClosed", c), Due("subClosed", c)>>
  BY <1>1 DEF Opening, Closing, Due, Inv, Types, TypeOK
<1>7. c \in msubscribers /\ mcontrol[c] = "mpending" /\ Visiting(c) => Visiting(c)'
  BY <1>1 DEF Visiting, Waiting, Inv, Types, TypeOK
<1>8. ChanInv(c)'
  BY <1>1, <1>4, <1>5, <1>6, <1>7 DEF ChanInv
<1>9. OpInv(c)'
  BY <1>1, <1>4, <1>5, <1>6, <1>7 DEF OpInv
<1>10. SubInv(c)'
  BY <1>1, <1>4, <1>5, <1>6, <1>7 DEF SubInv
<1>11. SeenInv(c)'
  BY <1>1, <1>4, <1>5, <1>6, <1>7 DEF SeenInv
<1>12. QED
  BY <1>8, <1>9, <1>10, <1>11

\* close() returns.
LEMMA CloseReturnStep ==
    ASSUME Inv, NEW t \in Users, CloseReturn(t) PROVE Inv'
<1>1. /\ pc[t] = "close" /\ pc' = [pc EXCEPT ![t] = "idle"] /\ todo[t] = {}
      /\ UNCHANGED <<lock, current, channels, pending, msubscribers, mcontrol, chan, op, sub,
                  closers, task, todo, offered, visit, at, serial, closes, seen, slipped, clients>>
  BY DEF CloseReturn, implvars, servvars, uservars, openvars, histvars
<1>2. Types'
  BY <1>1 DEF Inv, Types, TypeOK, Works, At
<1>3. Locked'
  BY <1>1 DEF Inv, Locked, ClientsCounted, Types, TypeOK
<1> SUFFICES ASSUME NEW c \in Channels
             PROVE  ChanInv(c)' /\ OpInv(c)' /\ SubInv(c)' /\ SeenInv(c)'
  BY <1>2, <1>3 DEF Inv
<1>4. ChanInv(c) /\ OpInv(c) /\ SubInv(c) /\ SeenInv(c)
  BY DEF Inv
<1>5. /\ UNCHANGED <<At("attach", c), At("op", c), At("subscribe", c),
                     At("chanClosed", c), At("subClosed", c)>>
  BY <1>1, Zenon DEF At
<1>6. UNCHANGED <<Opening(c), Closing(c), Visiting(c), Due("opClosed", c), Due("subClosed", c)>>
  BY <1>1 DEF Opening, Closing, Visiting, Due, Inv, Types, TypeOK
<1>8. ChanInv(c)'
  BY <1>1, <1>4, <1>5, <1>6 DEF ChanInv
<1>9. OpInv(c)'
  BY <1>1, <1>4, <1>5, <1>6 DEF OpInv
<1>10. SubInv(c)'
  BY <1>1, <1>4, <1>5, <1>6 DEF SubInv
<1>11. SeenInv(c)'
  BY <1>1, <1>4, <1>5, <1>6 DEF SeenInv
<1>12. QED
  BY <1>8, <1>9, <1>10, <1>11

\* close() forgets who was there and has their channels closed.
LEMMA CloseStep ==
    ASSUME Inv, NEW t \in Users, Close(t) PROVE Inv'
<1>1. /\ pc[t] = "idle" /\ pc' = [pc EXCEPT ![t] = "close"] /\ lock = Nobody
      /\ todo' = [todo EXCEPT ![t] = channels]
      /\ closes < MaxClose /\ closes' = closes + 1
      /\ current' = 0 /\ msubscribers' = {} /\ channels' = {}
      /\ UNCHANGED <<lock, pending, mcontrol, chan, op, sub, closers,
                  task, offered, visit, at, serial, seen, slipped, clients>>
  BY DEF Close, implvars, servvars, uservars, openvars, histvars
<1>2. Types'
  <2>1. closes' \in 0..MaxClose /\ 0 \in 0..serial
    BY <1>1, BoundAssumption DEF Inv, Types, TypeOK
  <2>2. QED
    BY <1>1, <2>1 DEF Inv, Types, TypeOK, At
<1>3. Locked'
  <2>1. closes' > 0
    BY <1>1, BoundAssumption DEF Inv, Types, TypeOK
  <2>2. \A u \in Threads : pc[u] \notin {"connect", "resumed"} /\ pc'[u] \notin {"connect", "resumed"}
    BY <1>1, NobodyAssumption DEF Inv, Locked, Types, TypeOK, Threads
  <2>3. QED
    BY <1>1, <2>1, <2>2 DEF Inv, Locked, ClientsCounted
<1> SUFFICES ASSUME NEW c \in Channels
             PROVE  ChanInv(c)' /\ OpInv(c)' /\ SubInv(c)' /\ SeenInv(c)'
  BY <1>2, <1>3 DEF Inv
<1>4. ChanInv(c) /\ OpInv(c) /\ SubInv(c) /\ SeenInv(c)
  BY DEF Inv
<1>5. /\ UNCHANGED <<At("attach", c), At("op", c), At("subscribe", c),
                     At("chanClosed", c), At("subClosed", c)>>
  BY <1>1, Zenon DEF At
<1>6. /\ UNCHANGED <<Opening(c), Visiting(c), Due("opClosed", c), Due("subClosed", c)>>
      /\ Closing(c)' <=> Closing(c) \/ c \in channels
  BY <1>1 DEF Opening, Closing, Visiting, Due, Inv, Types, TypeOK, Threads
<1>7. closes' # 0
  BY <1>1 DEF Inv, Types, TypeOK
<1>8. ChanInv(c)'
  BY <1>1, <1>4, <1>5, <1>6, <1>7 DEF ChanInv
<1>9. OpInv(c)'
  BY <1>1, <1>4, <1>5, <1>6, <1>7 DEF OpInv
<1>10. SubInv(c)'
  BY <1>1, <1>4, <1>5, <1>6, <1>7 DEF SubInv, ChanInv
<1>11. SeenInv(c)'
  BY <1>1, <1>4, <1>5, <1>6, <1>7 DEF SeenInv
<1>12. QED
  BY <1>8, <1>9, <1>10, <1>11

\* A put is posted.
LEMMA PutPostStep ==
    ASSUME Inv, NEW k \in Channels, PutPost(k) PROVE Inv'
<1>1. /\ lock = Nobody /\ task = Task("post", k) /\ task' = Nobody
      /\ serial < MaxValue /\ serial' = (IF current = 0 THEN serial ELSE serial + 1)
      /\ current' = IF current = 0 THEN current ELSE serial + 1
      /\ seen' = [c \in Channels |-> IF current # 0 /\ c \in msubscribers /\ mcontrol[c] = "mcontrol"
                                THEN Append(seen[c], serial + 1) ELSE seen[c]]
      /\ UNCHANGED <<lock, channels, pending, msubscribers, mcontrol, chan, op, sub,
                  closers, pc, todo, offered, visit, at, closes, slipped, clients>>
  BY DEF PutPost, Running, Posted, Inv, Types, implvars, servvars, uservars, openvars, histvars
<1>2. Types'
  <2>1. serial' \in 0..MaxValue /\ current' \in 0..serial' /\ serial + 1 \in Nat
    BY <1>1, BoundAssumption DEF Inv, Types, TypeOK
  <2>2. seen' \in [Channels -> Seq(Nat)]
    BY <1>1, <2>1 DEF Inv, Types
  <2>3. QED
    BY <1>1, <2>1, <2>2 DEF Inv, Types, TypeOK, At
<1>3. Locked'
  BY <1>1, NobodyAssumption DEF Inv, Locked, ClientsCounted, Types, TypeOK
<1> SUFFICES ASSUME NEW c \in Channels
             PROVE  ChanInv(c)' /\ OpInv(c)' /\ SubInv(c)' /\ SeenInv(c)'
  BY <1>2, <1>3 DEF Inv
<1>4. ChanInv(c) /\ OpInv(c) /\ SubInv(c) /\ SeenInv(c)
  BY DEF Inv
<1>5. /\ ~At("attach", c) /\ ~At("op", c) /\ ~At("subscribe", c)
      /\ ~At("chanClosed", c) /\ ~At("subClosed", c)
      /\ ~At("attach", c)' /\ ~At("op", c)' /\ ~At("subscribe", c)'
      /\ ~At("chanClosed", c)' /\ ~At("subClosed", c)'
  BY <1>1, IdleNext, TaskFacts DEF At
<1>6. UNCHANGED <<Opening(c), Closing(c), Visiting(c), Due("opClosed", c), Due("subClosed", c)>>
  BY <1>1 DEF Opening, Closing, Visiting, Due
<1>7. /\ seen'[c] = IF current # 0 /\ c \in msubscribers /\ mcontrol[c] = "mcontrol"
                    THEN Append(seen[c], serial + 1) ELSE seen[c]
      /\ serial \in Nat
  BY <1>1 DEF Inv, Types, TypeOK
<1>8. ChanInv(c)'
  BY <1>1, <1>4, <1>5, <1>6, <1>7 DEF ChanInv
<1>9. OpInv(c)'
  BY <1>1, <1>4, <1>5, <1>6, <1>7 DEF OpInv
<1>10. SubInv(c)'
  BY <1>1, <1>4, <1>5, <1>6, <1>7 DEF SubInv
<1>11. SeenInv(c)'
  <2>1. serial \in Nat /\ seen[c] \in Seq(Nat)
    BY DEF Inv, Types, TypeOK
  <2>2. CASE current # 0 /\ c \in msubscribers /\ mcontrol[c] = "mcontrol"
    <3>1. seen'[c] = Append(seen[c], serial + 1) /\ current = serial
      BY <1>7, <2>2 DEF Inv, Locked
    <3>2. /\ SeenGrows(seen[c]) /\ seen[c] # <<>> /\ LastSeen(seen[c]) <= serial
          /\ c \notin slipped => SeenSteps(seen[c]) /\ LastSeen(seen[c]) = serial
      BY <1>4, <2>2, <3>1 DEF SeenInv
    <3>3. /\ SeenGrows(seen'[c]) /\ seen'[c] # <<>> /\ LastSeen(seen'[c]) = serial + 1
          /\ c \notin slipped => SeenSteps(seen'[c])
      BY <2>1, <3>1, <3>2, NextSeen
    <3>4. c \in msubscribers /\ sub[c] # "none" /\ ~At("subscribe", c)
      BY <1>4, <2>2 DEF SubInv
    <3>5. /\ current' = serial + 1 /\ serial' = serial + 1 /\ current' # 0 /\ sub'[c] # "none"
          /\ ~At("subscribe", c)' /\ mcontrol'[c] # "mpending"
      BY <1>1, <1>5, <2>1, <2>2, <3>4
    <3>6. serial + 1 <= serial'
      BY <2>1, <3>5
    <3>7. QED
      BY <1>1, <3>3, <3>5, <3>6 DEF SeenInv
  <2>3. CASE ~(current # 0 /\ c \in msubscribers /\ mcontrol[c] = "mcontrol")
    <3>1. seen'[c] = seen[c] /\ serial <= serial' /\ serial' \in Nat
      BY <1>1, <1>7, <2>1, <2>3
    <3>2. seen[c] # <<>> => LastSeen(seen[c]) \in Nat
      BY <2>1 DEF LastSeen
    <3>3. seen[c] # <<>> => LastSeen(seen[c]) <= serial'
      BY <1>4, <2>1, <3>1, <3>2 DEF SeenInv
    <3>4. QED
      BY <1>1, <1>4, <1>5, <2>3, <3>1, <3>3, SameSeen DEF SeenInv
  <2>4. QED
    BY <2>2, <2>3
<1>12. QED
  BY <1>8, <1>9, <1>10, <1>11

\* post()
LEMMA PostStep ==
    ASSUME Inv, NEW t \in Users, Post(t) PROVE Inv'
<1>1. /\ pc[t] = "idle" /\ lock = Nobody /\ current # 0
      /\ serial < MaxValue /\ serial' = (IF current = 0 THEN serial ELSE serial + 1)
      /\ current' = IF current = 0 THEN current ELSE serial + 1
      /\ seen' = [c \in Channels |-> IF current # 0 /\ c \in msubscribers /\ mcontrol[c] = "mcontrol"
                                THEN Append(seen[c], serial + 1) ELSE seen[c]]
      /\ UNCHANGED <<lock, channels, pending, msubscribers, mcontrol, chan, op, sub,
                  closers, task, pc, todo, offered, visit, at, closes, slipped, clients>>
  BY DEF Post, Posted, implvars, servvars, uservars, openvars, histvars
<1>2. Types'
  <2>1. serial' \in 0..MaxValue /\ current' \in 0..serial' /\ serial + 1 \in Nat
    BY <1>1, BoundAssumption DEF Inv, Types, TypeOK
  <2>2. seen' \in [Channels -> Seq(Nat)]
    BY <1>1, <2>1 DEF Inv, Types
  <2>3. QED
    BY <1>1, <2>1, <2>2 DEF Inv, Types, TypeOK, At
<1>3. Locked'
  BY <1>1, NobodyAssumption DEF Inv, Locked, ClientsCounted, Types, TypeOK
<1> SUFFICES ASSUME NEW c \in Channels
             PROVE  ChanInv(c)' /\ OpInv(c)' /\ SubInv(c)' /\ SeenInv(c)'
  BY <1>2, <1>3 DEF Inv
<1>4. ChanInv(c) /\ OpInv(c) /\ SubInv(c) /\ SeenInv(c)
  BY DEF Inv
<1>5. /\ UNCHANGED <<At("attach", c), At("op", c), At("subscribe", c),
                     At("chanClosed", c), At("subClosed", c)>>
  BY <1>1, Zenon DEF At
<1>6. UNCHANGED <<Opening(c), Closing(c), Visiting(c), Due("opClosed", c), Due("subClosed", c)>>
  BY <1>1 DEF Opening, Closing, Visiting, Due
<1>7. /\ seen'[c] = IF current # 0 /\ c \in msubscribers /\ mcontrol[c] = "mcontrol"
                    THEN Append(seen[c], serial + 1) ELSE seen[c]
      /\ serial \in Nat
  BY <1>1 DEF Inv, Types, TypeOK
<1>8. ChanInv(c)'
  BY <1>1, <1>4, <1>5, <1>6, <1>7 DEF ChanInv
<1>9. OpInv(c)'
  BY <1>1, <1>4, <1>5, <1>6, <1>7 DEF OpInv
<1>10. SubInv(c)'
  BY <1>1, <1>4, <1>5, <1>6, <1>7 DEF SubInv
<1>11. SeenInv(c)'
  <2>1. serial \in Nat /\ seen[c] \in Seq(Nat)
    BY DEF Inv, Types, TypeOK
  <2>2. CASE current # 0 /\ c \in msubscribers /\ mcontrol[c] = "mcontrol"
    <3>1. seen'[c] = Append(seen[c], serial + 1) /\ current = serial
      BY <1>7, <2>2 DEF Inv, Locked
    <3>2. /\ SeenGrows(seen[c]) /\ seen[c] # <<>> /\ LastSeen(seen[c]) <= serial
          /\ c \notin slipped => SeenSteps(seen[c]) /\ LastSeen(seen[c]) = serial
      BY <1>4, <2>2, <3>1 DEF SeenInv
    <3>3. /\ SeenGrows(seen'[c]) /\ seen'[c] # <<>> /\ LastSeen(seen'[c]) = serial + 1
          /\ c \notin slipped => SeenSteps(seen'[c])
      BY <2>1, <3>1, <3>2, NextSeen
    <3>4. c \in msubscribers /\ sub[c] # "none" /\ ~At("subscribe", c)
      BY <1>4, <2>2 DEF SubInv
    <3>5. /\ current' = serial + 1 /\ serial' = serial + 1 /\ current' # 0 /\ sub'[c] # "none"
          /\ ~At("subscribe", c)' /\ mcontrol'[c] # "mpending"
      BY <1>1, <1>5, <2>1, <2>2, <3>4
    <3>6. serial + 1 <= serial'
      BY <2>1, <3>5
    <3>7. QED
      BY <1>1, <3>3, <3>5, <3>6 DEF SeenInv
  <2>3. CASE ~(current # 0 /\ c \in msubscribers /\ mcontrol[c] = "mcontrol")
    <3>1. seen'[c] = seen[c] /\ serial <= serial' /\ serial' \in Nat
      BY <1>1, <1>7, <2>1, <2>3
    <3>2. seen[c] # <<>> => LastSeen(seen[c]) \in Nat
      BY <2>1 DEF LastSeen
    <3>3. seen[c] # <<>> => LastSeen(seen[c]) <= serial'
      BY <1>4, <2>1, <3>1, <3>2 DEF SeenInv
    <3>4. QED
      BY <1>1, <1>4, <1>5, <2>3, <3>1, <3>3, SameSeen DEF SeenInv
  <2>4. QED
    BY <2>2, <2>3
<1>12. QED
  BY <1>8, <1>9, <1>10, <1>11

\* open() takes what is pending and keeps the lock.
LEMMA OpenStep ==
    ASSUME Inv, NEW t \in Threads, Open(t) PROVE Inv'
<1>1. /\ pc[t] = "idle" /\ pc' = [pc EXCEPT ![t] = "connect"] /\ lock = Nobody /\ lock' = t
      /\ current = 0 /\ serial < MaxValue /\ serial' = serial + 1 /\ current' = serial + 1
      /\ offered' = [offered EXCEPT ![t] = serial + 1]
      /\ visit' = [visit EXCEPT ![t] = Waiting]
      /\ todo' = [todo EXCEPT ![t] = pending] /\ pending' = {}
      /\ UNCHANGED <<channels, msubscribers, mcontrol, chan, op, sub,
                  closers, task, closes, seen, slipped, clients>>
  BY DEF Open, TakenOps, ConnectOwner, implvars, servvars, uservars, openvars, histvars
<1>2. Types'
  <2>1. serial' \in 0..MaxValue /\ current' \in 0..serial' /\ serial + 1 \in Nat
    BY <1>1, BoundAssumption DEF Inv, Types, TypeOK
  <2>2. offered' \in [Threads -> Nat] /\ todo' \in [Threads -> SUBSET Channels]
        /\ visit' \in [Threads -> SUBSET Channels]
    BY <1>1, <2>1 DEF Inv, Types, TypeOK, Waiting
  <2>3. /\ pc' \in [Threads -> {"idle", "connect", "caught", "resumed", "ops", "close"}]
        /\ lock' \in {u \in Threads : pc'[u] \in {"connect", "resumed"}}
    BY <1>1 DEF Inv, Types, TypeOK
  <2>4. QED
    BY <1>1, <2>1, <2>2, <2>3 DEF Inv, Types, TypeOK, At
<1>3. Locked'
  <2>1. \A u \in Threads : pc[u] \notin {"connect", "resumed"}
    BY <1>1, NobodyAssumption DEF Inv, Locked
  <2>2. serial \in Nat /\ serial + 1 # 0
    BY <1>1 DEF Inv, Types, TypeOK
  <2>3. \A u \in Threads : offered'[u] <= serial'
    BY <1>1, <2>2 DEF Inv, Locked, Types
  <2>4. QED
    BY <1>1, <2>1, <2>2, <2>3 DEF Inv, Locked, ClientsCounted, Types, TypeOK
<1> SUFFICES ASSUME NEW c \in Channels
             PROVE  ChanInv(c)' /\ OpInv(c)' /\ SubInv(c)' /\ SeenInv(c)'
  BY <1>2, <1>3 DEF Inv
<1>4. ChanInv(c) /\ OpInv(c) /\ SubInv(c) /\ SeenInv(c)
  BY DEF Inv
<1>5. /\ UNCHANGED <<At("attach", c), At("op", c), At("subscribe", c),
                     At("chanClosed", c), At("subClosed", c)>>
  BY <1>1, Zenon DEF At
<1>6. /\ UNCHANGED <<Closing(c), Due("opClosed", c), Due("subClosed", c)>>
      /\ Opening(c)' <=> Opening(c) \/ c \in pending
  BY <1>1 DEF Opening, Closing, Due, Inv, Types, TypeOK
<1>7. /\ c \in msubscribers /\ mcontrol[c] = "mpending" => Visiting(c)'
      /\ lock' # Nobody /\ serial \in Nat
  BY <1>1, NobodyAssumption DEF Visiting, Waiting, Inv, Types, TypeOK
<1>8. ChanInv(c)'
  BY <1>1, <1>4, <1>5, <1>6, <1>7 DEF ChanInv
<1>9. OpInv(c)'
  BY <1>1, <1>4, <1>5, <1>6, <1>7 DEF OpInv
<1>10. SubInv(c)'
  BY <1>1, <1>4, <1>5, <1>6, <1>7 DEF SubInv
<1>11. SeenInv(c)'
  <2>1. seen[c] # <<>> => LastSeen(seen[c]) \in Nat
    BY DEF LastSeen, Inv, Types
  <2>2. seen[c] # <<>> => LastSeen(seen[c]) <= serial'
    BY <1>1, <1>4, <1>7, <2>1 DEF SeenInv
  <2>3. QED
    BY <1>1, <1>4, <1>5, <1>7, <2>2 DEF SeenInv
<1>12. QED
  BY <1>8, <1>9, <1>10, <1>11

\* connectSub() of one subscriber
LEMMA OpenConnectStep ==
    ASSUME Inv, NEW t \in Threads, OpenConnect(t) PROVE Inv'
<1> PICK k \in visit[t] \cap Waiting :
      /\ sub[k] = "Creating" /\ sub' = [sub EXCEPT ![k] = "connected"]
      /\ mcontrol' = [mcontrol EXCEPT ![k] = "mcontrol"]
      /\ seen' = [seen EXCEPT ![k] = Append(@, offered[t])]
      /\ visit' = [visit EXCEPT ![t] = @ \ {k}]
      /\ slipped' = slipped \cup {d \in {k} : pc[t] = "resumed"}
  BY DEF OpenConnect
<1>1. /\ k \in Channels /\ k \in msubscribers /\ mcontrol[k] = "mpending"
      /\ pc[t] \in {"connect", "resumed"} /\ Synced(t)
      /\ UNCHANGED <<lock, current, channels, pending, msubscribers, chan, op, closers, task,
                     pc, todo, offered, at, serial, closes, clients>>
  BY DEF OpenConnect, Waiting, Inv, Types, TypeOK
<1>2. Types'
  <2>1. offered[t] \in Nat /\ slipped' \subseteq Channels
    BY <1>1 DEF Inv, Types, TypeOK
  <2>2. seen' \in [Channels -> Seq(Nat)]
    BY <1>1, <2>1 DEF Inv, Types
  <2>3. /\ mcontrol' \in [Channels -> {"mpending", "mcontrol", "neither"}]
        /\ sub' \in [Channels -> {"none", "Creating", "connected", "Dead"}]
        /\ visit' \in [Threads -> SUBSET Channels]
    BY <1>1 DEF Inv, Types, TypeOK
  <2>4. QED
    BY <1>1, <2>1, <2>2, <2>3 DEF Inv, Types, TypeOK, At
<1>3. Locked'
  BY <1>1 DEF Inv, Locked, ClientsCounted
<1> SUFFICES ASSUME NEW c \in Channels
             PROVE  ChanInv(c)' /\ OpInv(c)' /\ SubInv(c)' /\ SeenInv(c)'
  BY <1>2, <1>3 DEF Inv
<1>4. ChanInv(c) /\ OpInv(c) /\ SubInv(c) /\ SeenInv(c)
  BY DEF Inv
<1>5. /\ ~At("attach", c) /\ ~At("op", c) /\ ~At("subscribe", c)
      /\ ~At("chanClosed", c) /\ ~At("subClosed", c)
      /\ UNCHANGED <<At("attach", c), At("op", c), At("subscribe", c),
                     At("chanClosed", c), At("subClosed", c)>>
  BY <1>1, SyncedIdle DEF At
<1>6. /\ UNCHANGED <<Opening(c), Closing(c), Due("opClosed", c), Due("subClosed", c)>>
      /\ Visiting(c) => Visiting(c)' \/ c = k
  BY <1>1 DEF Opening, Closing, Visiting, Due, Inv, Types, TypeOK
<1>7. /\ mcontrol'[c] = IF c = k THEN "mcontrol" ELSE mcontrol[c]
      /\ sub'[c] = IF c = k THEN "connected" ELSE sub[c]
      /\ c # k => seen'[c] = seen[c] /\ (c \in slipped' <=> c \in slipped)
      /\ seen'[k] = Append(seen[k], offered[t])
      /\ k \notin slipped' => pc[t] = "connect"
      /\ slipped \subseteq slipped'
  BY <1>1 DEF Inv, Types, TypeOK
<1>8. ChanInv(c)'
  BY <1>1, <1>4, <1>5, <1>6, <1>7 DEF ChanInv
<1>9. OpInv(c)'
  BY <1>1, <1>4, <1>5, <1>6, <1>7 DEF OpInv
<1>10. SubInv(c)'
  BY <1>1, <1>4, <1>5, <1>6, <1>7 DEF SubInv
<1>11. SeenInv(c)'
  <2>1. CASE c = k
    <3>1. seen[c] = <<>> /\ seen'[c] = Append(seen[c], offered[t]) /\ offered[t] \in Nat
      BY <1>1, <1>4, <1>7, <2>1 DEF SeenInv, Inv, Types
    <3>2. /\ SeenGrows(seen'[c]) /\ SeenSteps(seen'[c])
          /\ seen'[c] # <<>> /\ LastSeen(seen'[c]) = offered[t]
      BY <3>1, FirstSeen
    <3>3. /\ offered[t] <= serial' /\ (c \notin slipped' => current' # 0 /\ offered[t] = current')
          /\ mcontrol'[c] = "mcontrol" /\ sub'[c] = "connected"
      BY <1>1, <1>7, <2>1 DEF Inv, Locked
    <3>4. QED
      BY <1>5, <3>2, <3>3 DEF SeenInv
  <2>2. CASE c # k
    BY <1>1, <1>4, <1>5, <1>7, <2>2, SameSeen DEF SeenInv
  <2>3. QED
    BY <2>1, <2>2
<1>12. QED
  BY <1>8, <1>9, <1>10, <1>11

\* connectSub() catches what connect() throws, and unlocks.
LEMMA ConnectThrowsStep ==
    ASSUME Inv, NEW t \in Threads, ConnectThrows(t) PROVE Inv'
<1> PICK k \in visit[t] \cap Waiting :
      /\ sub[k] # "Creating"
      /\ mcontrol' = [mcontrol EXCEPT ![k] = "neither"]
      /\ visit' = [visit EXCEPT ![t] = @ \ {k}]
  BY DEF ConnectThrows
<1>1. /\ k \in Channels /\ k \in msubscribers /\ mcontrol[k] = "mpending"
      /\ pc[t] \in {"connect", "resumed"} /\ Synced(t)
      /\ lock' = Nobody /\ pc' = [pc EXCEPT ![t] = "caught"]
      /\ UNCHANGED <<current, channels, pending, msubscribers, chan, op, sub, closers, task,
                     todo, offered, serial, closes, seen, slipped, clients>>
  BY DEF ConnectThrows, Waiting, servvars, histvars, Inv, Types, TypeOK
<1>2. Types'
  BY <1>1 DEF Inv, Types, TypeOK, At
<1>3. Locked'
  <2>1. lock = t /\ \A u \in Threads : pc[u] \in {"connect", "resumed"} => u = t
    BY <1>1 DEF Inv, Locked
  <2>2. QED
    BY <1>1, <2>1 DEF Inv, Locked, ClientsCounted, Types, TypeOK
<1> SUFFICES ASSUME NEW c \in Channels
             PROVE  ChanInv(c)' /\ OpInv(c)' /\ SubInv(c)' /\ SeenInv(c)'
  BY <1>2, <1>3 DEF Inv
<1>4. ChanInv(c) /\ OpInv(c) /\ SubInv(c) /\ SeenInv(c)
  BY DEF Inv
<1>5. /\ UNCHANGED <<At("attach", c), At("op", c), At("subscribe", c),
                     At("chanClosed", c), At("subClosed", c)>>
  BY <1>1, Zenon DEF At
<1>6. /\ UNCHANGED <<Opening(c), Closing(c), Due("opClosed", c), Due("subClosed", c)>>
      /\ Visiting(c) => Visiting(c)' \/ c = k
  BY <1>1 DEF Opening, Closing, Visiting, Due, Inv, Types, TypeOK
<1>7. mcontrol'[c] = IF c = k THEN "neither" ELSE mcontrol[c]
  BY <1>1 DEF Inv, Types, TypeOK
<1>8. ChanInv(c)'
  BY <1>1, <1>4, <1>5, <1>6, <1>7 DEF ChanInv
<1>9. OpInv(c)'
  BY <1>1, <1>4, <1>5, <1>6, <1>7 DEF OpInv
<1>10. SubInv(c)'
  BY <1>1, <1>4, <1>5, <1>6, <1>7 DEF SubInv
<1>11. SeenInv(c)'
  BY <1>1, <1>4, <1>5, <1>6, <1>7 DEF SeenInv
<1>12. QED
  BY <1>8, <1>9, <1>10, <1>11

\* The loop goes on, from where its iterator is now.
LEMMA OpenResumeStep ==
    ASSUME Inv, NEW t \in Threads, OpenResume(t) PROVE Inv'
<1> PICK next \in SUBSET Channels :
      /\ visit' = [visit EXCEPT ![t] = next]
      /\ slipped' = slipped \cup (visit[t] \ next)
  BY DEF OpenResume, Waiting, Inv, Types, TypeOK
<1>1. /\ pc[t] = "caught" /\ pc' = [pc EXCEPT ![t] = "resumed"]
      /\ lock = Nobody /\ lock' = t
      /\ UNCHANGED <<current, channels, pending, msubscribers, mcontrol, chan, op, sub, closers, task,
                     todo, offered, serial, closes, seen, clients>>
  BY DEF OpenResume, ConnectOwner, servvars
<1>2. Types'
  <2>1. slipped' \subseteq Channels /\ visit' \in [Threads -> SUBSET Channels]
    BY DEF Inv, Types, TypeOK
  <2>2. /\ pc' \in [Threads -> {"idle", "connect", "caught", "resumed", "ops", "close"}]
        /\ lock' \in {u \in Threads : pc'[u] \in {"connect", "resumed"}}
    BY <1>1 DEF Inv, Types, TypeOK
  <2>3. QED
    BY <1>1, <2>1, <2>2 DEF Inv, Types, TypeOK, At
<1>3. Locked'
  <2>1. \A u \in Threads : pc[u] \notin {"connect", "resumed"}
    BY <1>1, NobodyAssumption DEF Inv, Locked
  <2>2. QED
    BY <1>1, <2>1 DEF Inv, Locked, ClientsCounted, Types, TypeOK
<1> SUFFICES ASSUME NEW c \in Channels
             PROVE  ChanInv(c)' /\ OpInv(c)' /\ SubInv(c)' /\ SeenInv(c)'
  BY <1>2, <1>3 DEF Inv
<1>4. ChanInv(c) /\ OpInv(c) /\ SubInv(c) /\ SeenInv(c)
  BY DEF Inv
<1>5. /\ UNCHANGED <<At("attach", c), At("op", c), At("subscribe", c),
                     At("chanClosed", c), At("subClosed", c)>>
  BY <1>1, Zenon DEF At
<1>6. UNCHANGED <<Opening(c), Closing(c), Due("opClosed", c), Due("subClosed", c)>>
  BY <1>1 DEF Opening, Closing, Due, Inv, Types, TypeOK
<1>7. /\ Visiting(c) \/ c \in slipped => Visiting(c)' \/ c \in slipped'
      /\ c \notin slipped' => c \notin slipped
  BY <1>1 DEF Visiting, Inv, Types, TypeOK
<1>8. ChanInv(c)'
  BY <1>1, <1>4, <1>5, <1>6, <1>7 DEF ChanInv
<1>9. OpInv(c)'
  BY <1>1, <1>4, <1>5, <1>6, <1>7 DEF OpInv
<1>10. SubInv(c)'
  BY <1>1, <1>4, <1>5, <1>6, <1>7 DEF SubInv
<1>11. SeenInv(c)'
  BY <1>1, <1>4, <1>5, <1>6, <1>7 DEF SeenInv
<1>12. QED
  BY <1>8, <1>9, <1>10, <1>11

\* open() of a PV which is open
LEMMA OpenRefusedStep ==
    ASSUME Inv, OpenRefused PROVE Inv'
<1>1. /\ Opens /\ task' = Nobody
      /\ UNCHANGED <<lock, current, channels, pending, msubscribers, mcontrol, chan, op, sub, closers,
                     pc, todo, offered, visit, at, serial, closes, seen, slipped, clients>>
  BY DEF OpenRefused, implvars, uservars, openvars, histvars
<1>2. Types'
  BY <1>1 DEF Inv, Types, TypeOK
<1>3. Locked'
  BY <1>1 DEF Inv, Locked, ClientsCounted
<1> SUFFICES ASSUME NEW c \in Channels
             PROVE  ChanInv(c)' /\ OpInv(c)' /\ SubInv(c)' /\ SeenInv(c)'
  BY <1>2, <1>3 DEF Inv
<1>4. ChanInv(c) /\ OpInv(c) /\ SubInv(c) /\ SeenInv(c)
  BY DEF Inv
<1>5. /\ At("attach", c)' <=> At("attach", c)
      /\ At("op", c)' <=> At("op", c)
      /\ At("subscribe", c)' <=> At("subscribe", c)
      /\ At("chanClosed", c)' <=> At("chanClosed", c)
      /\ At("subClosed", c)' <=> At("subClosed", c)
  BY <1>1, OpensOnly, IdleNext
<1>6. UNCHANGED <<Opening(c), Closing(c), Visiting(c), Due("opClosed", c), Due("subClosed", c)>>
  BY <1>1 DEF Opening, Closing, Visiting, Due
<1>8. ChanInv(c)'
  BY <1>1, <1>4, <1>5, <1>6 DEF ChanInv
<1>9. OpInv(c)'
  BY <1>1, <1>4, <1>5, <1>6 DEF OpInv
<1>10. SubInv(c)'
  BY <1>1, <1>4, <1>5, <1>6 DEF SubInv
<1>11. SeenInv(c)'
  BY <1>1, <1>4, <1>5, <1>6 DEF SeenInv
<1>12. QED
  BY <1>8, <1>9, <1>10, <1>11

\* DESTROY_CHANNEL of a channel closed by the server
LEMMA ForgetStep ==
    ASSUME Inv, NEW k \in Channels, chan[k] = "Destroy", task = Nobody,
           chan' = [chan EXCEPT ![k] = "gone"],
           UNCHANGED <<implvars, op, sub, closers, task, uservars, histvars>>
    PROVE  Inv'
<1>1. UNCHANGED <<lock, current, channels, pending, msubscribers, mcontrol, op, sub, closers, task,
                  pc, todo, offered, visit, at, serial, closes, seen, slipped, clients>>
  BY DEF implvars, uservars, openvars, histvars
<1>2. Types'
  BY <1>1 DEF Inv, Types, TypeOK, At
<1>3. Locked'
  BY <1>1 DEF Inv, Locked, ClientsCounted
<1> SUFFICES ASSUME NEW c \in Channels
             PROVE  ChanInv(c)' /\ OpInv(c)' /\ SubInv(c)' /\ SeenInv(c)'
  BY <1>2, <1>3 DEF Inv
<1>4. /\ ChanInv(c) /\ OpInv(c) /\ SubInv(c) /\ SeenInv(c)
      /\ chan'[c] = IF c = k THEN "gone" ELSE chan[c]
  BY DEF Inv, Types, TypeOK
<1>5. /\ ~At("attach", c) /\ ~At("op", c) /\ ~At("subscribe", c)
      /\ ~At("chanClosed", c) /\ ~At("subClosed", c)
      /\ ~At("attach", c)' /\ ~At("op", c)' /\ ~At("subscribe", c)'
      /\ ~At("chanClosed", c)' /\ ~At("subClosed", c)'
  BY <1>1, Idle, IdleNext
<1>6. UNCHANGED <<Opening(c), Closing(c), Visiting(c), Due("opClosed", c), Due("subClosed", c)>>
  BY <1>1 DEF Opening, Closing, Visiting, Due
<1>7. ChanInv(c)'
  BY <1>1, <1>4, <1>5, <1>6 DEF ChanInv
<1>8. OpInv(c)'
  BY <1>1, <1>4, <1>5, <1>6 DEF OpInv
<1>9. SubInv(c)'
  BY <1>1, <1>4, <1>5, <1>6 DEF SubInv
<1>10. SeenInv(c)'
  BY <1>1, <1>4, <1>5, <1>6 DEF SeenInv
<1>11. QED
  BY <1>7, <1>8, <1>9, <1>10

\* DESTROY_CHANNEL of a channel which is there
LEMMA DestroyStep ==
    ASSUME Inv, NEW k \in Channels, chan[k] = "Active", task = Nobody,
           task' = Task("chanClosed", k),
           chan' = [chan EXCEPT ![k] = "gone"], EndOps(k), 
           UNCHANGED <<implvars, pc, todo, offered, visit, at, serial, closes, histvars>>
    PROVE  Inv'
<1>1. /\ op' = [op EXCEPT ![k] = IF @ = "none" THEN @ ELSE "Dead"]
      /\ sub' = [sub EXCEPT ![k] = IF @ = "none" THEN @ ELSE "Dead"]
      /\ closers' = closers \cup Closers(k)
      /\ UNCHANGED <<lock, current, channels, pending, msubscribers, mcontrol,
                     pc, todo, offered, visit, at, serial, closes, seen, slipped, clients>>
  BY DEF EndOps, implvars, histvars
<1>2. Types'
  BY <1>1 DEF Inv, Types, TypeOK, Works, At
<1>3. Locked'
  BY <1>1 DEF Inv, Locked, ClientsCounted
<1> SUFFICES ASSUME NEW c \in Channels
             PROVE  ChanInv(c)' /\ OpInv(c)' /\ SubInv(c)' /\ SeenInv(c)'
  BY <1>2, <1>3 DEF Inv
<1>4. /\ ChanInv(c) /\ OpInv(c) /\ SubInv(c) /\ SeenInv(c)
      /\ chan'[c] = IF c = k THEN "gone" ELSE chan[c]
      /\ op'[c] = IF c = k /\ op[c] # "none" THEN "Dead" ELSE op[c]
      /\ sub'[c] = IF c = k /\ sub[c] # "none" THEN "Dead" ELSE sub[c]
  BY <1>1 DEF Inv, Types, TypeOK
<1>5. /\ ~At("attach", c) /\ ~At("op", c) /\ ~At("subscribe", c)
      /\ ~At("chanClosed", c) /\ ~At("subClosed", c)
      /\ At("chanClosed", c)' <=> c = k
      /\ ~At("attach", c)' /\ ~At("op", c)' /\ ~At("subscribe", c)' /\ ~At("subClosed", c)'
  BY <1>1, Idle, TaskFacts DEF At
<1>6. /\ UNCHANGED <<Opening(c), Closing(c), Visiting(c)>>
      /\ Due("opClosed", c)' <=> Due("opClosed", c) \/ (c = k /\ op[k] \in {"Creating", "connected"})
      /\ Due("subClosed", c)' <=> Due("subClosed", c) \/ (c = k /\ sub[k] \in {"Creating", "connected"})
  BY <1>1, TaskFacts DEF Opening, Closing, Visiting, Due, Closers, Inv, Types, TypeOK
<1>7. ChanInv(c)'
  <2>1. closes = 0 => ~Closing(c)
    BY DEF Inv, Locked, Closing, Types, TypeOK
  <2>2. QED
    BY <1>1, <1>4, <1>5, <1>6, <2>1 DEF ChanInv
<1>8. OpInv(c)'
  BY <1>1, <1>4, <1>5, <1>6 DEF OpInv, ChanInv
<1>9. SubInv(c)'
  BY <1>1, <1>4, <1>5, <1>6 DEF SubInv, ChanInv
<1>10. SeenInv(c)'
  BY <1>1, <1>4, <1>5, <1>6 DEF SeenInv
<1>11. QED
  BY <1>7, <1>8, <1>9, <1>10

\* close() has a channel closed which is there.
LEMMA CloseActiveStep ==
    ASSUME Inv, NEW k \in Channels, NEW t \in Users, chan[k] = "Active", task = Nobody,
           task' = Task("chanClosed", k),
           chan' = [chan EXCEPT ![k] = "Destroy"], EndOps(k), 
           pc[t] = "close", todo' = [todo EXCEPT ![t] = @ \ {k}],
           UNCHANGED <<implvars, pc, offered, visit, at, serial, closes, histvars>>
    PROVE  Inv'
<1>1. /\ op' = [op EXCEPT ![k] = IF @ = "none" THEN @ ELSE "Dead"]
      /\ sub' = [sub EXCEPT ![k] = IF @ = "none" THEN @ ELSE "Dead"]
      /\ closers' = closers \cup Closers(k)
      /\ UNCHANGED <<lock, current, channels, pending, msubscribers, mcontrol,
                     pc, offered, visit, at, serial, closes, seen, slipped, clients>>
  BY DEF EndOps, implvars, histvars
<1>2. Types'
  BY <1>1 DEF Inv, Types, TypeOK, Works, At
<1>3. Locked'
  BY <1>1 DEF Inv, Locked, ClientsCounted
<1> SUFFICES ASSUME NEW c \in Channels
             PROVE  ChanInv(c)' /\ OpInv(c)' /\ SubInv(c)' /\ SeenInv(c)'
  BY <1>2, <1>3 DEF Inv
<1>4. /\ ChanInv(c) /\ OpInv(c) /\ SubInv(c) /\ SeenInv(c)
      /\ chan'[c] = IF c = k THEN "Destroy" ELSE chan[c]
      /\ op'[c] = IF c = k /\ op[c] # "none" THEN "Dead" ELSE op[c]
      /\ sub'[c] = IF c = k /\ sub[c] # "none" THEN "Dead" ELSE sub[c]
  BY <1>1 DEF Inv, Types, TypeOK
<1>5. /\ ~At("attach", c) /\ ~At("op", c) /\ ~At("subscribe", c)
      /\ ~At("chanClosed", c) /\ ~At("subClosed", c)
      /\ At("chanClosed", c)' <=> c = k
      /\ ~At("attach", c)' /\ ~At("op", c)' /\ ~At("subscribe", c)' /\ ~At("subClosed", c)'
  BY <1>1, Idle, TaskFacts DEF At
<1>6. /\ Opening(c)' <=> Opening(c)
      /\ UNCHANGED Visiting(c)
      /\ Closing(c)' => Closing(c)
      /\ Closing(c) => Closing(c)' \/ c = k
      /\ Due("opClosed", c)' <=> Due("opClosed", c) \/ (c = k /\ op[k] \in {"Creating", "connected"})
      /\ Due("subClosed", c)' <=> Due("subClosed", c) \/ (c = k /\ sub[k] \in {"Creating", "connected"})
  BY <1>1, TaskFacts DEF Opening, Closing, Visiting, Due, Closers, Inv, Types, TypeOK
<1>7. ChanInv(c)'
  <2>1. closes = 0 => ~Closing(c)
    BY DEF Inv, Locked, Closing, Types, TypeOK
  <2>2. QED
    BY <1>1, <1>4, <1>5, <1>6, <2>1 DEF ChanInv
<1>8. OpInv(c)'
  BY <1>1, <1>4, <1>5, <1>6 DEF OpInv, ChanInv
<1>9. SubInv(c)'
  BY <1>1, <1>4, <1>5, <1>6 DEF SubInv, ChanInv
<1>10. SeenInv(c)'
  BY <1>1, <1>4, <1>5, <1>6 DEF SeenInv
<1>11. QED
  BY <1>7, <1>8, <1>9, <1>10

\* DESTROY_CHANNEL
LEMMA BeginDestroyStep ==
    ASSUME Inv, NEW k \in Channels, BeginDestroy(k) PROVE Inv'
<1>1. CASE /\ chan[k] = "Active" /\ Begin(Task("chanClosed", k))
           /\ chan' = [chan EXCEPT ![k] = "gone"] /\ EndOps(k)
  BY <1>1, DestroyStep DEF Begin, uservars, openvars
<1>2. CASE /\ chan[k] = "Destroy" /\ task = Nobody /\ chan' = [chan EXCEPT ![k] = "gone"]
           /\ UNCHANGED <<implvars, op, sub, closers, task, uservars, histvars>>
  BY <1>2, ForgetStep
<1>3. QED
  BY <1>1, <1>2 DEF BeginDestroy

\* close() passes over a channel which is closed already.
LEMMA CloseOtherStep ==
    ASSUME Inv, NEW k \in Channels, NEW t \in Users, pc[t] = "close", chan[k] # "Active", task = Nobody,
           todo' = [todo EXCEPT ![t] = @ \ {k}],
           UNCHANGED <<implvars, servvars, pc, offered, visit, at, serial, closes, histvars>>
    PROVE  Inv'
<1>1. UNCHANGED <<lock, current, channels, pending, msubscribers, mcontrol, chan, op, sub, closers, task,
                  pc, offered, visit, at, serial, closes, seen, slipped, clients>>
  BY DEF implvars, servvars, histvars
<1>2. Types'
  BY <1>1 DEF Inv, Types, TypeOK, At
<1>3. Locked'
  BY <1>1 DEF Inv, Locked, ClientsCounted
<1> SUFFICES ASSUME NEW c \in Channels
             PROVE  ChanInv(c)' /\ OpInv(c)' /\ SubInv(c)' /\ SeenInv(c)'
  BY <1>2, <1>3 DEF Inv
<1>4. ChanInv(c) /\ OpInv(c) /\ SubInv(c) /\ SeenInv(c)
  BY DEF Inv
<1>5. /\ ~At("attach", c) /\ ~At("op", c) /\ ~At("subscribe", c)
      /\ ~At("chanClosed", c) /\ ~At("subClosed", c)
      /\ ~At("attach", c)' /\ ~At("op", c)' /\ ~At("subscribe", c)'
      /\ ~At("chanClosed", c)' /\ ~At("subClosed", c)'
  BY <1>1, Idle, IdleNext
<1>6. /\ Opening(c)' <=> Opening(c)
      /\ Closing(c)' => Closing(c)
      /\ Closing(c) => Closing(c)' \/ c = k
      /\ UNCHANGED <<Visiting(c), Due("opClosed", c), Due("subClosed", c)>>
  BY <1>1 DEF Opening, Closing, Visiting, Due, Inv, Types, TypeOK
<1>7. ChanInv(c)'
  BY <1>1, <1>4, <1>5, <1>6 DEF ChanInv
<1>8. OpInv(c)'
  BY <1>1, <1>4, <1>5, <1>6 DEF OpInv
<1>9. SubInv(c)'
  BY <1>1, <1>4, <1>5, <1>6 DEF SubInv
<1>10. SeenInv(c)'
  BY <1>1, <1>4, <1>5, <1>6 DEF SeenInv, SeenSteps
<1>11. QED
  BY <1>7, <1>8, <1>9, <1>10

\* close() comes to one of the channels.
LEMMA CloseChannelStep ==
    ASSUME Inv, NEW t \in Users, CloseChannel(t) PROVE Inv'
<1>1. PICK k \in todo[t] :
        /\ todo' = [todo EXCEPT ![t] = @ \ {k}]
        /\ IF chan[k] = "Active"
           THEN task' = Task("chanClosed", k) /\ chan' = [chan EXCEPT ![k] = "Destroy"] /\ EndOps(k)
           ELSE UNCHANGED <<task, chan, op, sub, closers>>
  BY DEF CloseChannel
<1>2. /\ k \in Channels /\ pc[t] = "close" /\ task = Nobody
      /\ UNCHANGED <<implvars, pc, offered, visit, at, serial, closes, histvars>>
  BY DEF CloseChannel, openvars, Inv, Types, TypeOK, Threads
<1>3. CASE chan[k] = "Active"
  BY <1>1, <1>2, <1>3, CloseActiveStep
<1>4. CASE chan[k] # "Active"
  BY <1>1, <1>2, <1>4, CloseOtherStep DEF servvars
<1>5. QED
  BY <1>3, <1>4
-----------------------------------------------------------------------------
\* A PV which has just been created has its books in order.
LEMMA InitInv == Init => Inv
<1> SUFFICES ASSUME Init PROVE Inv
  OBVIOUS
<1>1. Types
  BY BoundAssumption DEF Init, Types, TypeOK
<1>2. Locked
  BY DEF Init, Locked, ClientsCounted
<1>3. ASSUME NEW c \in Channels
      PROVE  ChanInv(c) /\ OpInv(c) /\ SubInv(c) /\ SeenInv(c)
  <2>1. /\ ~At("attach", c) /\ ~At("op", c) /\ ~At("subscribe", c)
        /\ ~At("chanClosed", c) /\ ~At("subClosed", c)
        /\ ~Opening(c) /\ ~Closing(c) /\ ~Due("opClosed", c) /\ ~Due("subClosed", c)
    BY Idle DEF Init, Opening, Closing, Due
  <2>2. QED
    BY <2>1 DEF Init, ChanInv, OpInv, SubInv, SeenInv, SeenSteps, SeenGrows
<1>4. QED
  BY <1>1, <1>2, <1>3 DEF Inv

\* Every step of the worker and of the user's threads keeps them so.
LEMMA NextInv == Inv /\ [Next]_vars => Inv'
<1> SUFFICES ASSUME Inv, [Next]_vars PROVE Inv'
  OBVIOUS
<1>1. CASE WorkerBegin
  BY <1>1, BeginAttachStep, BeginOpStep, BeginSubscribeStep, BeginPutStep, BeginDestroyStep, BeginLostStep,
     OpClosedStep, BeginSubClosedStep DEF WorkerBegin
<1>2. CASE WorkerEnd
  BY <1>2, AttachStep, OnOpStep, OnSubscribeStep, ChanClosedStep, SubClosedStep, PutPostStep
     DEF WorkerEnd
<1>3. CASE OpenSteps
  BY <1>3, OpenStep, OpenConnectStep, ConnectThrowsStep, OpenResumeStep, OpenReleaseStep, OpenOpsStep,
     OpenRefusedStep DEF OpenSteps
<1>4. CASE User
  BY <1>4, CloseStep, CloseChannelStep, CloseReturnStep, PostStep DEF User
<1>5. CASE UNCHANGED vars
  <2>1. UNCHANGED <<lock, current, channels, pending, msubscribers, mcontrol, chan, op, sub, closers, task,
                    pc, todo, offered, visit, at, serial, closes, seen, slipped, clients>>
    BY <1>5 DEF vars, implvars, servvars, uservars, openvars, histvars
  <2>2. Types' /\ Locked'
    BY <2>1 DEF Inv, Types, TypeOK, At, Locked, ClientsCounted
  <2>3. ASSUME NEW c \in Channels
        PROVE  ChanInv(c)' /\ OpInv(c)' /\ SubInv(c)' /\ SeenInv(c)'
    <3>1. /\ UNCHANGED <<At("attach", c), At("op", c), At("subscribe", c),
                         At("chanClosed", c), At("subClosed", c)>>
          /\ UNCHANGED <<Opening(c), Closing(c), Visiting(c), Due("opClosed", c), Due("subClosed", c)>>
      BY <2>1 DEF At, Opening, Closing, Visiting, Due
    <3>2. QED
      BY <2>1, <3>1 DEF Inv, ChanInv, OpInv, SubInv, SeenInv, SeenSteps
  <2>4. QED
    BY <2>2, <2>3 DEF Inv
<1>6. QED
  BY <1>1, <1>2, <1>3, <1>4, <1>5 DEF Next

\* The inductive invariant holds always.
LEMMA Inductive == Spec => []Inv
BY InitInv, NextInv, PTL DEF Spec

\* Whoever asks for the value of a closed PV gets it from open(), whichever thread
\* opens it and whoever else opens, closes and posts meanwhile, unless the loop of
\* SharedPV::open() passed over it with an invalid iterator.
THEOREM NeverStranded == Spec => []NoneStranded
<1>1. Inv => NoneStranded
  <2> SUFFICES ASSUME Inv, current # 0, NEW c \in Channels, chan[c] = "Active", ~SeenTo(c)
               PROVE  /\ op[c] = "Creating" => task = Task("op", c)
                      /\ sub[c] = "Creating" => task = Task("subscribe", c) \/ c \in slipped
    BY DEF NoneStranded
  <2>1. ~Opening(c) /\ ~Closing(c) /\ ~Visiting(c)
    BY DEF SeenTo, Opening, Closing, Visiting
  <2>2. op[c] = "Creating" => At("op", c)
    BY <2>1 DEF Inv, OpInv
  <2>3. sub[c] = "Creating" => At("subscribe", c) \/ c \in slipped
    BY <2>1 DEF Inv, SubInv
  <2>4. QED
    BY <2>2, <2>3 DEF At
<1>2. QED
  BY <1>1, Inductive, PTL

\* No subscription sees something old after something new; and each sees the value it
\* was connected with and then each post, without a gap, unless it was connected by
\* an open() which had caught an exception of another subscriber's connect()
\* (SharedPV::post() and Impl::connectSub()).
THEOREM UpdatesNeverMissed == Spec => []NoUpdateMissed
<1>1. Inv => NoUpdateMissed
  BY DEF Inv, SeenInv, SeenSteps, SeenGrows, LastSeen, NoUpdateMissed
<1>2. QED
  BY <1>1, Inductive, PTL

\* Nothing is kept of a channel which is gone, and onFirstConnect() and
\* onLastDisconnect() alternate until close() is called (SharedPV::attach()).
THEOREM BooksKept == Spec => []Bookkeeping
<1>1. Inv => NothingKept
  <2> SUFFICES ASSUME Inv, NEW c \in Channels, chan[c] = "lost", task = Nobody, \A x \in closers : x.chan # c
               PROVE  Forgotten(c)
    BY DEF NothingKept
  <2>1. ~Due("opClosed", c) /\ ~Due("subClosed", c)
    BY TaskFacts DEF Due
  <2>2. ~At("subClosed", c) /\ ~At("chanClosed", c) /\ ChanInv(c) /\ OpInv(c) /\ SubInv(c)
    BY Idle DEF Inv
  <2>3. QED
    BY <2>1, <2>2 DEF ChanInv, OpInv, SubInv, Forgotten
<1>2. Inv => Bookkeeping
  BY <1>1 DEF Inv, Types, Locked, Bookkeeping
<1>3. QED
  BY <1>2, Inductive, PTL
=============================================================================
