-------------------------- MODULE DiscoveryProofs --------------------------
(***************************************************************************)
(* StatesAgree, AnsweredOnceByAll and NoFalseTimeout hold for any number   *)
(* of processes, threads, connections, searches and discover() operations. *)
(***************************************************************************)
EXTENDS DiscoverySystem, FiniteSetTheorems, SequenceTheorems, TLAPS

States == {"Stopped", "Starting", "Running", "Stopping"}
PCs == {"idle", "begin", "starting", "wait", "stop", "stopping", "sync"}
AllListeners == UNION {Listeners[p] : p \in Procs}
Server == [st : States, tcp : BOOLEAN, udp : SUBSET AllListeners, armed : BOOLEAN,
           conns : Nat, change : Nat, count : Nat, done : BOOLEAN, tcpSeen : BOOLEAN, guid : Nat]
Thread == [pc : PCs, run : BOOLEAN]

LifeType ==
    /\ srv \in [Procs -> Server]
    /\ thr \in [Procs -> [Threads -> Thread]]

\* What a server has in each of its states
Parts(p) ==
    LET s == srv[p]
    IN  /\ s.conns <= MaxConn /\ s.change < ChangeMod /\ s.count <= Burst
        /\ s.st = "Stopped" => ~s.tcp /\ s.udp = {} /\ ~s.armed /\ s.conns = 0
        /\ s.st = "Starting" => s.tcp /\ ~s.armed
        /\ s.st = "Running" => s.tcp /\ s.udp = Listeners[p] /\ s.armed
        /\ s.st = "Stopping" => ~s.armed

\* The thread which is at work in start() or stop()
AtWork(p) ==
    /\ \A t, u \in Threads :
          thr[p][t].pc \in {"starting", "stopping"} /\ thr[p][u].pc \in {"starting", "stopping"} => t = u
    /\ srv[p].st = "Starting" <=> \E t \in Threads : thr[p][t].pc = "starting"
    /\ srv[p].st = "Stopping" <=> \E t \in Threads : thr[p][t].pc = "stopping"

\* Datagrams on their way
News == [cmd : {"BEACON", "PONG"}, to : {"client"}, from : Procs, guid : Nat, change : Nat]
Searches == [pkt : Packets, at : Nat, calm : BOOLEAN]
NetType ==
    /\ sc \in Scenarios /\ changes \in Nat /\ sent \in Seq(Searches)
    /\ \A m \in net : m \in News \/ (m \in Packets /\ m.to \in Procs)

LifeInv == LifeType /\ \A p \in Procs : Parts(p) /\ AtWork(p)

Track == [known : BOOLEAN, guid : Nat, change : Nat, age : Nat]
Event == [ev : {"none", "Online", "Timeout"}, guid : Nat]
Disc == [st : {"new", "running", "done"}, last : [Origins -> Event]]

\* A discover() operation which has not begun has been told nothing.
ViewInv ==
    /\ track \in [Origins -> Track] /\ disc \in [Discs -> Disc]
    /\ \A d \in Discs, p \in Origins : disc[d].st = "new" => disc[d].last[p].ev = "none"
    /\ ViewAgrees

\* Beacons of a server on their way
Beacons(p) == {m \in net : m.cmd = "BEACON" /\ m.from = p}

\* The time in which the next beacon arrives or is lost, and that for which n of
\* them which were lost account, with the next one
Gap == LongInterval + Delay
Allow(n) == (n + 1) * Gap

\* A server is not older than the beacons lost account for; what is left until the
\* next one is due counts too, unless that is on its way.
AgeOf(p) ==
    /\ ~track[p].known => track[p].age = 0
    /\ Beacons(p) # {} => p \in sc.procs
    /\ p \in steady => srv[p].armed /\ track[p].age <= Allow(missed[p])
    /\ p \in steady /\ Beacons(p) = {} => track[p].age + due[p] <= Allow(missed[p])
AgeInv ==
    /\ steady \subseteq sc.procs /\ missed \in [Procs -> Nat]
    /\ due \in [Procs -> Int] /\ \A p \in Procs : due[p] <= Gap /\ AgeOf(p)

\* Datagrams of a search on their way, and who is to answer it
Copies(n) == {m \in net : m.cmd = "SEARCH" /\ m.id = n}
Wants(n, p) == (sent[n].pkt.names \cap Hosted[p] # {} \/ sent[n].pkt.must) /\ sent[n].pkt.dst # "Ucast6"

NoAnswer == [replies |-> 0, forwards |-> 0]
Answer == [replies : 0..1, forwards : 0..1]
AnswersType ==
    /\ answers \in [Procs -> Seq(Answer)]
    /\ \A p \in Procs : Len(answers[p]) = Len(sent)
SentType == \A n \in 1..Len(sent) : sent[n].pkt \in Requests /\ sent[n].at <= changes
CopiesType == \A m \in net : m.cmd = "SEARCH" => m.id \in 1..Len(sent) /\ m.to \in sc.procs
UdpType == \A p \in Procs : srv[p].udp \subseteq Listeners[p]

\* as it was sent, or as forwardM() makes it
CopyOf(m, r) ==
    /\ m.names = r.names /\ m.must = r.must /\ m.tcp = r.tcp
    /\ \/ m.tag = FALSE /\ m.dst = r.dst
       \/ r.dst = "Ucast" /\ m.dst = "Lo" /\ m.tag = TRUE /\ m.reply = "client"

\* One datagram is on its way to a process at most, which has not answered then;
\* none was forwarded and nobody has answered while the original one is.
OnlyCopy(n) ==
    \A m \in Copies(n) :
        /\ CopyOf(m, sent[n].pkt)
        /\ answers[m.to][n].replies = 0
        /\ \A k \in Copies(n) : k.to = m.to => k = m
        /\ m.dst \in {"Ucast", "Ucast6"} =>
              (\A k \in Copies(n) : k = m) /\ \A p \in Procs : answers[p][n] = NoAnswer

\* Those who are to answer have done so, or the search is on its way to them.
Reached(n) ==
    sent[n].calm /\ sent[n].at = changes =>
        /\ Calm
        /\ \A p \in sc.procs : Wants(n, p) =>
              answers[p][n].replies = 1 \/ \E m \in Copies(n) : m.to = p \/ m.dst = "Ucast"

SearchInv ==
    /\ AnswersType /\ SentType /\ CopiesType /\ UdpType
    /\ \A n \in 1..Len(sent) : OnlyCopy(n) /\ Reached(n)

USE LifeAssumption

\* beaconChange stays below its modulus.
LEMMA Remainder ==
    ASSUME NEW n \in Nat
    PROVE  (n + 1) % ChangeMod \in 0..(ChangeMod - 1)
OBVIOUS

\* A step which leaves the threads alone, and the state, counts and parts of the
\* server in order, keeps the invariant.
LEMMA PartsStep ==
    ASSUME LifeInv, NEW p \in Procs, NEW s \in Server,
           srv' = [srv EXCEPT ![p] = s], thr' = thr, s.st = srv[p].st,
           Parts(p)'
    PROVE  LifeInv'
<1>1. LifeType'
  BY DEF LifeInv, LifeType
<1>2. ASSUME NEW q \in Procs PROVE Parts(q)' /\ AtWork(q)'
  <2>1. CASE q = p
    BY <2>1 DEF LifeInv, LifeType, AtWork
  <2>2. CASE q # p
    BY <2>2 DEF LifeInv, LifeType, Parts, AtWork
  <2> QED BY <2>1, <2>2
<1> QED BY <1>1, <1>2 DEF LifeInv

\* A step of one thread.
LEMMA ThreadStep ==
    ASSUME LifeInv, NEW p \in Procs, NEW t \in Threads, NEW s \in Server, NEW x \in Thread,
           srv' = [srv EXCEPT ![p] = s],
           thr' = [thr EXCEPT ![p] = [thr[p] EXCEPT ![t] = x]],
           Parts(p)', AtWork(p)'
    PROVE  LifeInv'
<1>1. LifeType'
  BY DEF LifeInv, LifeType
<1>2. ASSUME NEW q \in Procs PROVE Parts(q)' /\ AtWork(q)'
  <2>1. CASE q = p
    BY <2>1
  <2>2. CASE q # p
    BY <2>2 DEF LifeInv, LifeType, Parts, AtWork
  <2> QED BY <2>1, <2>2
<1> QED BY <1>1, <1>2 DEF LifeInv

\* start(), stop() and run(), step by step
LEMMA LifeStepInv ==
    ASSUME LifeInv, NEW p \in Procs, NEW t \in Threads, LifeStep(p, t)
    PROVE  LifeInv'
<1>0. /\ srv[p] \in Server /\ thr[p] \in [Threads -> Thread] /\ thr[p][t] \in Thread
      /\ Parts(p) /\ AtWork(p) /\ srv \in [Procs -> Server] /\ thr \in [Procs -> [Threads -> Thread]]
  BY DEF LifeInv, LifeType
<1>a. CASE Start(p, t)
  <2>1. CASE srv[p].st = "Stopped"
    <3> DEFINE s == [srv[p] EXCEPT !.st = "Starting", !.tcp = TRUE]
    <3> DEFINE x == [thr[p][t] EXCEPT !.pc = "starting"]
    <3>1. srv' = [srv EXCEPT ![p] = s] /\ thr' = [thr EXCEPT ![p] = [thr[p] EXCEPT ![t] = x]]
      BY <1>0, <1>a, <2>1 DEF Start, BeginStart, MayStart, Goto
    <3>2. s \in Server /\ x \in Thread
      BY <1>0, <1>a, <2>1 DEF Server, Thread, States, PCs, AllListeners
    <3>3. Parts(p)'
      BY <1>0, <1>a, <2>1, <3>1 DEF Parts, Server, States, AtWork, At
    <3>4. AtWork(p)'
      BY <1>0, <1>a, <2>1, <3>1 DEF AtWork, At, Server, Thread
    <3> QED BY <3>1, <3>2, <3>3, <3>4, ThreadStep
  <2>2. CASE srv[p].st # "Stopped"
    <3> DEFINE s == srv[p]
    <3> DEFINE x == [thr[p][t] EXCEPT !.pc = IF thr[p][t].run THEN "wait" ELSE "idle"]
    <3>1. srv' = [srv EXCEPT ![p] = s] /\ thr' = [thr EXCEPT ![p] = [thr[p] EXCEPT ![t] = x]]
      BY <1>0, <1>a, <2>2 DEF Start, BeginStart, MayStart, EndStart, Goto
    <3>2. s \in Server /\ x \in Thread
      BY <1>0, <1>a, <2>2 DEF Server, Thread, States, PCs, AllListeners, Start
    <3>3. Parts(p)'
      BY <1>0, <1>a, <2>2, <3>1 DEF Parts, Server, States, AtWork, At, Start
    <3>4. AtWork(p)'
      BY <1>0, <1>a, <2>2, <3>1 DEF AtWork, At, Server, Thread, Start
    <3> QED BY <3>1, <3>2, <3>3, <3>4, ThreadStep
  <2> QED BY <2>1, <2>2
<1>b. CASE StartListener(p, t)
  <2>1. PICK l \in Listeners[p] \ srv[p].udp : srv' = [srv EXCEPT ![p].udp = @ \cup {l}]
    BY <1>b DEF StartListener
  <2>2. srv[p].st = "Starting"
    BY <1>0, <1>b DEF StartListener, At, AtWork
  <2>3. srv' = [srv EXCEPT ![p] = [srv[p] EXCEPT !.udp = srv[p].udp \cup {l}]] /\ thr' = thr
    BY <1>b, <2>1 DEF StartListener
  <2>4. [srv[p] EXCEPT !.udp = srv[p].udp \cup {l}] \in Server
    BY <1>0 DEF Server, AllListeners
  <2>5. Parts(p)'
    BY <1>0, <2>2, <2>3 DEF Parts, Server
  <2> QED BY <1>0, <2>3, <2>4, <2>5, PartsStep DEF Server
<1>c. CASE FinishStart(p, t)
  <2>0. srv[p].st = "Starting" /\ srv[p].udp = Listeners[p] /\ thr[p][t].pc = "starting"
    BY <1>0, <1>c DEF FinishStart, At, AtWork
  <2> DEFINE s == [srv[p] EXCEPT !.armed = TRUE, !.st = "Running"]
  <2> DEFINE x == [thr[p][t] EXCEPT !.pc = IF thr[p][t].run THEN "wait" ELSE "idle"]
  <2>1. srv' = [srv EXCEPT ![p] = s] /\ thr' = [thr EXCEPT ![p] = [thr[p] EXCEPT ![t] = x]]
    BY <1>0, <1>c, <2>0 DEF FinishStart, EndStart, Goto
  <2>2. s \in Server /\ x \in Thread
    BY <1>0, <1>c, <2>0 DEF Server, Thread, States, PCs, AllListeners
  <2>3. Parts(p)'
    BY <1>0, <1>c, <2>0, <2>1 DEF Parts, Server, States, AtWork, At
  <2>4. AtWork(p)'
    BY <1>0, <1>c, <2>0, <2>1 DEF AtWork, At, Server, Thread
  <2> QED BY <2>1, <2>2, <2>3, <2>4, ThreadStep
<1>d. CASE Wake(p, t)
  <2> DEFINE s == [srv[p] EXCEPT !.done = FALSE]
  <2> DEFINE x == [pc |-> "stop", run |-> FALSE]
  <2>1. srv' = [srv EXCEPT ![p] = s] /\ thr' = [thr EXCEPT ![p] = [thr[p] EXCEPT ![t] = x]]
    BY <1>0, <1>d DEF Wake
  <2>2. s \in Server /\ x \in Thread
    BY <1>0, <1>d DEF Server, Thread, States, PCs, AllListeners, Wake
  <2>3. Parts(p)'
    BY <1>0, <1>d, <2>1 DEF Parts, Server, States, AtWork, At, Wake
  <2>4. AtWork(p)'
    BY <1>0, <1>d, <2>1 DEF AtWork, At, Server, Thread, Wake
  <2> QED BY <2>1, <2>2, <2>3, <2>4, ThreadStep
<1>e. CASE Stop(p, t)
  <2>1. CASE srv[p].st = "Running"
    <3> DEFINE s == [srv[p] EXCEPT !.st = "Stopping", !.armed = FALSE]
    <3> DEFINE x == [thr[p][t] EXCEPT !.pc = "stopping"]
    <3>1. srv' = [srv EXCEPT ![p] = s] /\ thr' = [thr EXCEPT ![p] = [thr[p] EXCEPT ![t] = x]]
      BY <1>0, <1>e, <2>1 DEF Stop, Goto
    <3>2. s \in Server /\ x \in Thread
      BY <1>0, <1>e, <2>1 DEF Server, Thread, States, PCs, AllListeners
    <3>3. Parts(p)'
      BY <1>0, <1>e, <2>1, <3>1 DEF Parts, Server, States, AtWork, At
    <3>4. AtWork(p)'
      BY <1>0, <1>e, <2>1, <3>1 DEF AtWork, At, Server, Thread
    <3> QED BY <3>1, <3>2, <3>3, <3>4, ThreadStep
  <2>2. CASE srv[p].st # "Running"
    <3> DEFINE s == srv[p]
    <3> DEFINE x == [thr[p][t] EXCEPT !.pc = "idle"]
    <3>1. srv' = [srv EXCEPT ![p] = s] /\ thr' = [thr EXCEPT ![p] = [thr[p] EXCEPT ![t] = x]]
      BY <1>0, <1>e, <2>2 DEF Stop, Goto
    <3>2. s \in Server /\ x \in Thread
      BY <1>0, <1>e, <2>2 DEF Server, Thread, States, PCs, AllListeners, Stop
    <3>3. Parts(p)'
      BY <1>0, <1>e, <2>2, <3>1 DEF Parts, Server, States, AtWork, At, Stop
    <3>4. AtWork(p)'
      BY <1>0, <1>e, <2>2, <3>1 DEF AtWork, At, Server, Thread, Stop
    <3> QED BY <3>1, <3>2, <3>3, <3>4, ThreadStep
  <2> QED BY <2>1, <2>2
<1>f. CASE StopListener(p, t)
  <2>1. PICK l \in srv[p].udp : srv' = [srv EXCEPT ![p].udp = @ \ {l}]
    BY <1>f DEF StopListener
  <2>2. srv[p].st = "Stopping"
    BY <1>0, <1>f DEF StopListener, At, AtWork
  <2>3. srv' = [srv EXCEPT ![p] = [srv[p] EXCEPT !.udp = srv[p].udp \ {l}]] /\ thr' = thr
    BY <1>f, <2>1 DEF StopListener
  <2>4. [srv[p] EXCEPT !.udp = srv[p].udp \ {l}] \in Server
    BY <1>0 DEF Server
  <2>5. Parts(p)'
    BY <1>0, <2>2, <2>3 DEF Parts, Server
  <2> QED BY <1>0, <2>3, <2>4, <2>5, PartsStep DEF Server
<1>g. CASE FinishStop(p, t)
  <2>0. srv[p].st = "Stopping" /\ srv[p].udp = {} /\ thr[p][t].pc = "stopping"
    BY <1>0, <1>g DEF FinishStop, At, AtWork
  <2> DEFINE s == [srv[p] EXCEPT !.tcp = FALSE, !.conns = 0, !.st = "Stopped"]
  <2> DEFINE x == [thr[p][t] EXCEPT !.pc = "sync"]
  <2>1. srv' = [srv EXCEPT ![p] = s] /\ thr' = [thr EXCEPT ![p] = [thr[p] EXCEPT ![t] = x]]
    BY <1>0, <1>g, <2>0 DEF FinishStop, Goto, NoConns
  <2>2. s \in Server /\ x \in Thread
    BY <1>0, <1>g, <2>0 DEF Server, Thread, States, PCs, AllListeners
  <2>3. Parts(p)'
    BY <1>0, <1>g, <2>0, <2>1 DEF Parts, Server, States, AtWork, At
  <2>4. AtWork(p)'
    BY <1>0, <1>g, <2>0, <2>1 DEF AtWork, At, Server, Thread
  <2> QED BY <2>1, <2>2, <2>3, <2>4, ThreadStep
<1>h. CASE SyncStop(p, t)
  <2> DEFINE s == srv[p]
  <2> DEFINE x == [thr[p][t] EXCEPT !.pc = "idle"]
  <2>1. srv' = [srv EXCEPT ![p] = s] /\ thr' = [thr EXCEPT ![p] = [thr[p] EXCEPT ![t] = x]]
    BY <1>0, <1>h DEF SyncStop, Goto
  <2>2. s \in Server /\ x \in Thread
    BY <1>0, <1>h DEF Server, Thread, States, PCs, AllListeners, SyncStop
  <2>3. Parts(p)'
    BY <1>0, <1>h, <2>1 DEF Parts, Server, States, AtWork, At, SyncStop
  <2>4. AtWork(p)'
    BY <1>0, <1>h, <2>1 DEF AtWork, At, Server, Thread, SyncStop
  <2> QED BY <2>1, <2>2, <2>3, <2>4, ThreadStep
<1> QED BY <1>a, <1>b, <1>c, <1>d, <1>e, <1>f, <1>g, <1>h DEF LifeStep

USE ScenarioAssumption

\* What other threads and the peers do to a server
LEMMA LifeNext ==
    ASSUME LifeInv, NetType, Next
    PROVE  LifeInv'
<1>0. ASSUME NEW p \in Procs
      PROVE  /\ srv[p] \in Server /\ thr[p] \in [Threads -> Thread] /\ Parts(p) /\ AtWork(p)
             /\ srv \in [Procs -> Server] /\ thr \in [Procs -> [Threads -> Thread]]
  BY <1>0 DEF LifeInv, LifeType
<1>1. sc.procs \subseteq Procs /\ sc.threads \subseteq Threads
  BY DEF NetType
<1>2. CASE UNCHANGED lvars
  BY <1>2 DEF lvars, LifeInv, LifeType, Parts, AtWork
<1>a. ASSUME NEW p \in Procs, NEW t \in Threads, CallStart(p, t) PROVE LifeInv'
  <2> DEFINE x == [thr[p][t] EXCEPT !.pc = "begin"]
  <2>1. srv' = [srv EXCEPT ![p] = srv[p]] /\ thr' = [thr EXCEPT ![p] = [thr[p] EXCEPT ![t] = x]]
    BY <1>0, <1>a DEF CallStart, Goto, Thread
  <2>2. x \in Thread
    BY <1>0 DEF Thread, PCs
  <2>3. Parts(p)'
    BY <1>0, <2>1 DEF Parts
  <2>4. AtWork(p)'
    BY <1>0, <1>a, <2>1 DEF AtWork, At, CallStart, Thread
  <2> QED BY <1>0, <2>1, <2>2, <2>3, <2>4, ThreadStep
<1>b. ASSUME NEW p \in Procs, NEW t \in Threads, CallRun(p, t) PROVE LifeInv'
  <2> DEFINE x == [pc |-> "begin", run |-> TRUE]
  <2>1. srv' = [srv EXCEPT ![p] = srv[p]] /\ thr' = [thr EXCEPT ![p] = [thr[p] EXCEPT ![t] = x]]
    BY <1>0, <1>b DEF CallRun, Goto, Thread
  <2>2. x \in Thread
    BY <1>0 DEF Thread, PCs
  <2>3. Parts(p)'
    BY <1>0, <2>1 DEF Parts
  <2>4. AtWork(p)'
    BY <1>0, <1>b, <2>1 DEF AtWork, At, CallRun, Thread
  <2> QED BY <1>0, <2>1, <2>2, <2>3, <2>4, ThreadStep
<1>c. ASSUME NEW p \in Procs, NEW t \in Threads, CallStop(p, t) PROVE LifeInv'
  <2> DEFINE x == [thr[p][t] EXCEPT !.pc = "stop"]
  <2>1. srv' = [srv EXCEPT ![p] = srv[p]] /\ thr' = [thr EXCEPT ![p] = [thr[p] EXCEPT ![t] = x]]
    BY <1>0, <1>c DEF CallStop, Goto, Thread
  <2>2. x \in Thread
    BY <1>0 DEF Thread, PCs
  <2>3. Parts(p)'
    BY <1>0, <2>1 DEF Parts
  <2>4. AtWork(p)'
    BY <1>0, <1>c, <2>1 DEF AtWork, At, CallStop, Thread
  <2> QED BY <1>0, <2>1, <2>2, <2>3, <2>4, ThreadStep
<1>d. ASSUME NEW p \in Procs, Interrupt(p) PROVE LifeInv'
  <2> DEFINE s == [srv[p] EXCEPT !.done = TRUE]
  <2>1. srv' = [srv EXCEPT ![p] = s] /\ thr' = thr
    BY <1>0, <1>d DEF Interrupt
  <2>2. s \in Server /\ s.st = srv[p].st
    BY <1>0, <1>d DEF Interrupt, Server, Parts
  <2>3. Parts(p)'
    BY <1>0, <1>d, <2>1 DEF Interrupt, Parts, Server
  <2> QED BY <2>1, <2>2, <2>3, PartsStep
<1>e. ASSUME NEW p \in Procs, ChangeSources(p) PROVE LifeInv'
  <2>1. srv[p].change \in Nat
    BY <1>0 DEF Server
  <2>2. PICK n \in 0..(ChangeMod - 1) : n = (srv[p].change + 1) % ChangeMod
    BY <2>1, Remainder
  <2> DEFINE s == [srv[p] EXCEPT !.change = n]
  <2>3. srv' = [srv EXCEPT ![p] = s] /\ thr' = thr
    BY <1>0, <1>e, <2>2 DEF ChangeSources
  <2>4. n \in Nat /\ n < ChangeMod
    OBVIOUS
  <2>5. s \in Server /\ s.st = srv[p].st
    BY <1>0, <2>4 DEF Server
  <2>6. Parts(p)'
    BY <1>0, <2>3, <2>4 DEF Parts, Server
  <2> QED BY <2>3, <2>5, <2>6, PartsStep
<1>f. ASSUME NEW p \in Procs, AcceptConn(p) PROVE LifeInv'
  <2> DEFINE s == [srv[p] EXCEPT !.conns = srv[p].conns + 1]
  <2>1. srv' = [srv EXCEPT ![p] = s] /\ thr' = thr
    BY <1>0, <1>f DEF AcceptConn
  <2>2. s \in Server /\ s.st = srv[p].st
    BY <1>0, <1>f DEF AcceptConn, Server, Parts
  <2>3. Parts(p)'
    BY <1>0, <1>f, <2>1 DEF AcceptConn, Parts, Server
  <2> QED BY <2>1, <2>2, <2>3, PartsStep
<1>g. ASSUME NEW p \in Procs, EndConn(p) PROVE LifeInv'
  <2> DEFINE s == [srv[p] EXCEPT !.conns = srv[p].conns - 1]
  <2>1. srv' = [srv EXCEPT ![p] = s] /\ thr' = thr
    BY <1>0, <1>g DEF EndConn
  <2>0. srv[p].conns - 1 \in Nat /\ srv[p].conns - 1 < srv[p].conns /\ srv[p].conns > 0
    BY <1>0, <1>g DEF EndConn, Server
  <2>2. s \in Server /\ s.st = srv[p].st
    BY <1>0, <2>0 DEF Server
  <2>3. Parts(p)'
    BY <1>0, <2>0, <2>1 DEF Parts, Server
  <2> QED BY <2>1, <2>2, <2>3, PartsStep
<1>h. ASSUME NEW p \in Procs, SendBeacon(p) PROVE LifeInv'
  <2> DEFINE s == [srv[p] EXCEPT !.count = IF srv[p].count < Burst THEN srv[p].count + 1 ELSE srv[p].count]
  <2>1. srv' = [srv EXCEPT ![p] = s] /\ thr' = thr
    BY <1>0, <1>h DEF SendBeacon, Beaconed
  <2>0. srv[p] \in Server /\ (IF srv[p].count < Burst THEN srv[p].count + 1 ELSE srv[p].count) \in Nat
    BY <1>0 DEF Server
  <2>2. s \in Server /\ s.st = srv[p].st
    BY <2>0 DEF Server
  <2>3. Parts(p)'
    BY <1>0, <1>h, <2>1 DEF SendBeacon, Beaconed, Parts, Server
  <2> QED BY <2>1, <2>2, <2>3, PartsStep
<1>i. ASSUME NEW p \in Procs, Crash(p) PROVE LifeInv'
  <2>1. /\ srv' = [srv EXCEPT ![p] = NewServer(srv[p].guid + 1)]
        /\ thr' = [thr EXCEPT ![p] = [t \in Threads |-> Idle]]
    BY <1>i DEF Crash
  <2>2. NewServer(srv[p].guid + 1) \in Server /\ Idle \in Thread
    BY <1>0 DEF NewServer, Server, States, Idle, Thread, PCs
  <2>3. Parts(p)' /\ AtWork(p)'
    BY <1>0, <2>1 DEF NewServer, Parts, AtWork, Idle
  <2>4. LifeType'
    BY <1>0, <2>1, <2>2 DEF LifeInv, LifeType
  <2>5. ASSUME NEW q \in Procs, q # p PROVE Parts(q)' /\ AtWork(q)'
    BY <1>0, <2>1, <2>5 DEF LifeInv, LifeType, Parts, AtWork
  <2> QED BY <2>3, <2>4, <2>5 DEF LifeInv
<1>j. ASSUME NEW m \in net, RecvSearch(m) PROVE LifeInv'
  <2> DEFINE p == m.to
  <2>0. m \in Packets /\ p \in Procs
    BY <1>j DEF RecvSearch, NetType, News
  <2> DEFINE seen == IF Accepts(m) THEN TcpSeen(srv[p].tcpSeen, m) ELSE srv[p].tcpSeen
  <2> DEFINE s == [srv[p] EXCEPT !.tcpSeen = seen]
  <2>1. srv' = [srv EXCEPT ![p] = s] /\ thr' = thr
    BY <1>0, <1>j, <2>0 DEF RecvSearch
  <2>2. seen \in BOOLEAN
    BY <1>0, <2>0 DEF TcpSeen, Server, Packets
  <2>3. s \in Server /\ s.st = srv[p].st
    BY <1>0, <2>0, <2>2 DEF Server
  <2>4. Parts(p)'
    BY <1>0, <2>0, <2>1 DEF Parts, Server
  <2> QED BY <2>0, <2>1, <2>3, <2>4, PartsStep
<1>k. ASSUME Life PROVE LifeInv'
  BY <1>1, <1>k, LifeStepInv DEF Life
<1>l. ASSUME User PROVE LifeInv'
  <2>1. PICK p \in sc.procs, t \in sc.threads :
           CallStart(p, t) \/ CallRun(p, t) \/ Interrupt(p) \/ CallStop(p, t) \/ ChangeSources(p)
    BY <1>l DEF User
  <2> QED BY <1>1, <1>a, <1>b, <1>c, <1>d, <1>e, <2>1
<1>m. ASSUME Connections PROVE LifeInv'
  BY <1>1, <1>f, <1>g, <1>m DEF Connections
<1>n. ASSUME Search \/ Clean \/ Tick \/ (\E d \in Discs : StartDiscover(d) \/ StopDiscover(d))
             \/ (\E m \in net : RecvBeacon(m) \/ LoseBeacon(m) \/ RecvPong(m))
      PROVE  UNCHANGED lvars
  BY <1>n DEF Search, Clean, Tick, StartDiscover, StopDiscover, RecvBeacon, LoseBeacon, RecvPong
<1> QED BY <1>1, <1>2, <1>h, <1>i, <1>j, <1>k, <1>l, <1>m, <1>n DEF Next

\* A search is recorded.
LEMMA Recorded ==
    ASSUME NetType, NEW r \in Requests, SendSearch(r)
    PROVE  sent' \in Seq(Searches)
<1>1. Calm \in BOOLEAN
  BY DEF Calm
<1> DEFINE e == [pkt |-> r, at |-> changes, calm |-> Calm]
<1>2. sent' = Append(sent, e)
  BY DEF SendSearch
<1>3. e \in Searches
  <2> HIDE DEF Calm
  <2> QED BY <1>1 DEF NetType, Searches
<1> HIDE DEF e
<1> QED BY <1>2, <1>3 DEF NetType

\* Datagrams are those which servers and the client send.
LEMMA NetStep ==
    ASSUME LifeInv, NetType, Next
    PROVE  NetType'
<1>1. sc.procs \subseteq Procs /\ sc \in Scenarios /\ sc' = sc
  BY DEF NetType, Next, User, Life, Connections, Search, Clean, Tick, Crash, SendBeacon, StartDiscover,
         StopDiscover, RecvBeacon, LoseBeacon, RecvPong, RecvSearch
<1>2. changes' = changes \/ changes' = changes + 1
  BY DEF Next, User, May, Life, Connections, Search, Clean, Tick, Crash, SendBeacon, StartDiscover,
         StopDiscover, RecvBeacon, LoseBeacon, RecvPong, RecvSearch, hvars
<1>3. sent' = sent \/ \E r \in Requests : SendSearch(r)
  BY DEF Next, User, Life, Connections, Search, Clean, Tick, Crash, SendBeacon, StartDiscover, nvars,
         StopDiscover, RecvBeacon, LoseBeacon, RecvPong, RecvSearch
<1>4. sent' \in Seq(Searches) /\ changes' \in Nat
  BY <1>2, <1>3, Recorded DEF NetType
<1> SUFFICES ASSUME NEW m \in net', m \notin net PROVE m \in News \/ (m \in Packets /\ m.to \in Procs)
  BY <1>1, <1>4 DEF NetType
<1>5. ASSUME NEW p \in Procs PROVE srv[p].guid \in Nat /\ srv[p].change \in Nat
  BY <1>5 DEF LifeInv, LifeType, Server
<1>6. ASSUME NEW p \in sc.procs, SendBeacon(p) PROVE m \in News
  BY <1>1, <1>5, <1>6 DEF SendBeacon, Beacon, News
<1>7. ASSUME NEW pkt \in Packets, m \in Deliveries(pkt) PROVE m \in Packets /\ m.to \in Procs
  BY <1>1, <1>7 DEF Deliveries, Packets
<1>8. ASSUME NEW r \in Requests, SendSearch(r) PROVE m \in Packets /\ m.to \in Procs
  <2>1. PICK p \in sc.procs : m \in Deliveries([r EXCEPT !.id = Len(sent) + 1, !.to = IF r.dst = "Bcast" THEN "all" ELSE p])
    BY <1>8 DEF SendSearch
  <2>2. Len(sent) + 1 \in Nat
    BY DEF NetType
  <2>3. [r EXCEPT !.id = Len(sent) + 1, !.to = IF r.dst = "Bcast" THEN "all" ELSE p] \in Packets
    BY <1>1, <2>2 DEF Packets
  <2> QED BY <1>7, <2>1, <2>3
<1>9. ASSUME NEW k \in net, RecvSearch(k) PROVE m \in News \/ (m \in Packets /\ m.to \in Procs)
  <2>1. k \in Packets /\ k.to \in Procs
    BY <1>9 DEF RecvSearch, NetType, News
  <2>2. CASE m \in Deliveries([ForwardOf(k) EXCEPT !.to = "all"])
    <3>1. [ForwardOf(k) EXCEPT !.to = "all"] \in Packets
      BY <2>1 DEF ForwardOf, Packets
    <3> QED BY <1>7, <2>2, <3>1
  <2>3. CASE m = [cmd |-> "PONG", to |-> "client", from |-> k.to, guid |-> srv[k.to].guid, change |-> 0]
    BY <1>5, <2>1, <2>3 DEF News
  <2> QED BY <1>9, <2>2, <2>3 DEF RecvSearch
<1>10. ASSUME NEW d \in Discs, StartDiscover(d) PROVE \E r \in Requests : SendSearch(r)
  BY <1>10 DEF StartDiscover, nvars
<1> QED
  BY <1>6, <1>8, <1>9, <1>10
  DEF Next, User, Life, Connections, Search, Clean, Tick, Crash, StopDiscover, RecvBeacon, LoseBeacon, RecvPong, nvars

USE TrackAssumption

\* What serverEvent() tells
LEMMA Told ==
    ASSUME NEW ds \in [Discs -> Disc], NEW p \in Origins, NEW ev \in {"Online", "Timeout"}, NEW g \in Nat,
           NEW d \in Discs
    PROVE  /\ ServerEvent(ds, p, ev, g) \in [Discs -> Disc]
           /\ ServerEvent(ds, p, ev, g)[d].st = ds[d].st
           /\ \A q \in Origins :
                 ServerEvent(ds, p, ev, g)[d].last[q] =
                     IF ds[d].st = "running" /\ q = p THEN [ev |-> ev, guid |-> g] ELSE ds[d].last[q]
<1> DEFINE told(x) == IF ds[x].st = "running" THEN [ds[x] EXCEPT !.last = [ds[x].last EXCEPT ![p] = [ev |-> ev, guid |-> g]]] ELSE ds[x]
<1>1. ServerEvent(ds, p, ev, g) = [x \in Discs |-> told(x)]
  BY DEF ServerEvent
<1>2. ASSUME NEW x \in Discs PROVE told(x) \in Disc
  <2>1. ds[x] \in Disc /\ [ev |-> ev, guid |-> g] \in Event
    BY DEF Event
  <2>2. [ds[x].last EXCEPT ![p] = [ev |-> ev, guid |-> g]] \in [Origins -> Event]
    BY <2>1 DEF Disc
  <2> QED BY <2>1, <2>2 DEF Disc
<1>3. told(d).st = ds[d].st
  BY DEF Disc
<1>4. ASSUME NEW q \in Origins
      PROVE  told(d).last[q] = IF ds[d].st = "running" /\ q = p THEN [ev |-> ev, guid |-> g] ELSE ds[d].last[q]
  BY DEF Disc
<1> HIDE DEF told
<1> QED BY <1>1, <1>2, <1>3, <1>4

\* onBeacon(), a discovery pong included
LEMMA BeaconView ==
    ASSUME ViewInv, NEW p \in Origins, NEW g \in Nat, NEW c \in Nat, OnBeacon(p, g, c)
    PROVE  ViewInv'
<1> DEFINE new == ~track[p].known
<1> DEFINE upd == track[p].known /\ Changed(track[p], g, c)
<1> DEFINE gone == IF upd THEN ServerEvent(disc, p, "Timeout", track[p].guid) ELSE disc
<1>0. track \in [Origins -> Track] /\ disc \in [Discs -> Disc] /\ track[p].guid \in Nat
  BY DEF ViewInv, Track
<1> DEFINE x == ServerEvent(disc, p, "Timeout", track[p].guid)
<1>t. ASSUME NEW d \in Discs
      PROVE  /\ x \in [Discs -> Disc] /\ x[d].st = disc[d].st
             /\ \A q \in Origins : q # p \/ disc[d].st # "running" => x[d].last[q] = disc[d].last[q]
  <2>1. PICK ds \in [Discs -> Disc], n \in Nat : ds = disc /\ n = track[p].guid
    BY <1>0
  <2>2. x = ServerEvent(ds, p, "Timeout", n)
    BY <2>1
  <2>t. "Timeout" \in {"Online", "Timeout"}
    OBVIOUS
  <2>3. ServerEvent(ds, p, "Timeout", n)[d].st = ds[d].st
    BY DEF ServerEvent, Disc
  <2>5. ServerEvent(ds, p, "Timeout", n) \in [Discs -> Disc]
    BY <2>t, Told, Zenon
  <2>4. \A q \in Origins :
           ServerEvent(ds, p, "Timeout", n)[d].last[q] =
               IF ds[d].st = "running" /\ q = p THEN [ev |-> "Timeout", guid |-> n] ELSE ds[d].last[q]
    BY Told
  <2> HIDE DEF x
  <2> QED BY <2>1, <2>2, <2>3, <2>4, <2>5
<1>1. CASE new /\ TrackFull
  BY <1>1 DEF OnBeacon, ViewInv, ViewAgrees, bvars
<1>2. CASE ~(new /\ TrackFull)
  <2>1. track' = [track EXCEPT ![p] = [known |-> TRUE, guid |-> g, change |-> c, age |-> 0]]
    BY <1>2 DEF OnBeacon
  <2>2. track' \in [Origins -> Track]
    BY <1>0, <2>1 DEF Track
  <2>3. CASE new \/ upd
    <3>1. disc' = ServerEvent(gone, p, "Online", g)
      BY <1>2, <2>3 DEF OnBeacon
    <3>2. gone \in [Discs -> Disc]
      <4>1. CASE Discs = {}
        BY <1>0, <4>1 DEF ServerEvent
      <4> QED BY <1>0, <1>t, <4>1
    <3>3. ASSUME NEW d \in Discs
          PROVE  /\ gone[d].st = disc[d].st
                 /\ \A q \in Origins : q # p \/ disc[d].st # "running" => gone[d].last[q] = disc[d].last[q]
      <4>1. gone = x \/ gone = disc
        OBVIOUS
      <4> HIDE DEF x, gone
      <4> QED BY <1>t, <4>1
    <3>4. ASSUME NEW d \in Discs
          PROVE  /\ disc' \in [Discs -> Disc] /\ disc'[d].st = disc[d].st
                 /\ \A q \in Origins : disc'[d].last[q] = IF disc[d].st = "running" /\ q = p THEN [ev |-> "Online", guid |-> g]
                                                          ELSE disc[d].last[q]
      <4> HIDE DEF gone
      <4> QED BY <3>1, <3>2, <3>3, Told
    <3>5. disc' \in [Discs -> Disc]
      <4>1. CASE Discs = {}
        BY <3>1, <4>1 DEF ServerEvent
      <4> QED BY <3>4, <4>1
    <3> QED BY <1>0, <2>1, <2>2, <3>4, <3>5 DEF ViewInv, ViewAgrees
  <2>4. CASE ~(new \/ upd)
    <3>1. disc' = disc /\ track[p].known /\ track[p].guid = g
      BY <1>2, <2>4 DEF OnBeacon, Changed
    <3> QED BY <1>0, <2>1, <2>2, <3>1 DEF ViewInv, ViewAgrees, Track
  <2> QED BY <2>3, <2>4
<1> QED BY <1>1, <1>2

\* tickBeaconClean()
LEMMA CleanView ==
    ASSUME ViewInv, CleanTick
    PROVE  ViewInv'
<1> DEFINE old == {p \in Tracked : TooOld(track[p])}
<1>0. track \in [Origins -> Track] /\ disc \in [Discs -> Disc]
  BY DEF ViewInv
<1>1. ASSUME NEW p \in Origins
      PROVE  /\ track'[p] \in Track
             /\ p \in old => ~track'[p].known
             /\ p \notin old => track'[p].known = track[p].known /\ (track[p].known => track'[p].guid = track[p].guid)
  <2>1. track[p] \in Track /\ None \in Track /\ ~None.known
    BY <1>0 DEF None, Track
  <2>2. track'[p] = IF p \in old THEN None
                    ELSE track[p]
    BY DEF CleanTick
  <2> HIDE DEF old
  <2> QED BY <2>1, <2>2 DEF Track
<1>2. track' \in [Origins -> Track]
  BY <1>1 DEF CleanTick
<1>3. ASSUME NEW d \in Discs
      PROVE  /\ disc'[d] \in Disc /\ disc'[d].st = disc[d].st
             /\ \A p \in Origins : disc'[d].last[p] = IF disc[d].st = "running" /\ p \in old
                                                      THEN [ev |-> "Timeout", guid |-> track[p].guid] ELSE disc[d].last[p]
  <2> DEFINE l == [p \in Origins |-> IF p \in old THEN [ev |-> "Timeout", guid |-> track[p].guid] ELSE disc[d].last[p]]
  <2>1. disc'[d] = IF disc[d].st # "running" THEN disc[d] ELSE [disc[d] EXCEPT !.last = l]
    BY DEF CleanTick, CleanEvents
  <2>2. disc[d] \in Disc
    BY <1>0
  <2>3. ASSUME NEW p \in Origins PROVE [ev |-> "Timeout", guid |-> track[p].guid] \in Event /\ disc[d].last[p] \in Event
    BY <1>0, <2>2 DEF Event, Track, Disc
  <2>4. l \in [Origins -> Event]
    BY <2>3
  <2> QED BY <2>1, <2>2, <2>4 DEF Disc
<1>4. disc' \in [Discs -> Disc]
  BY <1>3 DEF CleanTick, CleanEvents
<1>5. \A p \in old : p \in Origins
  BY DEF Tracked
<1> HIDE DEF old
<1>6. ASSUME NEW d \in Discs, NEW p \in Origins, disc'[d].st = "new" PROVE disc'[d].last[p].ev = "none"
  <2>1. disc[d].st = "new"
    BY <1>3, <1>6
  <2>2. disc'[d].last[p] = disc[d].last[p]
    BY <1>3, <2>1
  <2> QED BY <2>1, <2>2 DEF ViewInv
<1>7. ASSUME NEW d \in Discs, NEW p \in Procs, disc'[d].st = "running"
      PROVE  /\ disc'[d].last[p].ev = "Online" => track'[p].known /\ track'[p].guid = disc'[d].last[p].guid
             /\ disc'[d].last[p].ev = "Timeout" => ~track'[p].known
  <2>0. disc[d].st = "running" /\ p \in Origins
    BY <1>3, <1>7
  <2>1. CASE p \in old
    <3>1. disc'[d].last[p] = [ev |-> "Timeout", guid |-> track[p].guid] /\ ~track'[p].known
      BY <1>1, <1>3, <2>0, <2>1
    <3> QED BY <3>1
  <2>2. CASE p \notin old
    <3>1. disc'[d].last[p] = disc[d].last[p]
      BY <1>3, <2>0, <2>2
    <3> QED BY <1>1, <2>0, <2>2, <3>1 DEF ViewInv, ViewAgrees
  <2> QED BY <2>1, <2>2
<1>8. ViewAgrees'
  BY <1>7 DEF ViewAgrees
<1> QED BY <1>2, <1>4, <1>6, <1>8 DEF ViewInv

\* Time passes: nothing becomes known, lost or another server.
LEMMA Aged ==
    ASSUME NEW cur \in Track
    PROVE  /\ Older(cur) \in Track
           /\ Older(cur).known = cur.known /\ Older(cur).guid = cur.guid
           /\ Older(cur).age <= cur.age + 1 /\ (~cur.known => Older(cur).age = cur.age)
<1>1. CASE cur.known /\ cur.age <= MaxAge
  <2>1. Older(cur) = [cur EXCEPT !.age = cur.age + 1]
    BY <1>1 DEF Older
  <2>2. cur.age + 1 \in Nat
    BY DEF Track
  <2>3. [cur EXCEPT !.age = cur.age + 1] \in Track
    BY <2>2 DEF Track
  <2>4. Older(cur).known = cur.known /\ Older(cur).guid = cur.guid /\ Older(cur).age = cur.age + 1
    BY <2>1 DEF Track
  <2>5. Older(cur) \in Track
    BY <2>1, <2>3
  <2> QED BY <1>1, <2>2, <2>4, <2>5
<1>2. CASE ~(cur.known /\ cur.age <= MaxAge)
  <2>1. Older(cur) = cur
    BY <1>2 DEF Older
  <2> QED BY <2>1 DEF Track
<1> QED BY <1>1, <1>2

\* Nobody is told anything then.
LEMMA AgingView ==
    ASSUME ViewInv, Aging
    PROVE  ViewInv'
<1>1. track' \in [Origins -> Track] /\ disc' = disc
  BY Aged DEF Aging, ViewInv
<1>2. ASSUME NEW p \in Origins PROVE track'[p].known = track[p].known /\ track'[p].guid = track[p].guid
  BY Aged DEF Aging, ViewInv
<1> QED BY <1>1, <1>2, ScenarioAssumption DEF ViewInv, ViewAgrees

\* discover() begins or is cancelled.
LEMMA DiscoverView ==
    ASSUME ViewInv, NEW d \in Discs, Discover(d) \/ Cancel(d)
    PROVE  ViewInv'
<1>1. PICK st \in {"running", "done"} :
         /\ disc' = [disc EXCEPT ![d] = [disc[d] EXCEPT !.st = st]] /\ track' = track
         /\ disc[d].st # "running" => disc[d].st = "new"
  BY DEF Discover, Cancel
<1>2. disc' \in [Discs -> Disc] /\ track' \in [Origins -> Track]
  BY <1>1 DEF ViewInv, Disc
<1>3. ASSUME NEW e \in Discs PROVE disc'[e].last = disc[e].last
  BY <1>1 DEF ViewInv, Disc
<1>4. ASSUME NEW e \in Discs, disc'[e].st = "running" PROVE disc[e].st \in {"running", "new"}
  BY <1>1, <1>4 DEF ViewInv, Disc
<1>5. ASSUME NEW e \in Discs, disc'[e].st = "new" PROVE disc[e].st = "new"
  BY <1>1, <1>5 DEF ViewInv, Disc
<1> QED BY <1>1, <1>2, <1>3, <1>4, <1>5 DEF ViewInv, ViewAgrees

\* No other step changes what the client knows.
LEMMA ViewStep ==
    ASSUME NetType, ViewInv, Next
    PROVE  ViewInv'
<1>1. CASE UNCHANGED bvars
  BY <1>1 DEF bvars, ViewInv, ViewAgrees
<1>2. ASSUME NEW m \in net, RecvBeacon(m) PROVE ViewInv'
  <2>1. m \in News
    BY <1>2 DEF RecvBeacon, NetType, Packets
  <2> QED BY <1>2, <2>1, BeaconView DEF RecvBeacon, News
<1>3. ASSUME NEW m \in net, RecvPong(m) PROVE ViewInv'
  <2>1. m \in News
    BY <1>3 DEF RecvPong, NetType, Packets
  <2>2. OnBeacon(m.from, m.guid, 0) \/ UNCHANGED bvars
    BY <1>3 DEF RecvPong, OnPong
  <2> QED BY <1>1, <2>1, <2>2, BeaconView DEF News
<1>4. ASSUME NEW d \in Discs, StartDiscover(d) \/ StopDiscover(d) PROVE ViewInv'
  BY <1>4, DiscoverView DEF StartDiscover, StopDiscover
<1>5. ASSUME Clean \/ Tick PROVE ViewInv'
  BY <1>5, CleanView, AgingView DEF Clean, Tick
<1>6. ASSUME User \/ Life \/ Connections \/ Search
             \/ (\E p \in sc.procs : Crash(p) \/ SendBeacon(p))
             \/ (\E m \in net : LoseBeacon(m) \/ RecvSearch(m))
      PROVE  UNCHANGED bvars
  BY <1>6 DEF User, Life, Connections, Search, Crash, SendBeacon, LoseBeacon, RecvSearch
<1> QED BY <1>1, <1>2, <1>3, <1>4, <1>5, <1>6 DEF Next

\* The three invariants hold at first.
LEMMA InitInv ==
    ASSUME Init
    PROVE  LifeInv /\ NetType /\ ViewInv
<1>1. LifeInv
  <2>1. NewServer(1) \in Server /\ Idle \in Thread
    BY DEF NewServer, Server, States, Idle, Thread, PCs
  <2>2. LifeType
    BY <2>1 DEF Init, InitLife, LifeType
  <2>3. ASSUME NEW p \in Procs PROVE Parts(p) /\ AtWork(p)
    BY DEF Init, InitLife, NewServer, Parts, AtWork, Idle
  <2> QED BY <2>2, <2>3 DEF LifeInv
<1>2. NetType
  BY DEF Init, NetType
<1>3. ViewInv
  <2>1. None \in Track /\ NoEvent \in Event
    BY DEF None, Track, NoEvent, Event
  <2>2. [p \in Origins |-> NoEvent] \in [Origins -> Event]
    BY <2>1
  <2>3. NewDisc \in Disc
    BY <2>2 DEF NewDisc, Disc
  <2>4. NewDisc.st = "new" /\ \A p \in Origins : NewDisc.last[p].ev = "none"
    BY DEF NewDisc, NoEvent
  <2> QED BY <2>1, <2>3, <2>4 DEF Init, InitBeacons, ViewInv, ViewAgrees
<1> QED BY <1>1, <1>2, <1>3

\* Exactly one thread is at work while a server starts or stops.
LEMMA AtWorkOne ==
    ASSUME LifeInv
    PROVE  LifeAgrees
<1> SUFFICES ASSUME NEW p \in Procs
             PROVE  /\ srv[p].conns \in 0..MaxConn /\ srv[p].change \in 0..(ChangeMod - 1) /\ srv[p].count \in 0..Burst
                    /\ Cardinality(Busy(p)) = IF srv[p].st \in {"Starting", "Stopping"} THEN 1 ELSE 0
                    /\ srv[p].st = "Stopped" => ~srv[p].tcp /\ srv[p].udp = {} /\ ~srv[p].armed /\ srv[p].conns = 0
                    /\ srv[p].st = "Running" => srv[p].tcp /\ srv[p].udp = Listeners[p] /\ srv[p].armed
  BY DEF LifeAgrees
<1>1. srv[p] \in Server /\ Parts(p) /\ AtWork(p)
  BY DEF LifeInv, LifeType
<1>2. srv[p].conns \in 0..MaxConn /\ srv[p].change \in 0..(ChangeMod - 1) /\ srv[p].count \in 0..Burst
  BY <1>1 DEF Parts, Server
<1>3. CASE srv[p].st \in {"Starting", "Stopping"}
  <2>1. PICK t \in Threads : Busy(p) = {t}
    BY <1>1, <1>3 DEF AtWork, Busy
  <2> QED BY <1>1, <1>2, <1>3, <2>1, FS_Singleton DEF Parts
<1>4. CASE srv[p].st \notin {"Starting", "Stopping"}
  <2>1. Busy(p) = {}
    BY <1>1, <1>4 DEF AtWork, Busy
  <2> QED BY <1>1, <1>2, <1>4, <2>1, FS_EmptySet DEF Parts
<1> QED BY <1>3, <1>4

\* Each beacon lost accounts for one interval more.
LEMMA Allowance ==
    ASSUME NEW n \in Nat
    PROVE  Gap \in Nat /\ Allow(n) \in Nat /\ Gap <= Allow(n) /\ Allow(0) = Gap /\ Allow(n + 1) = Allow(n) + Gap
<1>1. Gap \in Nat
  BY TimeAssumption DEF Gap
<1>2. (n + 1) * Gap = n * Gap + Gap /\ (n + 2) * Gap = (n + 1) * Gap + Gap /\ n * Gap \in Nat
  BY <1>1
<1>3. Allow(0) = Gap
  BY <1>1 DEF Allow
<1>4. Allow(n) = n * Gap + Gap
  BY <1>2 DEF Allow
<1>5. Allow(n + 1) = Allow(n) + Gap
  <2>1. (n + 1) + 1 = n + 2
    OBVIOUS
  <2> QED BY <1>2, <2>1 DEF Allow
<1> QED BY <1>1, <1>2, <1>3, <1>4, <1>5

\* Steps which do not touch beacons, and at most begin to track a server anew
LEMMA AgeKept ==
    ASSUME AgeInv, sc' = sc, missed' = missed, NEW p \in Procs, Beacons(p)' = Beacons(p),
           p \in steady' => p \in steady /\ srv'[p].armed /\ due'[p] = due[p],
           track'[p] = track[p] \/ (track'[p].age = 0)
    PROVE  AgeOf(p)'
<1>1. AgeOf(p) /\ missed[p] \in Nat /\ due[p] \in Int /\ due[p] <= Gap
  BY DEF AgeInv
<1>2. Gap \in Nat /\ Allow(missed[p]) \in Nat /\ Gap <= Allow(missed[p])
  BY <1>1, Allowance
<1> HIDE DEF Beacons
<1> QED BY <1>1, <1>2 DEF AgeOf

\* What a beacon or a pong leaves in the table
LEMMA Restarted ==
    ASSUME NEW p \in Origins, NEW q \in Origins, NEW g \in Nat, NEW c \in Nat, ViewInv, OnBeacon(p, g, c)
    PROVE  track'[q] = track[q] \/ (q = p /\ track'[q].age = 0 /\ track'[q].known)
<1>1. track \in [Origins -> Track]
  BY DEF ViewInv
<1>2. CASE ~track[p].known /\ TrackFull
  BY <1>2 DEF OnBeacon, bvars
<1>3. CASE ~(~track[p].known /\ TrackFull)
  <2>1. track' = [track EXCEPT ![p] = [known |-> TRUE, guid |-> g, change |-> c, age |-> 0]]
    BY <1>3 DEF OnBeacon
  <2> QED BY <1>1, <2>1
<1> QED BY <1>2, <1>3

\* A server which armed its timer keeps it armed in a step of the user
LEMMA UserArmed ==
    ASSUME LifeInv, NetType, User \/ Connections, NEW p \in Procs
    PROVE  srv'[p].armed = srv[p].armed
<1>1. sc.procs \subseteq Procs /\ srv \in [Procs -> Server]
  BY ScenarioAssumption DEF NetType, LifeInv, LifeType
<1>2. ASSUME NEW q \in Procs, NEW s, srv' = [srv EXCEPT ![q] = s], s.armed = srv[q].armed
      PROVE  srv'[p].armed = srv[p].armed
  BY <1>1, <1>2
<1>3. CASE srv' = srv
  BY <1>3
<1>4. ASSUME NEW q \in Procs, Interrupt(q) PROVE srv'[p].armed = srv[p].armed
  BY <1>1, <1>4 DEF Interrupt, Server
<1>5. ASSUME NEW q \in Procs, ChangeSources(q) PROVE srv'[p].armed = srv[p].armed
  BY <1>1, <1>5 DEF ChangeSources, Server
<1>6. ASSUME NEW q \in Procs, AcceptConn(q) \/ EndConn(q) PROVE srv'[p].armed = srv[p].armed
  BY <1>1, <1>6 DEF AcceptConn, EndConn, Server
<1> QED BY <1>1, <1>3, <1>4, <1>5, <1>6 DEF User, Connections, CallStart, CallRun, CallStop

\* A search or its forwarding is no beacon.
LEMMA NoBeacons ==
    ASSUME NEW pkt \in Packets, NEW m \in Deliveries(pkt)
    PROVE  m.cmd = "SEARCH"
BY DEF Deliveries, Packets

\* To send a search leaves the beacons on their way alone.
LEMMA SendNoBeacon ==
    ASSUME NetType, NEW r \in Requests, SendSearch(r), NEW p \in Procs
    PROVE  Beacons(p)' = Beacons(p)
<1>1. sc.procs \subseteq Procs
  BY ScenarioAssumption DEF NetType
<1>2. PICK q \in sc.procs : net' = net \cup Deliveries([r EXCEPT !.id = Len(sent) + 1, !.to = IF r.dst = "Bcast" THEN "all" ELSE q])
  BY DEF SendSearch
<1>3. Len(sent) + 1 \in Nat
  BY DEF NetType
<1>4. [r EXCEPT !.id = Len(sent) + 1, !.to = IF r.dst = "Bcast" THEN "all" ELSE q] \in Packets
  BY <1>1, <1>3, ScenarioAssumption DEF Packets
<1> QED BY <1>2, <1>4, NoBeacons DEF Beacons

\* Each step keeps count of the beacons.
LEMMA AgeStep ==
    ASSUME LifeInv, NetType, ViewInv, AgeInv, Next
    PROVE  AgeInv'
<1>0. /\ sc.procs \subseteq Procs /\ sc' = sc /\ srv \in [Procs -> Server]
      /\ track \in [Procs -> Track] /\ Origins = Procs
  <2>1. sc' = sc
    BY DEF Next, User, Life, Connections, Search, Clean, Tick, Crash, SendBeacon, StartDiscover,
           StopDiscover, RecvBeacon, LoseBeacon, RecvPong, RecvSearch
  <2> QED BY <2>1, ScenarioAssumption DEF NetType, LifeInv, LifeType, ViewInv
<1>k. ASSUME missed' = missed, steady' \subseteq steady, due' \in [Procs -> Int],
             \A p \in Procs : /\ p \in steady' => srv'[p].armed /\ due'[p] = due[p]
                              /\ due'[p] <= Gap
                              /\ Beacons(p)' = Beacons(p)
                              /\ track'[p] = track[p] \/ track'[p].age = 0
      PROVE  AgeInv'
  <2>1. ASSUME NEW p \in Procs PROVE AgeOf(p)'
    <3>1. p \in steady' => p \in steady
      BY <1>k
    <3> QED BY <1>0, <1>k, <3>1, AgeKept
  <2> QED BY <1>0, <1>k, <2>1 DEF AgeInv
<1>a. \A p \in Procs : p \in steady => srv[p].armed
  BY DEF AgeInv, AgeOf
<1>b. due \in [Procs -> Int] /\ \A p \in Procs : due[p] <= Gap
  BY DEF AgeInv
<1>r. ASSUME Rearm
      PROVE  /\ steady' \subseteq steady /\ due' \in [Procs -> Int]
             /\ \A p \in Procs : (p \in steady' => srv'[p].armed /\ due'[p] = due[p]) /\ due'[p] <= Gap
  <2>1. Delay \in Int /\ Delay <= Gap
    BY TimeAssumption DEF Gap
  <2>2. due' = [p \in Procs |-> IF srv'[p].armed THEN due[p] ELSE Delay] /\ steady' = {p \in steady : srv'[p].armed}
    BY <1>r DEF Rearm
  <2> QED BY <1>b, <2>1, <2>2
<1>1. CASE User
  <2>1. /\ missed' = missed /\ due' = due /\ steady' = steady /\ net' = net /\ track' = track
    BY <1>1 DEF User, bvars, nvars
  <2> QED BY <1>1, <1>a, <1>b, <1>k, <2>1, UserArmed DEF Beacons
<1>2. CASE Life
  <2>1. missed' = missed /\ net' = net /\ track' = track /\ Rearm
    BY <1>2 DEF Life, bvars, nvars
  <2> QED BY <1>k, <1>r, <2>1 DEF Beacons
<1>3. CASE Connections
  <2>1. /\ missed' = missed /\ due' = due /\ steady' = steady /\ net' = net /\ track' = track
    BY <1>3 DEF Connections, bvars, nvars, hvars
  <2> QED BY <1>3, <1>a, <1>b, <1>k, <2>1, UserArmed DEF Beacons
<1>4. CASE Search \/ \E d \in Discs : StartDiscover(d) \/ StopDiscover(d)
  <2>1. /\ missed' = missed /\ due' = due /\ steady' = steady /\ srv' = srv /\ track' = track
    BY <1>4 DEF Search, StartDiscover, StopDiscover, lvars, bvars, hvars, Discover, Cancel
  <2>2. net' = net \/ \E r \in Requests : SendSearch(r)
    BY <1>4 DEF Search, StartDiscover, StopDiscover, nvars
  <2>3. ASSUME NEW p \in Procs PROVE Beacons(p)' = Beacons(p)
    <3>1. CASE net' = net
      BY <3>1 DEF Beacons
    <3> QED BY <2>2, <3>1, SendNoBeacon
  <2> QED BY <1>a, <1>b, <1>k, <2>1, <2>3
<1>5. ASSUME NEW q \in sc.procs, Crash(q) PROVE AgeInv'
  <2>1. missed' = missed /\ track' = track /\ net' = {m \in net : m.to # q} /\ Rearm
    BY <1>5 DEF Crash, bvars
  <2>2. \A m \in net : m.cmd = "BEACON" => m.to # q
    BY <1>0, ScenarioAssumption DEF NetType, News, Packets
  <2>3. \A p \in Procs : Beacons(p)' = Beacons(p)
    BY <2>1, <2>2 DEF Beacons
  <2> QED BY <1>k, <1>r, <2>1, <2>3
<1>6. ASSUME NEW m \in net, RecvPong(m) PROVE AgeInv'
  <2>1. /\ missed' = missed /\ due' = due /\ steady' = steady /\ net' = net \ {m} /\ srv' = srv
        /\ m.cmd = "PONG"
    BY <1>6 DEF RecvPong, hvars, lvars
  <2>2. m.from \in Procs /\ m.guid \in Nat
    BY <2>1 DEF NetType, News, Packets
  <2>3. OnBeacon(m.from, m.guid, 0) \/ track' = track
    BY <1>6 DEF RecvPong, OnPong, bvars
  <2>4. ASSUME NEW p \in Procs PROVE track'[p] = track[p] \/ track'[p].age = 0
    BY <1>0, <2>2, <2>3, Restarted
  <2>5. \A p \in Procs : Beacons(p)' = Beacons(p)
    BY <2>1 DEF Beacons
  <2> QED BY <1>a, <1>b, <1>k, <2>1, <2>4, <2>5
<1>7. ASSUME NEW m \in net, RecvSearch(m) PROVE AgeInv'
  <2>1. /\ missed' = missed /\ due' = due /\ steady' = steady /\ track' = track /\ m.cmd = "SEARCH"
    BY <1>7 DEF RecvSearch, hvars, bvars
  <2>2. m \in Packets
    BY <2>1 DEF NetType, News
  <2>3. [ForwardOf(m) EXCEPT !.to = "all"] \in Packets
    BY <2>2 DEF ForwardOf, Packets
  <2>4. ASSUME NEW k \in (net \cup net'), k.cmd = "BEACON" PROVE k \in net /\ k \in net'
    <3>1. k \notin Deliveries([ForwardOf(m) EXCEPT !.to = "all"])
      BY <2>3, <2>4, NoBeacons
    <3> QED BY <1>7, <2>1, <2>4, <3>1 DEF RecvSearch
  <2>5. \A p \in Procs : Beacons(p)' = Beacons(p)
    BY <2>4 DEF Beacons
  <2>6. \E b : srv' = [srv EXCEPT ![m.to].tcpSeen = b]
    BY <1>7 DEF RecvSearch
  <2>7. \A p \in Procs : srv'[p].armed = srv[p].armed
    BY <1>0, <2>6 DEF Server
  <2> QED BY <1>a, <1>b, <1>k, <2>1, <2>5, <2>7
<1>8. ASSUME NEW q \in sc.procs, SendBeacon(q) PROVE AgeInv'
  <2>1. /\ missed' = missed /\ steady' = steady /\ track' = track /\ net' = net \cup {Beacon(q)}
        /\ srv' = [srv EXCEPT ![q] = Beaconed(srv[q])] /\ due' = [due EXCEPT ![q] = Interval(srv[q]) + Delay]
    BY <1>8 DEF SendBeacon, bvars
  <2>2. \A p \in Procs : srv'[p].armed = srv[p].armed
    BY <1>0, <2>1 DEF Server, Beaconed
  <2>3. Interval(srv[q]) + Delay \in Int /\ Interval(srv[q]) + Delay <= Gap
    BY TimeAssumption DEF Interval, Gap
  <2>4. due' \in [Procs -> Int] /\ \A p \in Procs : due'[p] <= Gap /\ (p # q => due'[p] = due[p])
    BY <1>b, <2>1, <2>3
  <2>5. Beacons(q)' # {} /\ \A p \in Procs : p # q => Beacons(p)' = Beacons(p)
    <3> DEFINE b == Beacon(q)
    <3>1. b.cmd = "BEACON" /\ b.from = q
      BY DEF Beacon
    <3>2. net' = net \cup {b}
      BY <2>1
    <3> HIDE DEF b
    <3> QED BY <3>1, <3>2 DEF Beacons
  <2>6. ASSUME NEW p \in Procs PROVE AgeOf(p)'
    <3>1. AgeOf(p)
      BY DEF AgeInv
    <3>2. CASE p = q
      <4> HIDE DEF Beacons
      <4> QED BY <1>0, <2>1, <2>2, <2>5, <3>1, <3>2 DEF AgeOf
    <3>3. CASE p # q
      <4> HIDE DEF Beacons
      <4> QED BY <1>0, <2>1, <2>2, <2>4, <2>5, <3>1, <3>3 DEF AgeOf
    <3> QED BY <3>2, <3>3
  <2> QED BY <1>0, <2>1, <2>4, <2>6 DEF AgeInv
<1>9. ASSUME NEW m \in net, LoseBeacon(m) PROVE AgeInv'
  <2> DEFINE q == m.from
  <2>0. q \in Procs /\ m.cmd = "BEACON" /\ m \in Beacons(q)
    BY <1>9 DEF LoseBeacon, NetType, News, Packets, Beacons
  <2>1. /\ due' = due /\ steady' = steady /\ track' = track /\ srv' = srv /\ net' = net \ {m}
        /\ missed' = [missed EXCEPT ![q] = @ + 1]
    BY <1>9 DEF LoseBeacon, lvars, bvars
  <2>2. \A p \in Procs : Beacons(p)' \subseteq Beacons(p) /\ (p # q => Beacons(p)' = Beacons(p))
    BY <2>1 DEF Beacons
  <2>4. missed' \in [Procs -> Nat] /\ missed'[q] = missed[q] + 1 /\ \A p \in Procs : p # q => missed'[p] = missed[p]
    BY <2>0, <2>1 DEF AgeInv
  <2> HIDE DEF q
  <2>5. ASSUME NEW p \in Procs PROVE AgeOf(p)'
    <3>1. AgeOf(p) /\ missed[p] \in Nat /\ track[p].age \in Nat /\ due[p] \in Int /\ due[p] <= Gap
      BY <1>0, <1>b DEF AgeInv, Track
    <3>2. CASE p = q
      <4>1. /\ Gap \in Nat /\ Allow(missed[p]) \in Nat
            /\ Allow(missed'[p]) = Allow(missed[p]) + Gap
        BY <2>4, <3>1, <3>2, Allowance
      <4> HIDE DEF Beacons
      <4> QED BY <1>0, <2>1, <2>2, <3>1, <4>1 DEF AgeOf
    <3>3. CASE p # q
      <4> HIDE DEF Beacons
      <4> QED BY <1>0, <2>1, <2>2, <2>4, <3>1, <3>3 DEF AgeOf
    <3> QED BY <3>2, <3>3
  <2> QED BY <1>0, <1>b, <2>1, <2>4, <2>5 DEF AgeInv
<1>10. ASSUME NEW m \in net, RecvBeacon(m) PROVE AgeInv'
  <2> DEFINE q == m.from
  <2>0. q \in Procs /\ m.cmd = "BEACON" /\ m \in Beacons(q) /\ m.guid \in Nat /\ m.change \in Nat
    BY <1>10 DEF RecvBeacon, NetType, News, Packets, Beacons
  <2>1. /\ due' = due /\ srv' = srv /\ net' = net \ {m} /\ missed' = [missed EXCEPT ![q] = 0]
        /\ steady' = IF srv[q].armed /\ srv[q].guid = m.guid THEN steady \cup {q} ELSE steady
    BY <1>10 DEF RecvBeacon, lvars
  <2>2. \A p \in Procs : Beacons(p)' \subseteq Beacons(p) /\ (p # q => Beacons(p)' = Beacons(p))
    BY <2>1 DEF Beacons
  <2>4. missed' \in [Procs -> Nat] /\ missed'[q] = 0 /\ \A p \in Procs : p # q => missed'[p] = missed[p]
    BY <2>0, <2>1 DEF AgeInv
  <2>6. ASSUME NEW p \in Procs PROVE track'[p] = track[p] \/ (p = q /\ track'[p].age = 0 /\ track'[p].known)
    BY <1>0, <1>10, <2>0, Restarted DEF RecvBeacon
  <2>7. track'[q].age = 0
    <3>1. CASE track'[q] = track[q] /\ ~track[q].known
      BY <2>0, <3>1 DEF AgeInv, AgeOf
    <3>2. CASE track[q].known
      <4>1. track' = [track EXCEPT ![q] = [known |-> TRUE, guid |-> m.guid, change |-> m.change, age |-> 0]]
        BY <1>10, <3>2 DEF RecvBeacon, OnBeacon
      <4> QED BY <1>0, <2>0, <4>1
    <3> QED BY <2>0, <2>6, <3>1, <3>2
  <2>8. steady' \subseteq sc.procs
    <3>1. q \in sc.procs
      BY <2>0 DEF AgeInv, AgeOf
    <3> QED BY <2>1, <3>1 DEF AgeInv
  <2> HIDE DEF q
  <2>5. ASSUME NEW p \in Procs PROVE AgeOf(p)'
    <3>1. AgeOf(p) /\ due[p] \in Int /\ due[p] <= Gap
      BY DEF AgeInv
    <3>2. CASE p = q
      <4>1. Gap \in Nat /\ Allow(0) = Gap
        BY Allowance
      <4>2. p \in steady' => srv'[p].armed
        BY <2>1, <3>1, <3>2 DEF AgeOf
      <4> HIDE DEF Beacons
      <4> QED BY <1>0, <2>1, <2>2, <2>4, <2>7, <3>1, <3>2, <4>1, <4>2 DEF AgeOf
    <3>3. CASE p # q
      <4> HIDE DEF Beacons
      <4> QED BY <1>0, <2>1, <2>2, <2>4, <2>6, <3>1, <3>3 DEF AgeOf
    <3> QED BY <3>2, <3>3
  <2> QED BY <1>0, <1>b, <2>1, <2>4, <2>5, <2>8 DEF AgeInv
<1>11. CASE Clean
  <2>1. /\ missed' = missed /\ due' = due /\ steady' = steady /\ srv' = srv /\ net' = net
    BY <1>11 DEF Clean, lvars, nvars, hvars
  <2>2. ASSUME NEW p \in Procs PROVE track'[p] = track[p] \/ track'[p].age = 0
    BY <1>0, <1>11 DEF Clean, CleanTick, None
  <2> QED BY <1>a, <1>b, <1>k, <2>1, <2>2 DEF Beacons
<1>12. CASE Tick
  <2>1. /\ missed' = missed /\ steady' = steady /\ srv' = srv /\ net' = net
        /\ due' = [p \in Procs |-> IF srv[p].armed THEN due[p] - 1 ELSE due[p]]
        /\ \A p \in sc.procs : srv[p].armed => due[p] > 0
    BY <1>12 DEF Tick, lvars, nvars
  <2>2. \A p \in Procs : Beacons(p) = {} /\ Beacons(p)' = {}
    BY <1>12, <2>1 DEF Tick, Beacons
  <2>3. due' \in [Procs -> Int] /\ \A p \in Procs : due'[p] <= Gap
    <3>1. Gap \in Int
      BY Allowance
    <3> QED BY <1>b, <2>1, <3>1
  <2>4. ASSUME NEW p \in Procs PROVE AgeOf(p)'
    <3>1. AgeOf(p) /\ missed[p] \in Nat /\ track[p].age \in Nat /\ due[p] \in Int /\ Allow(missed[p]) \in Nat
      BY <1>0, <1>b, Allowance DEF AgeInv, Track
    <3>2. track'[p] = Older(track[p])
      BY <1>0, <1>12 DEF Tick, Aging
    <3>3. /\ track'[p].known = track[p].known /\ track'[p].age \in Nat
          /\ track'[p].age <= track[p].age + 1 /\ (~track[p].known => track'[p].age = track[p].age)
      <4>1. track[p] \in Track
        BY <1>0
      <4>2. Older(track[p]) \in Track
        BY <4>1, Aged
      <4> QED BY <3>2, <4>1, <4>2, Aged DEF Track
    <3>4. ASSUME p \in steady
          PROVE  track'[p].age <= Allow(missed[p]) /\ track'[p].age + due'[p] <= Allow(missed[p]) /\ srv'[p].armed
      <4>1. srv[p].armed /\ due[p] > 0 /\ due'[p] = due[p] - 1
        BY <1>a, <2>1, <3>4 DEF AgeInv
      <4>2. track[p].age + due[p] <= Allow(missed[p])
        <5> HIDE DEF Beacons
        <5> QED BY <2>2, <3>1, <3>4 DEF AgeOf
      <4> QED BY <2>1, <3>1, <3>3, <4>1, <4>2
    <3> HIDE DEF Beacons
    <3> QED BY <2>1, <2>2, <3>1, <3>3, <3>4 DEF AgeOf
  <2> QED BY <1>0, <2>1, <2>3, <2>4 DEF AgeInv
<1> QED BY <1>1, <1>2, <1>3, <1>4, <1>5, <1>6, <1>7, <1>8, <1>9, <1>10, <1>11, <1>12 DEF Next

\* Only the cleaning of the table forgets a server.
LEMMA TimeoutStep ==
    ASSUME LifeInv, NetType, ViewInv, AgeInv, Next, NEW p \in Procs,
           track[p].known, ~track'[p].known, p \in steady
    PROVE  (missed[p] + 1) * (LongInterval + Delay) > MaxAge
<1>0. track \in [Procs -> Track] /\ Origins = Procs
  BY ScenarioAssumption DEF ViewInv
<1>1. CASE track' = track
  BY <1>1
<1>2. ASSUME NEW q \in Procs, NEW g \in Nat, NEW c \in Nat, OnBeacon(q, g, c) PROVE FALSE
  BY <1>0, <1>2, Restarted
<1>3. ASSUME NEW m \in net, RecvBeacon(m) PROVE FALSE
  <2>1. m \in News
    BY <1>3 DEF RecvBeacon, NetType, Packets
  <2> QED BY <1>2, <1>3, <2>1 DEF RecvBeacon, News
<1>4. ASSUME NEW m \in net, RecvPong(m) PROVE FALSE
  <2>1. m \in News
    BY <1>4 DEF RecvPong, NetType, Packets
  <2>2. OnBeacon(m.from, m.guid, 0) \/ track' = track
    BY <1>4 DEF RecvPong, OnPong, bvars
  <2> QED BY <1>2, <2>1, <2>2 DEF News
<1>5. CASE Clean
  <2>1. track[p].age <= Allow(missed[p]) /\ track[p].age \in Nat /\ Allow(missed[p]) \in Nat
    BY <1>0, Allowance DEF AgeInv, AgeOf, Track
  <2>2. TooOld(track[p])
    BY <1>0, <1>5 DEF Clean, CleanTick
  <2>3. Allow(missed[p]) > MaxAge
    BY <2>1, <2>2 DEF TooOld
  <2> QED BY <2>3 DEF Allow, Gap
<1>6. CASE Tick
  <2>1. track'[p] = Older(track[p])
    BY <1>0, <1>6 DEF Tick, Aging
  <2> QED BY <1>0, <2>1, Aged
<1>7. ASSUME User \/ Life \/ Connections \/ Search
             \/ (\E q \in sc.procs : Crash(q) \/ SendBeacon(q))
             \/ (\E d \in Discs : StartDiscover(d) \/ StopDiscover(d))
             \/ (\E m \in net : LoseBeacon(m) \/ RecvSearch(m))
      PROVE  track' = track
  BY <1>7 DEF User, Life, Connections, Search, Crash, SendBeacon, LoseBeacon, RecvSearch, bvars,
              StartDiscover, StopDiscover, Discover, Cancel
<1> QED BY <1>1, <1>3, <1>4, <1>5, <1>6, <1>7 DEF Next

\* Each process has the listeners it was made with, or some of them.
LEMMA UdpStep ==
    ASSUME LifeInv, NetType, UdpType, Next
    PROVE  UdpType'
<1>0. sc.procs \subseteq Procs /\ sc.threads \subseteq Threads /\ srv \in [Procs -> Server]
  BY ScenarioAssumption DEF NetType, LifeInv, LifeType
<1>1. ASSUME NEW p \in Procs, NEW s, srv' = [srv EXCEPT ![p] = s], s.udp \subseteq Listeners[p]
      PROVE  UdpType'
  BY <1>0, <1>1 DEF UdpType
<1>2. CASE srv' = srv
  BY <1>2 DEF UdpType
<1>3. ASSUME NEW p \in Procs PROVE srv[p] \in Server /\ srv[p].udp \subseteq Listeners[p]
  BY <1>0 DEF UdpType
<1>4. ASSUME NEW p \in Procs, NEW t \in Threads, LifeStep(p, t) PROVE UdpType'
  <2>1. CASE Start(p, t)
    BY <1>1, <1>2, <1>3, <2>1 DEF Start, BeginStart, Server
  <2>2. CASE StartListener(p, t)
    BY <1>1, <1>3, <2>2 DEF StartListener, Server
  <2>3. CASE FinishStart(p, t)
    <3>1. srv' = [srv EXCEPT ![p] = [srv[p] EXCEPT !.armed = TRUE, !.st = "Running"]]
      BY <1>0, <2>3 DEF FinishStart
    <3>2. [srv[p] EXCEPT !.armed = TRUE, !.st = "Running"].udp = srv[p].udp
      BY <1>3 DEF Server
    <3> QED BY <1>1, <1>3, <3>1, <3>2
  <2>4. CASE Wake(p, t)
    BY <1>1, <1>3, <2>4 DEF Wake, Server
  <2>5. CASE Stop(p, t)
    BY <1>1, <1>2, <1>3, <2>5 DEF Stop, Server
  <2>6. CASE StopListener(p, t)
    BY <1>1, <1>3, <2>6 DEF StopListener, Server
  <2>7. CASE FinishStop(p, t)
    <3>1. srv' = [srv EXCEPT ![p] = [srv[p] EXCEPT !.tcp = FALSE, !.conns = NoConns(srv[p]), !.st = "Stopped"]]
      BY <1>0, <2>7 DEF FinishStop
    <3>2. [srv[p] EXCEPT !.tcp = FALSE, !.conns = NoConns(srv[p]), !.st = "Stopped"].udp = srv[p].udp
      BY <1>3 DEF Server
    <3> QED BY <1>1, <1>3, <3>1, <3>2
  <2>8. CASE SyncStop(p, t)
    BY <1>2, <2>8 DEF SyncStop
  <2> QED BY <1>4, <2>1, <2>2, <2>3, <2>4, <2>5, <2>6, <2>7, <2>8 DEF LifeStep
<1>5. ASSUME NEW p \in Procs, Interrupt(p) \/ ChangeSources(p) \/ AcceptConn(p) \/ EndConn(p) PROVE UdpType'
  <2>1. \E s : srv' = [srv EXCEPT ![p] = s] /\ s.udp = srv[p].udp
    BY <1>3, <1>5 DEF Interrupt, ChangeSources, AcceptConn, EndConn, Server
  <2> QED BY <1>1, <1>3, <2>1
<1>6. ASSUME NEW p \in Procs, Crash(p) \/ SendBeacon(p) PROVE UdpType'
  BY <1>1, <1>3, <1>6 DEF Crash, NewServer, SendBeacon, Beaconed, Server
<1>7. ASSUME NEW m \in net, RecvSearch(m) PROVE UdpType'
  <2>1. m.to \in Procs
    BY <1>7 DEF RecvSearch, NetType, News
  <2>2. \E b : srv' = [srv EXCEPT ![m.to].tcpSeen = b]
    BY <1>7 DEF RecvSearch
  <2>3. \E s : srv' = [srv EXCEPT ![m.to] = s] /\ s.udp = srv[m.to].udp
    <3>1. PICK b : srv' = [srv EXCEPT ![m.to].tcpSeen = b]
      BY <2>2
    <3>2. srv' = [srv EXCEPT ![m.to] = [srv[m.to] EXCEPT !.tcpSeen = b]]
      BY <3>1
    <3>3. [srv[m.to] EXCEPT !.tcpSeen = b].udp = srv[m.to].udp
      BY <1>3, <2>1 DEF Server
    <3> QED BY <3>2, <3>3
  <2> QED BY <1>1, <1>3, <2>1, <2>3
<1>8. CASE User
  BY <1>0, <1>2, <1>5, <1>8 DEF User, CallStart, CallRun, CallStop
<1>9. CASE Life
  BY <1>0, <1>4, <1>9 DEF Life
<1>10. CASE Connections
  BY <1>0, <1>5, <1>10 DEF Connections
<1>11. CASE Search \/ Clean \/ Tick \/ (\E d \in Discs : StartDiscover(d) \/ StopDiscover(d))
            \/ (\E m \in net : RecvBeacon(m) \/ LoseBeacon(m) \/ RecvPong(m))
  BY <1>2, <1>11 DEF Search, Clean, Tick, StartDiscover, StopDiscover, RecvBeacon, LoseBeacon, RecvPong, lvars
<1> QED BY <1>0, <1>6, <1>7, <1>8, <1>9, <1>10, <1>11 DEF Next

\* Servers which run, while nobody calls start() or stop(), keep running.
LEMMA CalmStep ==
    ASSUME LifeInv, NetType, Next, Calm, changes' = changes
    PROVE  Calm'
<1>0. /\ sc.procs \subseteq Procs /\ sc.threads \subseteq Threads /\ srv \in [Procs -> Server]
      /\ changes \in Nat /\ sc' = sc
  <2>1. sc' = sc
    BY DEF Next, User, Life, Connections, Search, Clean, Tick, Crash, SendBeacon, StartDiscover,
           StopDiscover, RecvBeacon, LoseBeacon, RecvPong, RecvSearch
  <2> QED BY <2>1, ScenarioAssumption DEF NetType, LifeInv, LifeType
<1>1. ASSUME NEW p \in Procs, NEW s, srv' = [srv EXCEPT ![p] = s], s.st = srv[p].st, thr' = thr
      PROVE  Calm'
  BY <1>0, <1>1 DEF Calm
<1>2. CASE srv' = srv /\ thr' = thr
  BY <1>0, <1>2 DEF Calm
<1>3. ASSUME NEW p \in Procs PROVE srv[p] \in Server
  BY <1>0
<1>4. CASE User
  BY <1>0, <1>4 DEF User, May
<1>5. CASE Life
  BY <1>0, <1>5 DEF Life, LifeStep, Calm, At, Start, StartListener, FinishStart, Wake, Stop,
                    StopListener, FinishStop, SyncStop
<1>6. CASE Connections
  <2>1. PICK p \in Procs : AcceptConn(p) \/ EndConn(p)
    BY <1>0, <1>6 DEF Connections
  <2>2. thr' = thr /\ \E s : srv' = [srv EXCEPT ![p] = s] /\ s.st = srv[p].st
    BY <1>3, <2>1 DEF AcceptConn, EndConn, Server
  <2> QED BY <1>1, <2>2
<1>7. ASSUME NEW p \in sc.procs, Crash(p) PROVE Calm'
  BY <1>0, <1>7 DEF Crash, May
<1>8. ASSUME NEW p \in sc.procs, SendBeacon(p) PROVE Calm'
  <2>1. thr' = thr /\ srv' = [srv EXCEPT ![p] = Beaconed(srv[p])]
    BY <1>8 DEF SendBeacon
  <2>2. Beaconed(srv[p]).st = srv[p].st
    BY <1>0, <1>3 DEF Beaconed, Server
  <2> QED BY <1>0, <1>1, <2>1, <2>2
<1>9. ASSUME NEW m \in net, RecvSearch(m) PROVE Calm'
  <2>1. m.to \in Procs
    BY <1>9 DEF RecvSearch, NetType, News
  <2>2. thr' = thr /\ \E b : srv' = [srv EXCEPT ![m.to].tcpSeen = b]
    BY <1>9 DEF RecvSearch
  <2>3. \E s : srv' = [srv EXCEPT ![m.to] = s] /\ s.st = srv[m.to].st
    <3>1. PICK b : srv' = [srv EXCEPT ![m.to].tcpSeen = b]
      BY <2>2
    <3>2. srv' = [srv EXCEPT ![m.to] = [srv[m.to] EXCEPT !.tcpSeen = b]]
      BY <3>1
    <3>3. [srv[m.to] EXCEPT !.tcpSeen = b].st = srv[m.to].st
      BY <1>3, <2>1 DEF Server
    <3> QED BY <3>2, <3>3
  <2> QED BY <1>1, <2>1, <2>2, <2>3
<1>10. CASE Search \/ Clean \/ Tick \/ (\E d \in Discs : StartDiscover(d) \/ StopDiscover(d))
            \/ (\E m \in net : RecvBeacon(m) \/ LoseBeacon(m) \/ RecvPong(m))
  BY <1>2, <1>10 DEF Search, Clean, Tick, StartDiscover, StopDiscover, RecvBeacon, LoseBeacon, RecvPong, lvars
<1> QED BY <1>4, <1>5, <1>6, <1>7, <1>8, <1>9, <1>10 DEF Next

\* A search which a step has nothing to do with
LEMMA CopyKept ==
    ASSUME NEW n, OnlyCopy(n), Reached(n), sc.procs \subseteq Procs, sc' = sc,
           Copies(n)' = Copies(n), sent'[n] = sent[n],
           \A p \in Procs : answers'[p][n] = answers[p][n],
           \A m \in Copies(n) : m.to \in sc.procs,
           changes' = changes, Calm => Calm'
    PROVE  OnlyCopy(n)' /\ Reached(n)'
<1> HIDE DEF Copies, Calm
<1>1. OnlyCopy(n)'
  BY DEF OnlyCopy
<1>2. \A p \in Procs : Wants(n, p)' = Wants(n, p)
  BY DEF Wants
<1>3. Reached(n)'
  BY <1>2 DEF Reached
<1> QED BY <1>1, <1>3

\* Datagrams are dropped, and no server is expected to answer any more.
LEMMA CopyDropped ==
    ASSUME NEW n, OnlyCopy(n), sc.procs \subseteq Procs, sc' = sc, sent[n].at <= changes,
           Copies(n)' \subseteq Copies(n), sent'[n] = sent[n],
           \A p \in Procs : answers'[p][n] = answers[p][n],
           \A m \in Copies(n) : m.to \in sc.procs,
           sent[n].at \in Nat, changes \in Nat, changes' = changes + 1
    PROVE  OnlyCopy(n)' /\ Reached(n)'
<1> HIDE DEF Copies, Calm
<1>1. OnlyCopy(n)'
  BY DEF OnlyCopy
<1>2. Reached(n)'
  <2>1. sent'[n].at # changes'
    OBVIOUS
  <2> QED BY <2>1 DEF Reached
<1> QED BY <1>1, <1>2

\* At most one listener of a server hears a search, and one does if the server
\* runs, unless it came by IPv6 only.
LEMMA HeardOnce ==
    ASSUME NEW p \in Procs, NEW u \in SUBSET Listeners[p], NEW m
    PROVE  /\ Cardinality(Hear(u, m)) \in {0, 1}
           /\ Hear(u, m) # {} => Cardinality(Hear(u, m)) = 1
           /\ u = Listeners[p] /\ OrigDest(m) \in {"Ucast", "Bcast"} => Hear(u, m) # {}
<1> DEFINE d == OrigDest(m)
<1>1. Hear(u, m) = {l \in u : l = "any" \/ l = d}
  BY DEF Hear
<1> HIDE DEF d
<1>2. Hear(u, m) = {} \/ \E l : Hear(u, m) = {l}
  BY <1>1, SearchAssumption
<1>3. Cardinality({}) = 0 /\ \A l : Cardinality({l}) = 1
  BY FS_EmptySet, FS_Singleton
<1>4. u = Listeners[p] /\ d \in {"Ucast", "Bcast"} => Hear(u, m) # {}
  BY <1>1, SearchAssumption
<1> QED BY <1>2, <1>3, <1>4 DEF d

\* The client sends a search, the ping of discover() included.
LEMMA SendInv ==
    ASSUME LifeInv, NetType, SearchInv, NEW r \in Requests, SendSearch(r), UdpType',
           sc' = sc, srv' = srv, thr' = thr, changes' = changes
    PROVE  SearchInv'
<1>i. PICK i : i = Len(sent) + 1
  OBVIOUS
<1> DEFINE e == [pkt |-> r, at |-> changes, calm |-> Calm]
<1>0. sc.procs \subseteq Procs /\ changes \in Nat /\ r \in Packets /\ sent \in Seq(Searches)
  BY ScenarioAssumption DEF NetType
<1>1. PICK q \in sc.procs : net' = net \cup Deliveries([r EXCEPT !.id = i, !.to = IF r.dst = "Bcast" THEN "all" ELSE q])
  BY <1>i DEF SendSearch
<1> DEFINE pkt == [r EXCEPT !.id = i, !.to = IF r.dst = "Bcast" THEN "all" ELSE q]
<1>2. sent' = Append(sent, e) /\ answers' = [p \in Procs |-> Append(answers[p], NoAnswer)]
  BY DEF SendSearch, NoAnswer
<1>3. /\ Len(sent') = i /\ i \in Nat \ {0} /\ Len(sent) \in Nat
      /\ sent'[i] = e /\ \A n \in 1..Len(sent) : sent'[n] = sent[n] /\ n # i /\ n \in 1..i
  <2> HIDE DEF e
  <2> QED BY <1>0, <1>2, <1>i
<1>4. ASSUME NEW p \in Procs
      PROVE  /\ answers'[p] \in Seq(Answer) /\ Len(answers'[p]) = i /\ answers'[p][i] = NoAnswer
             /\ \A n \in 1..Len(sent) : answers'[p][n] = answers[p][n]
  <2>1. answers[p] \in Seq(Answer) /\ Len(answers[p]) = Len(sent) /\ NoAnswer \in Answer
    BY DEF SearchInv, AnswersType, NoAnswer, Answer
  <2>2. answers'[p] = Append(answers[p], NoAnswer)
    BY <1>2
  <2> QED BY <2>1, <2>2, <1>i
<1>5. AnswersType'
  BY <1>2, <1>3, <1>4 DEF AnswersType
<1>6. SentType'
  <2>1. ASSUME NEW n \in 1..Len(sent') PROVE sent'[n].pkt \in Requests /\ sent'[n].at <= changes'
    <3>1. CASE n = i
      BY <1>0, <1>3, <3>1
    <3>2. CASE n # i
      <4>1. n \in 1..Len(sent)
        BY <1>3, <1>i, <3>2
      <4> HIDE DEF e
      <4> QED BY <1>3, <4>1 DEF SearchInv, SentType
    <3> QED BY <3>1, <3>2
  <2> QED BY <2>1 DEF SentType
<1>7. ASSUME NEW m \in Deliveries(pkt)
      PROVE  /\ m.id = i /\ m.cmd = "SEARCH" /\ m.to \in sc.procs /\ CopyOf(m, r) /\ m.dst = r.dst
             /\ m = [pkt EXCEPT !.to = m.to] /\ (r.dst # "Bcast" => m.to = q)
  <2>1. PICK p \in sc.procs : m = [pkt EXCEPT !.to = p] /\ (pkt.to = "all" \/ pkt.to = p)
    BY DEF Deliveries
  <2>2. r.tag = FALSE
    BY <1>0, SearchAssumption DEF Packets
  <2>3. m.id = i /\ m.cmd = "SEARCH" /\ m.to = p /\ m.dst = r.dst /\ CopyOf(m, r)
    BY <1>0, <1>3, <2>1, <2>2 DEF Packets, CopyOf
  <2>4. r.dst # "Bcast" => pkt.to = q
    BY <1>0 DEF Packets
  <2>5. r.dst # "Bcast" => p = q
    <3>1. q # "all"
      BY <1>0, <1>1, ScenarioAssumption
    <3> QED BY <2>1, <2>4, <3>1
  <2> QED BY <2>1, <2>3, <2>5
<1>8. ASSUME NEW p \in sc.procs, r.dst = "Bcast" \/ p = q
      PROVE  \E m \in Deliveries(pkt) : m.to = p
  <2>1. pkt.to = "all" \/ pkt.to = p
    BY <1>0, <1>8 DEF Packets
  <2>2. [pkt EXCEPT !.to = p].to = p
    BY <1>0 DEF Packets
  <2> QED BY <2>1, <2>2 DEF Deliveries
<1>9. Copies(i)' = Deliveries(pkt) /\ \A n \in 1..Len(sent) : Copies(n)' = Copies(n)
  <2>1. \A m \in net : m.cmd = "SEARCH" => m.id \in 1..Len(sent)
    BY DEF SearchInv, CopiesType
  <2> HIDE DEF pkt, e
  <2>2. net' = net \cup Deliveries(pkt)
    BY <1>1 DEF pkt
  <2>3. \A m \in Deliveries(pkt) : m.id = i /\ m.cmd = "SEARCH"
    BY <1>7
  <2>4. \A n \in 1..Len(sent) : n # i
    BY <1>3
  <2>5. \A m \in net : ~(m.cmd = "SEARCH" /\ m.id = i)
    BY <2>1, <2>4
  <2>6. {m \in net' : m.cmd = "SEARCH" /\ m.id = i} = Deliveries(pkt)
    BY <2>2, <2>3, <2>5
  <2>7. ASSUME NEW n \in 1..Len(sent) PROVE Copies(n)' = Copies(n)
    BY <2>2, <2>3, <2>4 DEF Copies
  <2> QED BY <2>6, <2>7 DEF Copies
<1>10. CopiesType'
  <2>2. net' = net \cup Deliveries(pkt)
    BY <1>1 DEF pkt
  <2> HIDE DEF pkt, e
  <2> QED BY <1>3, <1>7, <2>2 DEF SearchInv, CopiesType
<1>11. OnlyCopy(i)'
  <2>1. ASSUME NEW m \in Deliveries(pkt), NEW k \in Deliveries(pkt), k.to = m.to PROVE k = m
    <3> HIDE DEF pkt
    <3> QED BY <1>7, <2>1
  <2>2. ASSUME NEW m \in Deliveries(pkt), m.dst \in {"Ucast", "Ucast6"}, NEW k \in Deliveries(pkt) PROVE k = m
    <3> HIDE DEF pkt
    <3> QED BY <1>7, <2>1, <2>2
  <2>3. \A p \in Procs : answers'[p][i] = NoAnswer
    BY <1>4
  <2>4. sent'[i].pkt = r
    BY <1>3
  <2>5. NoAnswer.replies = 0
    BY DEF NoAnswer
  <2> DEFINE D == Deliveries(pkt)
  <2>6. /\ \A m \in D : CopyOf(m, r) /\ answers'[m.to][i].replies = 0
        /\ \A m, k \in D : (k.to = m.to \/ m.dst \in {"Ucast", "Ucast6"}) => k = m
    BY <1>0, <1>7, <2>1, <2>2, <2>3, <2>5
  <2>7. Copies(i)' = D
    BY <1>9
  <2> HIDE DEF pkt, e, D, Copies
  <2> QED BY <2>3, <2>4, <2>6, <2>7 DEF OnlyCopy
<1>12. Reached(i)'
  <2>1. sent'[i].pkt = r /\ sent'[i].calm = Calm
    BY <1>3
  <2>2. Calm => Calm'
    BY DEF Calm
  <2>3. ASSUME NEW p \in sc.procs, r.dst # "Ucast6"
        PROVE  \E m \in Deliveries(pkt) : m.to = p \/ m.dst = "Ucast"
    <3>1. CASE r.dst = "Bcast"
      BY <1>8, <3>1
    <3>2. CASE r.dst = "Ucast"
      <4> HIDE DEF pkt
      <4> QED BY <1>7, <1>8, <3>2
    <3> QED BY <1>0, <2>3, <3>1, <3>2, SearchAssumption DEF Packets
  <2> DEFINE D == Deliveries(pkt)
  <2>4. Copies(i)' = D /\ \A p \in sc.procs : r.dst # "Ucast6" => \E m \in D : m.to = p \/ m.dst = "Ucast"
    BY <1>9, <2>3
  <2>5. \A p \in sc.procs : Wants(i, p)' => r.dst # "Ucast6"
    BY <2>1 DEF Wants
  <2> HIDE DEF pkt, e, D, Copies, Calm
  <2> QED BY <2>1, <2>2, <2>4, <2>5 DEF Reached
<1>13. ASSUME NEW n \in 1..Len(sent) PROVE OnlyCopy(n)' /\ Reached(n)'
  <2>1. Calm => Calm'
    BY DEF Calm
  <2>2. \A m \in Copies(n) : m.to \in sc.procs
    BY DEF SearchInv, CopiesType, Copies
  <2>3. OnlyCopy(n) /\ Reached(n)
    BY DEF SearchInv
  <2> HIDE DEF Calm, e, pkt
  <2> QED BY <1>0, <1>3, <1>4, <1>9, <2>1, <2>2, <2>3, CopyKept
<1>14. \A n \in 1..Len(sent') : n = i \/ n \in 1..Len(sent)
  <2> HIDE DEF e
  <2> QED BY <1>3, <1>i
<1> QED
  <2> HIDE DEF e, pkt
  <2>1. \A n \in 1..Len(sent') : OnlyCopy(n)' /\ Reached(n)'
    BY <1>11, <1>12, <1>13, <1>14
  <2> QED BY <1>5, <1>6, <1>10, <2>1 DEF SearchInv

\* A server which runs answers a search for it, and so does one which is asked to.
LEMMA AnswerDue ==
    ASSUME NEW p \in Procs, NEW m \in Packets, NEW r \in Requests, CopyOf(m, r), ~Forwards(m),
           srv[p].udp = Listeners[p], r.dst # "Ucast6",
           r.names \cap Hosted[p] # {} \/ r.must
    PROVE  /\ Accepts(m) /\ Hear(srv[p].udp, m) # {}
           /\ Replies(NamesOf(TcpSeen(srv[p].tcpSeen, m), m) \cap Hosted[p], m.must)
<1>1. m.cmd = "SEARCH" /\ m.tag \in BOOLEAN /\ m.dst \in {"Ucast", "Ucast6", "Bcast", "Lo"} /\ r \in Packets
  BY ScenarioAssumption DEF Packets
<1>2. \/ m.dst = "Bcast" /\ m.tag = FALSE
      \/ m.dst = "Lo" /\ m.tag = TRUE /\ m.reply = "client"
  BY <1>1, SearchAssumption DEF CopyOf, Forwards, OriginOf, Packets
<1>3. Accepts(m) /\ OrigDest(m) \in {"Ucast", "Bcast"}
  BY <1>1, <1>2 DEF Accepts, OriginOf, OrigDest, Forwards
<1>4. Hear(srv[p].udp, m) # {}
  BY <1>3, HeardOnce
<1>5. r.names # {} => TcpSeen(srv[p].tcpSeen, m)
  BY <1>1, SearchAssumption DEF TcpSeen, CopyOf
<1>6. Replies(NamesOf(TcpSeen(srv[p].tcpSeen, m), m) \cap Hosted[p], m.must)
  BY <1>5 DEF Replies, NamesOf, CopyOf
<1> QED BY <1>3, <1>4, <1>6

\* A process receives a search and forwards or answers it.
LEMMA RecvInv ==
    ASSUME LifeInv, NetType, SearchInv, NEW m \in net, RecvSearch(m), UdpType', Calm => Calm'
    PROVE  SearchInv'
<1> DEFINE p == m.to
<1> DEFINE i == m.id
<1> DEFINE u == srv[p].udp
<1> DEFINE N == IF Accepts(m) /\ Hear(u, m) # {} /\ Replies(NamesOf(TcpSeen(srv[p].tcpSeen, m), m) \cap Hosted[p], m.must)
                THEN Cardinality(Hear(u, m)) ELSE 0
<1> DEFINE F == IF Forwards(m) THEN 1 ELSE 0
<1> DEFINE f == [ForwardOf(m) EXCEPT !.to = "all"]
<1> DEFINE D == Deliveries(f)
<1>0. /\ sc.procs \subseteq Procs /\ m \in Packets /\ m.cmd = "SEARCH" /\ p \in sc.procs /\ p \in Procs
      /\ i \in 1..Len(sent) /\ m \in Copies(i) /\ OnlyCopy(i) /\ Reached(i)
      /\ sc' = sc /\ sent' = sent /\ changes' = changes /\ sent \in Seq(Searches)
  <2>1. m.cmd = "SEARCH" /\ sc' = sc /\ sent' = sent /\ changes' = changes
    BY DEF RecvSearch, hvars
  <2>2. m \in Packets /\ sc.procs \subseteq Procs /\ sent \in Seq(Searches)
    BY <2>1, ScenarioAssumption DEF NetType, News
  <2>3. p \in sc.procs /\ i \in 1..Len(sent)
    BY <2>1 DEF SearchInv, CopiesType
  <2>4. m \in Copies(i)
    BY <2>1 DEF Copies
  <2> QED BY <2>1, <2>2, <2>3, <2>4 DEF SearchInv
<1>1. answers' = [answers EXCEPT ![p][i] = [replies |-> @.replies + N, forwards |-> @.forwards + F]]
  BY DEF RecvSearch
<1>2. /\ ~Forwards(m) => \A k : k.cmd = "SEARCH" => (k \in net' <=> k \in net /\ k # m)
      /\ Forwards(m) => \A k : k.cmd = "SEARCH" => (k \in net' <=> (k \in net /\ k # m) \/ k \in D)
  BY DEF RecvSearch
<1>3. N \in {0, 1} /\ (Forwards(m) => N = 0)
  <2>1. u \subseteq Listeners[p]
    BY <1>0 DEF SearchInv, UdpType
  <2>2. Cardinality(Hear(u, m)) \in {0, 1}
    BY <1>0, <2>1, HeardOnce
  <2> QED BY <2>2 DEF Accepts
<1>4. Forwards(m) <=> m.dst = "Ucast"
  BY <1>0 DEF Forwards, OriginOf
<1>5. /\ answers \in [Procs -> Seq(Answer)] /\ \A q \in Procs : Len(answers[q]) = Len(sent)
      /\ answers[p][i] \in Answer /\ answers[p][i].replies = 0
      /\ Forwards(m) => \A q \in Procs : answers[q][i] = NoAnswer
  BY <1>0, <1>4 DEF SearchInv, AnswersType, OnlyCopy
<1> HIDE DEF N
<1> DEFINE a == [replies |-> N, forwards |-> answers[p][i].forwards + F]
<1>6. answers' = [answers EXCEPT ![p] = [answers[p] EXCEPT ![i] = a]] /\ a \in Answer
  <2> HIDE DEF p, i
  <2>0. answers[p][i].forwards + F \in 0..1
    <3>1. CASE Forwards(m)
      <4>1. answers[p][i].forwards = 0 /\ F = 1
        BY <1>0, <1>5, <3>1 DEF NoAnswer
      <4> QED BY <4>1
    <3>2. CASE ~Forwards(m)
      <4>1. answers[p][i].forwards \in 0..1 /\ F = 0
        BY <1>5, <3>2 DEF Answer
      <4> QED BY <4>1
    <3> QED BY <3>1, <3>2
  <2> HIDE DEF F
  <2>1. a \in Answer
    BY <1>3, <2>0 DEF Answer
  <2>2. [replies |-> answers[p][i].replies + N, forwards |-> answers[p][i].forwards + F] = a
    BY <1>3, <1>5
  <2>3. answers' = [answers EXCEPT ![p] = [answers[p] EXCEPT ![i] =
                      [replies |-> answers[p][i].replies + N, forwards |-> answers[p][i].forwards + F]]]
    BY <1>1
  <2> HIDE DEF a
  <2> QED BY <2>1, <2>2, <2>3
<1>7. /\ \A q \in Procs : q # p => answers'[q] = answers[q]
      /\ answers'[p] \in Seq(Answer) /\ Len(answers'[p]) = Len(sent) /\ answers'[p][i] = a
      /\ \A n \in 1..Len(sent) : n # i => answers'[p][n] = answers[p][n]
      /\ answers' \in [Procs -> Seq(Answer)]
  <2> HIDE DEF a, p, i
  <2>1. answers[p] \in Seq(Answer) /\ i \in 1..Len(answers[p]) /\ Len(answers[p]) = Len(sent)
    BY <1>0, <1>5
  <2>2. /\ [answers[p] EXCEPT ![i] = a] \in Seq(Answer) /\ Len([answers[p] EXCEPT ![i] = a]) = Len(sent)
        /\ \A n \in 1..Len(sent) : [answers[p] EXCEPT ![i] = a][n] = IF n = i THEN a ELSE answers[p][n]
    BY <1>6, <2>1, ExceptSeq
  <2> QED BY <1>0, <1>5, <1>6, <2>2
<1>8. \A n \in 1..Len(sent), q \in Procs : n # i \/ q # p => answers'[q][n] = answers[q][n]
  <2> HIDE DEF a, p, i
  <2> QED BY <1>7
<1>9. AnswersType' /\ SentType'
  <2> HIDE DEF a, p, i
  <2> QED BY <1>0, <1>5, <1>7 DEF AnswersType, SentType, SearchInv
<1>10. ASSUME NEW k \in D
       PROVE  /\ k.cmd = "SEARCH" /\ k.id = i /\ k.to \in sc.procs /\ k = [f EXCEPT !.to = k.to]
              /\ k.dst = "Lo" /\ k.tag = TRUE /\ k.reply = "client"
              /\ k.names = m.names /\ k.must = m.must /\ k.tcp = m.tcp
  <2>1. PICK q \in sc.procs : k = [f EXCEPT !.to = q]
    BY DEF Deliveries
  <2> QED BY <1>0, <2>1 DEF Packets, ForwardOf
<1>11. ASSUME NEW q \in sc.procs PROVE \E k \in D : k.to = q
  <2>1. f.to = "all" /\ [f EXCEPT !.to = q].to = q
    BY <1>0 DEF Packets, ForwardOf
  <2> QED BY <2>1 DEF Deliveries
<1> HIDE DEF D, f
<1>12. CopiesType'
  <2> HIDE DEF p, i
  <2> QED BY <1>0, <1>2, <1>10 DEF CopiesType, SearchInv
<1>13. ASSUME NEW n \in 1..Len(sent), n # i PROVE OnlyCopy(n)' /\ Reached(n)'
  <2>1. \A m1 \in Copies(n) : m1.to \in sc.procs
    BY DEF SearchInv, CopiesType, Copies
  <2>2. OnlyCopy(n) /\ Reached(n)
    BY DEF SearchInv
  <2>3. Copies(n)' = Copies(n)
    BY <1>0, <1>2, <1>10, <1>13 DEF Copies
  <2> HIDE DEF p, i, Copies, Calm
  <2> QED BY <1>0, <1>8, <1>13, <2>1, <2>2, <2>3, CopyKept
<1>14. \A q \in sc.procs : Wants(i, q)' = Wants(i, q)
  BY <1>0 DEF Wants
<1>15. ASSUME Forwards(m) PROVE OnlyCopy(i)' /\ Reached(i)'
  <2>1. \A k \in Copies(i) : k = m
    BY <1>0, <1>4, <1>15 DEF OnlyCopy
  <2>2. Copies(i)' = D
    <3>1. ASSUME NEW k PROVE k \in Copies(i)' <=> k \in D
      BY <1>2, <1>10, <1>15, <2>1 DEF Copies
    <3>2. \A k \in Copies(i)' : k \in D
      BY <3>1
    <3>3. \A k \in D : k \in Copies(i)'
      BY <3>1
    <3> HIDE DEF Copies
    <3> QED BY <3>2, <3>3
  <2>3. \A q \in Procs : answers'[q][i].replies = 0
    <3>1. a.replies = 0
      BY <1>3, <1>15
    <3>2. NoAnswer.replies = 0
      BY DEF NoAnswer
    <3> HIDE DEF a, p, i
    <3> QED BY <1>0, <1>5, <1>7, <1>8, <1>15, <3>1, <3>2
  <2>4. \A k \in D : CopyOf(k, sent[i].pkt)
    <3>1. sent[i].pkt.dst = "Ucast" /\ CopyOf(m, sent[i].pkt)
      BY <1>0, <1>4, <1>15 DEF OnlyCopy, CopyOf
    <3> HIDE DEF i
    <3> QED BY <1>10, <3>1 DEF CopyOf
  <2>5. \A k, l \in D : k.to = l.to => k = l
    BY <1>10
  <2>6. \A k \in D : k.to \in Procs /\ k.dst \notin {"Ucast", "Ucast6"}
    BY <1>0, <1>10
  <2>7. OnlyCopy(i)'
    <3> HIDE DEF p, i, Copies, a
    <3> QED BY <1>0, <2>2, <2>3, <2>4, <2>5, <2>6 DEF OnlyCopy
  <2>8. Reached(i)'
    <3> HIDE DEF p, i, Copies, a, Calm
    <3> QED BY <1>0, <1>11, <2>2 DEF Reached
  <2> QED BY <2>7, <2>8
<1>16. ASSUME ~Forwards(m) PROVE OnlyCopy(i)' /\ Reached(i)'
  <2>2. Copies(i)' = Copies(i) \ {m}
    <3>1. ASSUME NEW k PROVE k \in Copies(i)' <=> k \in Copies(i) \ {m}
      BY <1>2, <1>16 DEF Copies
    <3>2. \A k \in Copies(i)' : k \in Copies(i) \ {m}
      BY <3>1
    <3>3. \A k \in Copies(i) \ {m} : k \in Copies(i)'
      BY <3>1
    <3> HIDE DEF Copies
    <3> QED BY <3>2, <3>3
  <2>3. ASSUME NEW k \in Copies(i) \ {m}
        PROVE  k.to # p /\ k.to \in Procs /\ k.dst \notin {"Ucast", "Ucast6"} /\ answers'[k.to][i] = answers[k.to][i]
    <3>1. k.to \in Procs
      BY <1>0 DEF SearchInv, CopiesType, Copies
    <3>2. k.to # p /\ k.dst \notin {"Ucast", "Ucast6"}
      <4> HIDE DEF Copies, i
      <4> QED BY <1>0 DEF OnlyCopy
    <3> HIDE DEF p, i, a
    <3> QED BY <1>0, <1>8, <3>1, <3>2
  <2>4. OnlyCopy(i)'
    <3>1. \A k \in Copies(i) \ {m} : CopyOf(k, sent[i].pkt) /\ answers'[k.to][i].replies = 0 /\ \A l \in Copies(i) : l.to = k.to => l = k
      <4> HIDE DEF p, i, Copies, a
      <4> QED BY <1>0, <2>3 DEF OnlyCopy
    <3> HIDE DEF p, i, Copies, a
    <3> QED BY <1>0, <2>2, <2>3, <3>1 DEF OnlyCopy
  <2>5. ASSUME Calm, NEW q \in sc.procs, Wants(i, q),
               answers[q][i].replies = 1 \/ \E k \in Copies(i) : k.to = q \/ k.dst = "Ucast"
        PROVE  answers'[q][i].replies = 1 \/ \E k \in Copies(i) \ {m} : k.to = q \/ k.dst = "Ucast"
    <3>1. CASE q # p
      <4>1. answers'[q][i] = answers[q][i]
        <5> HIDE DEF a, i, p
        <5> QED BY <1>0, <1>8, <3>1
      <4> HIDE DEF Copies, i
      <4> QED BY <1>4, <1>16, <2>5, <3>1, <4>1
    <3>2. CASE q = p
      <4>1. srv[p].udp = Listeners[p]
        BY <1>0, <2>5 DEF Calm, LifeInv, Parts
      <4>2. sent[i].pkt \in Requests /\ CopyOf(m, sent[i].pkt)
        BY <1>0 DEF SearchInv, SentType, OnlyCopy
      <4>3. Accepts(m) /\ Hear(u, m) # {} /\ Replies(NamesOf(TcpSeen(srv[p].tcpSeen, m), m) \cap Hosted[p], m.must)
        BY <1>0, <1>16, <2>5, <3>2, <4>1, <4>2, AnswerDue DEF Wants
      <4>4. Cardinality(Hear(u, m)) = 1
        BY <1>0, <4>1, <4>3, HeardOnce
      <4>5. N = 1
        BY <4>3, <4>4 DEF N
      <4>6. a.replies = 1
        BY <4>5
      <4> HIDE DEF a, i, p
      <4> QED BY <1>7, <3>2, <4>6
    <3> QED BY <3>1, <3>2
  <2>6. Reached(i)'
    <3> HIDE DEF p, i, Copies, a, Calm
    <3> QED BY <1>0, <1>14, <2>2, <2>5 DEF Reached
  <2> QED BY <2>4, <2>6
<1>17. \A n \in 1..Len(sent) : OnlyCopy(n)' /\ Reached(n)'
  <2> HIDE DEF p, i, a
  <2> QED BY <1>13, <1>15, <1>16
<1> QED BY <1>0, <1>9, <1>12, <1>17 DEF SearchInv

\* Each step keeps count of the datagrams of each search.
LEMMA SearchStep ==
    ASSUME LifeInv, NetType, SearchInv, Next
    PROVE  SearchInv'
<1>0. sc.procs \subseteq Procs /\ sc' = sc /\ changes \in Nat /\ sent \in Seq(Searches)
  <2>1. sc' = sc
    BY DEF Next, User, Life, Connections, Search, Clean, Tick, Crash, SendBeacon, StartDiscover,
           StopDiscover, RecvBeacon, LoseBeacon, RecvPong, RecvSearch
  <2> QED BY <2>1, ScenarioAssumption DEF NetType
<1>s. ASSUME NEW n \in 1..Len(sent) PROVE sent[n].at \in Nat
  <2>1. sent[n] \in Searches
    BY <1>0
  <2> QED BY <2>1 DEF Searches
<1>1. UdpType'
  BY UdpStep DEF SearchInv
<1>2. ASSUME NEW r \in Requests, SendSearch(r), srv' = srv, thr' = thr, changes' = changes PROVE SearchInv'
  BY <1>0, <1>1, <1>2, SendInv
<1>3. ASSUME NEW m \in net, RecvSearch(m) PROVE SearchInv'
  <2>1. Calm => Calm'
    <3>1. changes' = changes
      BY <1>3 DEF RecvSearch, hvars
    <3> QED BY <3>1, CalmStep
  <2> QED BY <1>1, <1>3, <2>1, RecvInv
<1>4. ASSUME sent' = sent, answers' = answers, \A k : k.cmd = "SEARCH" /\ k \in net' => k \in net,
             \/ changes' = changes + 1
             \/ changes' = changes /\ \A k : k.cmd = "SEARCH" /\ k \in net => k \in net'
      PROVE  SearchInv'
  <2>1. AnswersType' /\ SentType' /\ CopiesType'
    <3>1. AnswersType'
      BY <1>4 DEF AnswersType, SearchInv
    <3>2. SentType'
      <4>1. \A n \in 1..Len(sent) : sent[n].at <= changes /\ sent[n].pkt \in Requests
        BY DEF SearchInv, SentType
      <4> QED BY <1>0, <1>4, <1>s, <4>1 DEF SentType
    <3>3. CopiesType'
      BY <1>0, <1>4 DEF CopiesType, SearchInv
    <3> QED BY <3>1, <3>2, <3>3
  <2>2. ASSUME NEW n \in 1..Len(sent) PROVE OnlyCopy(n)' /\ Reached(n)'
    <3>1. /\ \A k \in Copies(n) : k.to \in sc.procs
          /\ OnlyCopy(n) /\ Reached(n) /\ sent[n].at \in Nat /\ sent[n].at <= changes
      BY <1>s DEF SearchInv, CopiesType, Copies, SentType
    <3>2. CASE changes' = changes + 1
      <4>1. Copies(n)' \subseteq Copies(n)
        BY <1>4 DEF Copies
      <4> HIDE DEF Copies
      <4> QED BY <1>0, <1>4, <3>1, <3>2, <4>1, CopyDropped
    <3>3. CASE changes' = changes /\ \A k : k.cmd = "SEARCH" /\ k \in net => k \in net'
      <4>1. Copies(n)' = Copies(n)
        BY <1>4, <3>3 DEF Copies
      <4>2. Calm => Calm'
        BY <3>3, CalmStep
      <4> HIDE DEF Copies, Calm
      <4> QED BY <1>0, <1>4, <3>1, <3>3, <4>1, <4>2, CopyKept
    <3> QED BY <1>4, <3>2, <3>3
  <2> QED BY <1>1, <1>4, <2>1, <2>2 DEF SearchInv
<1>5. CASE User \/ Life \/ Connections \/ Clean \/ Tick
  <2>1. /\ sent' = sent /\ answers' = answers /\ net' = net
        /\ changes' = changes + 1 \/ changes' = changes
    BY <1>5 DEF User, May, Life, Connections, Clean, Tick, nvars, hvars
  <2> QED BY <1>4, <2>1
<1>6. ASSUME NEW p \in sc.procs, Crash(p) PROVE SearchInv'
  BY <1>4, <1>6 DEF Crash, May
<1>7. ASSUME NEW p \in sc.procs, SendBeacon(p) PROVE SearchInv'
  BY <1>4, <1>7 DEF SendBeacon, Beacon
<1>8. ASSUME NEW m \in net, RecvBeacon(m) \/ LoseBeacon(m) \/ RecvPong(m) PROVE SearchInv'
  <2>1. sent' = sent /\ answers' = answers /\ changes' = changes /\ net' = net \ {m} /\ m.cmd # "SEARCH"
    BY <1>8 DEF RecvBeacon, LoseBeacon, RecvPong, hvars
  <2> QED BY <1>4, <2>1
<1>9. CASE Search
  BY <1>2, <1>9 DEF Search, lvars, hvars
<1>10. ASSUME NEW d \in Discs, StartDiscover(d) \/ StopDiscover(d) PROVE SearchInv'
  <2>1. srv' = srv /\ thr' = thr /\ changes' = changes
    BY <1>10 DEF StartDiscover, StopDiscover, lvars, hvars
  <2>2. (sent' = sent /\ answers' = answers /\ net' = net) \/ \E r \in Requests : SendSearch(r)
    BY <1>10 DEF StartDiscover, StopDiscover, nvars
  <2> QED BY <1>2, <1>4, <2>1, <2>2
<1> QED BY <1>3, <1>5, <1>6, <1>7, <1>8, <1>9, <1>10 DEF Next

\* All is answered when nothing is on its way.
LEMMA AllAnswered ==
    ASSUME NetType, SearchInv
    PROVE  AnsweredOnceByAll
<1>0. sc.procs \subseteq Procs
  BY ScenarioAssumption DEF NetType
<1>1. ASSUME NEW n \in 1..Len(sent), NEW p \in sc.procs
      PROVE  /\ answers[p][n].replies <= 1 /\ answers[p][n].forwards <= 1
             /\ /\ sent[n].calm /\ sent[n].at = changes /\ ~Pending(n) /\ sent[n].pkt.dst # "Ucast6"
                /\ sent[n].pkt.names \cap Hosted[p] # {} \/ sent[n].pkt.must
                => answers[p][n].replies = 1
  <2>1. answers[p][n] \in Answer
    BY <1>0 DEF SearchInv, AnswersType
  <2>2. ~Pending(n) => Copies(n) = {}
    BY DEF Pending, Copies
  <2>3. Reached(n)
    BY DEF SearchInv
  <2>4. answers[p][n].replies <= 1 /\ answers[p][n].forwards <= 1
    BY <2>1 DEF Answer
  <2> HIDE DEF Copies, Pending, Calm
  <2> QED BY <2>2, <2>3, <2>4 DEF Reached, Wants
<1> QED BY <1>1 DEF AnsweredOnceByAll

\* At both ends what a step leaves behind agrees with the state it is in: a
\* server's parts and threads with its state (server.cpp:555), and what a
\* discover() was told with the table of beacons (client.cpp:773), for any number
\* of servers, threads, connections, searches and operations.
THEOREM StatesAlwaysAgree == Spec => []StatesAgree
<1> DEFINE Inv == LifeInv /\ NetType /\ ViewInv
<1>1. Init => Inv
  BY InitInv
<1>2. Inv /\ [Next]_vars => Inv'
  <2>1. CASE Next
    BY <2>1, LifeNext, NetStep, ViewStep
  <2>2. CASE UNCHANGED vars
    BY <2>2 DEF vars, lvars, bvars, nvars, hvars, LifeInv, LifeType, Parts, AtWork, NetType, ViewInv, ViewAgrees
  <2> QED BY <2>1, <2>2
<1>3. Inv => StatesAgree
  BY AtWorkOne DEF StatesAgree, ViewInv
<1> QED BY <1>1, <1>2, <1>3, PTL DEF Spec

\* A server whose timer runs all along is reported as lost, by whichever timer and
\* whenever, only if the beacons which were lost since one was received account for
\* more than the limit (client.cpp:1295), however the beacons of many servers, pongs,
\* stops and crashes come in between, and whatever intervals, delay and limit are.
THEOREM NoServerFalselyLost == Spec => NoFalseTimeout
<1> DEFINE Inv == LifeInv /\ NetType /\ ViewInv /\ AgeInv
<1>1. Init => Inv
  <2>1. Init => AgeInv
    BY ScenarioAssumption, TimeAssumption DEF Init, InitBeacons, AgeInv, AgeOf, Beacons, None, Gap
  <2> QED BY <2>1, InitInv
<1>2. Inv /\ [Next]_vars => Inv'
  <2>1. CASE Next
    BY <2>1, LifeNext, NetStep, ViewStep, AgeStep
  <2>2. CASE UNCHANGED vars
    BY <2>2 DEF vars, lvars, bvars, nvars, hvars, LifeInv, LifeType, Parts, AtWork, NetType, ViewInv, ViewAgrees,
                AgeInv, AgeOf, Beacons
  <2> QED BY <2>1, <2>2
<1>3. Inv /\ [Next]_vars =>
        [\A p \in Procs : track[p].known /\ ~track'[p].known /\ p \in steady
            => (missed[p] + 1) * (LongInterval + Delay) > MaxAge]_vars
  BY TimeoutStep
<1> QED BY <1>1, <1>2, <1>3, PTL DEF Spec, NoFalseTimeout

\* No process answers or forwards a search twice, and in the end every server which
\* has the name and runs all along has answered it, even if one process of the host
\* only was given the datagram (udp_collector.cpp:390), for any number of processes,
\* searches, lost beacons, stops and crashes.
THEOREM AlwaysAnsweredOnce == Spec => []AnsweredOnceByAll
<1> DEFINE Inv == LifeInv /\ NetType /\ SearchInv
<1>1. Init => Inv
  <2>1. Init => SearchInv
    BY DEF Init, InitLife, NewServer, SearchInv, AnswersType, SentType, CopiesType, UdpType
  <2> QED BY <2>1, InitInv
<1>2. Inv /\ [Next]_vars => Inv'
  <2>1. CASE Next
    BY <2>1, LifeNext, NetStep, SearchStep
  <2>2. CASE UNCHANGED vars
    BY <2>2 DEF vars, lvars, bvars, nvars, hvars, LifeInv, LifeType, Parts, AtWork, NetType,
                SearchInv, AnswersType, SentType, CopiesType, UdpType, OnlyCopy, Reached, Copies, Wants, Calm
  <2> QED BY <2>1, <2>2
<1>3. Inv => AnsweredOnceByAll
  BY AllAnswered
<1> QED BY <1>1, <1>2, <1>3, PTL DEF Spec
=============================================================================
