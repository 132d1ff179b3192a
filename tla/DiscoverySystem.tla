-------------------------- MODULE DiscoverySystem --------------------------
(***************************************************************************)
(* Servers on one host and a client elsewhere: beacons, searches by UDP,   *)
(* and discover().                                                         *)
(***************************************************************************)
EXTENDS ServerLife, ClientBeacons, UDPCollector

CONSTANTS
    Hosted,         \* the names each server has
    Requests,       \* searches the client may send, as packets
    ShortInterval,  \* beaconIntervalShort and beaconIntervalLong, in the units of
    LongInterval,   \*   the age of a tracked server
    Delay,          \* bound: how late a beacon timer runs and its beacon arrives
    Scenarios       \* what may happen in a behaviour:
                    \*   procs: servers started; threads: which call;
                    \*   calls: "stop", "run", "source",
                    \*   "conn", "crash", "discover", "clean"; requests, lost,
                    \*   changes: bounds of searches, lost beacons, and calls of
                    \*   start(), stop(), interrupt(), crashes and changes of sources

Packets ==
    [cmd : {"SEARCH"}, dst : {"Ucast", "Ucast6", "Bcast", "Lo"}, tag : BOOLEAN, reply : {"any", "client"},
     tcp : BOOLEAN, must : BOOLEAN, names : SUBSET UNION {Hosted[p] : p \in Procs},
     to : Procs \cup {"all"}, id : Nat]

ASSUME ScenarioAssumption ==
    /\ Origins = Procs /\ {"client", "all"} \cap Procs = {}
    /\ \A x \in Scenarios : /\ x.procs \subseteq Procs /\ x.threads \subseteq Threads
                             /\ {x.requests, x.lost, x.changes} \subseteq Nat
    /\ Requests \subseteq Packets

ASSUME TimeAssumption ==
    {ShortInterval, LongInterval, Delay} \subseteq Nat /\ ShortInterval <= LongInterval

\* The client names "tcp" with the names it looks for (client.cpp:1101), and sends
\* nothing as if it was forwarded.  A server is bound to the wildcard address, or to
\* addresses of interfaces and their broadcast addresses, not to both.
ASSUME SearchAssumption ==
    /\ \A r \in Requests : r.dst # "Lo" /\ ~r.tag /\ (r.names # {} => r.tcp)
    /\ \A p \in Procs : \/ Listeners[p] = {"any"}
                        \/ "any" \notin Listeners[p] /\ {"Ucast", "Bcast"} \subseteq Listeners[p]

VARIABLES
    sc,             \* the scenario
    net,            \* datagrams on their way to one process each
    sent,           \* searches sent so far, the number of each is its place
    answers,        \* of each search and process: replies, and forwards
    lost, changes,  \* against their bounds
    due,            \* time until the next beacon of each server is there at the latest
    missed,         \* beacons of each server lost since one was received
    steady          \* servers armed without break since a beacon was received

nvars == <<net, sent, answers>>
hvars == <<lost, changes, due, missed, steady>>
vars == <<lvars, bvars, sc, nvars, hvars>>

Init ==
    /\ InitLife /\ InitBeacons /\ sc \in Scenarios
    /\ net = {} /\ sent = <<>> /\ answers = [p \in Procs |-> <<>>]
    /\ lost = 0 /\ changes = 0 /\ due = [p \in Procs |-> Delay]
    /\ missed = [p \in Procs |-> 0] /\ steady = {}

\* the thread which calls run()
Main == CHOOSE t \in Threads : TRUE
May(x) == x \in sc.calls /\ changes < sc.changes /\ changes' = changes + 1
\* The first beacon is sent at once.
Rearm ==
    /\ steady' = {p \in steady : srv'[p].armed}
    /\ due' = [p \in Procs |-> IF srv'[p].armed THEN due[p] ELSE Delay]

User ==
    /\ \E p \in sc.procs, t \in sc.threads :
          \/ CallStart(p, t) /\ changes < sc.changes /\ changes' = changes + 1
          \/ May("run") /\ t = Main /\ CallRun(p, t)
          \/ May("run") /\ Interrupt(p)
          \/ May("stop") /\ CallStop(p, t)
          \/ May("source") /\ ChangeSources(p)
    /\ UNCHANGED <<bvars, sc, nvars, lost, due, missed, steady>>

Life ==
    /\ \E p \in sc.procs, t \in sc.threads : LifeStep(p, t)
    /\ Rearm
    /\ UNCHANGED <<bvars, sc, nvars, lost, changes, missed>>

Connections ==
    /\ "conn" \in sc.calls
    /\ \E p \in sc.procs : AcceptConn(p) \/ EndConn(p)
    /\ UNCHANGED <<bvars, sc, nvars, hvars>>

\* A process dies, and is there again with another GUID.
Crash(p) ==
    /\ May("crash")
    /\ srv' = [srv EXCEPT ![p] = NewServer(srv[p].guid + 1)]
    /\ thr' = [thr EXCEPT ![p] = [t \in Threads |-> Idle]]
    /\ net' = {m \in net : m.to # p}
    /\ Rearm
    /\ UNCHANGED <<bvars, sc, sent, answers, lost, missed>>

Beacon(p) == [cmd |-> "BEACON", to |-> "client", from |-> p, guid |-> srv[p].guid, change |-> srv[p].change]

\* Time passes where "clean" is among the calls: a timer fires when it is due, and a
\* beacon arrives or is lost, within Delay.
Tick ==
    /\ "clean" \in sc.calls
    /\ \A m \in net : m.cmd # "BEACON"
    /\ \A p \in sc.procs : srv[p].armed => due[p] > 0
    /\ Aging
    /\ due' = [p \in Procs |-> IF srv[p].armed THEN due[p] - 1 ELSE due[p]]
    /\ UNCHANGED <<lvars, sc, nvars, lost, changes, missed, steady>>

\* doBeacons(), by its timer, which it arms again
Interval(s) == IF s.count < Burst THEN ShortInterval ELSE LongInterval
SendBeacon(p) ==
    /\ srv[p].armed /\ "clean" \in sc.calls /\ due[p] <= Delay
    /\ srv' = [srv EXCEPT ![p] = Beaconed(@)]
    /\ net' = net \cup {Beacon(p)}
    /\ due' = [due EXCEPT ![p] = Interval(srv[p]) + Delay]
    /\ UNCHANGED <<thr, bvars, sc, sent, answers, lost, changes, missed, steady>>

LoseBeacon(m) ==
    /\ m \in net /\ m.cmd = "BEACON" /\ lost < sc.lost
    /\ net' = net \ {m} /\ lost' = lost + 1
    /\ missed' = [missed EXCEPT ![m.from] = @ + 1]
    /\ UNCHANGED <<lvars, bvars, sc, sent, answers, changes, due, steady>>

RecvBeacon(m) ==
    /\ m \in net /\ m.cmd = "BEACON"
    /\ OnBeacon(m.from, m.guid, m.change)
    /\ net' = net \ {m}
    /\ missed' = [missed EXCEPT ![m.from] = 0]
    /\ steady' = IF srv[m.from].armed /\ srv[m.from].guid = m.guid THEN steady \cup {m.from} ELSE steady
    /\ UNCHANGED <<lvars, sc, sent, answers, lost, changes, due>>

RecvPong(m) ==
    /\ m \in net /\ m.cmd = "PONG"
    /\ OnPong(m.from, m.guid)
    /\ net' = net \ {m}
    /\ UNCHANGED <<lvars, sc, sent, answers, hvars>>

\* tickBeaconClean() by either timer, tickBeaconCleanS() or cacheCleanS(), whatever
\* is due or on its way
Clean ==
    /\ "clean" \in sc.calls
    /\ CleanTick
    /\ UNCHANGED <<lvars, sc, nvars, hvars>>

\* To one of the processes, if it is to one address, else to all
Deliveries(pkt) ==
    {[pkt EXCEPT !.to = p] : p \in {q \in sc.procs : pkt.to = "all" \/ pkt.to = q}}

\* All servers run, and no thread is about to change that.
Calm ==
    \A p \in sc.procs : srv[p].st = "Running" /\ \A t \in Threads : thr[p][t].pc = "idle"

\* A search, or the ping of discover()
SendSearch(pkt) ==
    /\ Len(sent) < sc.requests
    /\ LET n == Len(sent) + 1
       IN  /\ sent' = Append(sent, [pkt |-> pkt, at |-> changes, calm |-> Calm])
           /\ answers' = [p \in Procs |-> Append(answers[p], [replies |-> 0, forwards |-> 0])]
           /\ \E p \in sc.procs :
                 net' = net \cup Deliveries([pkt EXCEPT !.id = n, !.to = IF pkt.dst = "Bcast" THEN "all" ELSE p])

Search ==
    /\ \E r \in Requests : ~r.must /\ SendSearch(r)
    /\ UNCHANGED <<lvars, bvars, sc, hvars>>

StartDiscover(d) ==
    /\ "discover" \in sc.calls
    /\ \E r \in Requests :
          IF Pings(d) THEN r.must /\ SendSearch(r) ELSE UNCHANGED nvars
    /\ Discover(d)
    /\ UNCHANGED <<lvars, sc, hvars>>

StopDiscover(d) ==
    /\ Cancel(d)
    /\ UNCHANGED <<lvars, sc, nvars, hvars>>

\* UDPCollector::handle_one() and process_one(), Pvt::onSearch().  A process
\* without an active listener still has its collector.
RecvSearch(m) ==
    /\ m \in net /\ m.cmd = "SEARCH"
    /\ LET p == m.to
           tcp == TcpSeen(srv[p].tcpSeen, m)
           heard == Accepts(m) /\ Hear(srv[p].udp, m) # {}
           claimed == NamesOf(tcp, m) \cap Hosted[p]
           n == IF heard /\ Replies(claimed, m.must) THEN Cardinality(Hear(srv[p].udp, m)) ELSE 0
       IN  /\ srv' = [srv EXCEPT ![p].tcpSeen = IF Accepts(m) THEN tcp ELSE @]
           /\ answers' = [answers EXCEPT ![p][m.id] =
                             [replies |-> @.replies + n, forwards |-> @.forwards + IF Forwards(m) THEN 1 ELSE 0]]
           /\ net' = (net \ {m})
                \cup (IF Forwards(m) THEN Deliveries([ForwardOf(m) EXCEPT !.to = "all"]) ELSE {})
                \cup (IF n > 0 /\ m.must
                      THEN {[cmd |-> "PONG", to |-> "client", from |-> p, guid |-> srv[p].guid, change |-> 0]}
                      ELSE {})
    /\ UNCHANGED <<thr, bvars, sc, sent, hvars>>

Next ==
    \/ User \/ Life \/ Connections \/ Search \/ Clean \/ Tick
    \/ \E p \in sc.procs : Crash(p) \/ SendBeacon(p)
    \/ \E d \in Discs : StartDiscover(d) \/ StopDiscover(d)
    \/ \E m \in net : RecvBeacon(m) \/ LoseBeacon(m) \/ RecvPong(m) \/ RecvSearch(m)

Spec == Init /\ [][Next]_vars

\* Loops run what is posted to them and their timers, a datagram is delivered
\* or lost.
Fairness ==
    /\ WF_vars(Life) /\ WF_vars(Clean) /\ WF_vars(Tick)
    /\ \A p \in Procs : WF_vars(SendBeacon(p))
    /\ WF_vars(\E m \in net : RecvBeacon(m) \/ LoseBeacon(m) \/ RecvPong(m) \/ RecvSearch(m))

FairSpec == Spec /\ Fairness
-----------------------------------------------------------------------------
\* At most one thread is at work in start() or stop() of a server, and the state
\* tells which; a stopped server is silent, nobody is connected, no search is
\* heard and no beacon sent; a running one is all there, whatever threads called
\* start(), stop() and run() meanwhile (server.cpp:588).
Busy(p) == {t \in Threads : thr[p][t].pc \in {"starting", "stopping"}}
LifeAgrees ==
    \A p \in Procs :
        /\ srv[p].conns \in 0..MaxConn /\ srv[p].change \in 0..(ChangeMod - 1) /\ srv[p].count \in 0..Burst
        /\ Cardinality(Busy(p)) = IF srv[p].st \in {"Starting", "Stopping"} THEN 1 ELSE 0
        /\ srv[p].st = "Stopped" => ~srv[p].tcp /\ srv[p].udp = {} /\ ~srv[p].armed /\ srv[p].conns = 0
        /\ srv[p].st = "Running" => srv[p].tcp /\ srv[p].udp = Listeners[p] /\ srv[p].armed

\* No process answers a search twice or forwards it twice, though the multicast
\* on the loopback interface comes back to the one who sent it
\* (udp_collector.cpp:390); and in the end it is answered by every server which
\* has the name and runs all along, even if the kernel gave the datagram to a
\* single process of the host.
Pending(n) == \E m \in net : m.cmd = "SEARCH" /\ m.id = n
AnsweredOnceByAll ==
    \A n \in 1..Len(sent) :
        LET r == sent[n].pkt
            owed == sent[n].calm /\ sent[n].at = changes /\ ~Pending(n) /\ r.dst # "Ucast6"
        IN  \A p \in sc.procs :
               /\ answers[p][n].replies <= 1 /\ answers[p][n].forwards <= 1
               /\ owed /\ (r.names \cap Hosted[p] # {} \/ r.must) => answers[p][n].replies = 1

\* What a discover() operation was told last of a server agrees with what is
\* tracked: Online with the GUID of now, or Timeout (client.cpp:773).
ViewAgrees ==
    \A d \in Discs, p \in Procs : disc[d].st = "running" =>
        LET e == disc[d].last[p]
        IN  /\ e.ev = "Online" => track[p].known /\ track[p].guid = e.guid
            /\ e.ev = "Timeout" => ~track[p].known

\* At both ends what a step leaves behind agrees with the state it is in, though
\* start(), stop(), beacons and the cleaning of the table come in any order.
StatesAgree == LifeAgrees /\ ViewAgrees

\* A server which sends its beacons is not reported as lost while they arrive,
\* whichever timer cleans the table and whenever (client.cpp:1295): when it is, the
\* beacons lost since one was received, and the next one, account for all of the
\* time.  The limit being two intervals, none is reported while all its beacons
\* arrive; but one beacon lost is enough when the next one is late.
NoFalseTimeout ==
    [][\A p \in Procs : track[p].known /\ ~track'[p].known /\ p \in steady
            => (missed[p] + 1) * (LongInterval + Delay) > MaxAge]_vars

\* A server which runs for good gets known, with its GUID, if there is room in
\* the table; one which stopped for good is forgotten; and run() returns after
\* interrupt(), one which comes before run() waits included (server.cpp:211).
Room == Cardinality(sc.procs) <= TrackLimit
Settles ==
    \A p \in Procs :
        /\ \A g \in 1..2 :
             <>[](srv[p].armed /\ srv[p].guid = g /\ "clean" \in sc.calls /\ Room)
                 => <>[](track[p].known /\ track[p].guid = g)
        /\ <>[](~srv[p].armed /\ "clean" \in sc.calls) => <>[](~track[p].known)
        /\ (thr[p][Main].run /\ srv[p].done) ~> ~thr[p][Main].run
=============================================================================
