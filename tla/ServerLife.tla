----------------------------- MODULE ServerLife -----------------------------
(***************************************************************************)
(* Life cycle of a server, Server::Pvt (server.cpp).  start(), stop() and  *)
(* run() are called by any thread.  Each is a sequence of calls made on    *)
(* the acceptor loop and, for each listener, on the UDP loop, between      *)
(* which the other threads run.                                            *)
(***************************************************************************)
EXTENDS Integers, FiniteSets

CONSTANTS
    Procs,          \* processes, each with one server
    Threads,        \* threads of the user in each
    Listeners,      \* destinations for which each listens on UDP
    MaxConn,        \* bound: TCP connections at a time
    ChangeMod,      \* beaconChange counts modulo this, 2^16 in the code
    Burst           \* beacons sent at the short interval, 10 in the code

ASSUME LifeAssumption ==
    {MaxConn, Burst} \subseteq Nat /\ ChangeMod \in Nat \ {0} /\ DOMAIN Listeners = Procs

VARIABLES
    srv,            \* state of each server
    thr             \* where each thread is in start(), stop() or run()

lvars == <<srv, thr>>

\* Server::Pvt::Pvt().  Listeners exist and are not active.
NewServer(g) ==
    [st |-> "Stopped", tcp |-> FALSE, udp |-> {}, armed |-> FALSE, conns |-> 0,
     change |-> 0, count |-> 0, done |-> FALSE, tcpSeen |-> FALSE, guid |-> g]

Idle == [pc |-> "idle", run |-> FALSE]

InitLife ==
    /\ srv = [p \in Procs |-> NewServer(1)]
    /\ thr = [p \in Procs |-> [t \in Threads |-> Idle]]

At(p, t, pc) == thr[p][t].pc = pc
Goto(p, t, pc) == thr' = [thr EXCEPT ![p][t].pc = pc]
\* the end of start(): run() goes on to wait
EndStart(p, t) == Goto(p, t, IF thr[p][t].run THEN "wait" ELSE "idle")

\* Pvt::start(): the first call on the acceptor loop
MayStart(s) == s.st = "Stopped"
BeginStart(p, t) ==
    IF MayStart(srv[p])
    THEN srv' = [srv EXCEPT ![p].st = "Starting", ![p].tcp = TRUE] /\ Goto(p, t, "starting")
    ELSE UNCHANGED srv /\ EndStart(p, t)

Start(p, t) ==
    /\ At(p, t, "begin")
    /\ BeginStart(p, t)

\* a thread calls start() or run()
CallStart(p, t) == At(p, t, "idle") /\ Goto(p, t, "begin") /\ UNCHANGED srv
CallRun(p, t) ==
    /\ At(p, t, "idle")
    /\ thr' = [thr EXCEPT ![p][t] = [pc |-> "begin", run |-> TRUE]]
    /\ UNCHANGED srv

\* UDPListener::start() of one listener
StartListener(p, t) ==
    /\ At(p, t, "starting")
    /\ \E l \in Listeners[p] \ srv[p].udp : srv' = [srv EXCEPT ![p].udp = @ \cup {l}]
    /\ UNCHANGED thr

\* Mutant: forgets an interrupt() which came early.
FinishStartClears(p, t) ==
    /\ At(p, t, "starting") /\ srv[p].udp = Listeners[p]
    /\ srv' = [srv EXCEPT ![p].armed = TRUE, ![p].st = "Running", ![p].done = FALSE]
    /\ EndStart(p, t)
\* the last call: beacons
FinishStart(p, t) ==
    /\ At(p, t, "starting") /\ srv[p].udp = Listeners[p]
    /\ srv' = [srv EXCEPT ![p].armed = TRUE, ![p].st = "Running"]
    /\ EndStart(p, t)

\* run() waits for interrupt() or SIGINT, then calls stop().
Interrupt(p) == srv' = [srv EXCEPT ![p].done = TRUE] /\ UNCHANGED thr
Wake(p, t) ==
    /\ At(p, t, "wait") /\ srv[p].done
    /\ srv' = [srv EXCEPT ![p].done = FALSE]
    /\ thr' = [thr EXCEPT ![p][t] = [pc |-> "stop", run |-> FALSE]]

CallStop(p, t) == At(p, t, "idle") /\ Goto(p, t, "stop") /\ UNCHANGED srv

\* Pvt::stop(): the first call
Stop(p, t) ==
    /\ At(p, t, "stop")
    /\ IF srv[p].st = "Running"
       THEN /\ srv' = [srv EXCEPT ![p].st = "Stopping", ![p].armed = FALSE]
            /\ Goto(p, t, "stopping")
       ELSE UNCHANGED srv /\ Goto(p, t, "idle")

StopListener(p, t) ==
    /\ At(p, t, "stopping")
    /\ \E l \in srv[p].udp : srv' = [srv EXCEPT ![p].udp = @ \ {l}]
    /\ UNCHANGED thr

\* Mutant: connections made since stay.
EndConns(s) == s.conns
NoConns(s) == 0
FinishStop(p, t) ==
    /\ At(p, t, "stopping") /\ srv[p].udp = {}
    /\ srv' = [srv EXCEPT ![p].tcp = FALSE, ![p].conns = NoConns(srv[p]), ![p].st = "Stopped"]
    /\ Goto(p, t, "sync")

\* acceptor_loop.sync()
SyncStop(p, t) == At(p, t, "sync") /\ Goto(p, t, "idle") /\ UNCHANGED srv

\* addSource(), removeSource(), addPV() and removePV() count changes.
ChangeSources(p) ==
    /\ srv' = [srv EXCEPT ![p].change = (@ + 1) % ChangeMod]
    /\ UNCHANGED thr

\* ServIface::onConnS() and the end of a connection
AcceptConn(p) ==
    /\ srv[p].tcp /\ srv[p].conns < MaxConn
    /\ srv' = [srv EXCEPT ![p].conns = @ + 1] /\ UNCHANGED thr
EndConn(p) ==
    /\ srv[p].conns > 0
    /\ srv' = [srv EXCEPT ![p].conns = @ - 1] /\ UNCHANGED thr

\* Pvt::doBeacons(): the state after one beacon; the timer is armed again
Beaconed(s) == [s EXCEPT !.count = IF @ < Burst THEN @ + 1 ELSE @]

\* Pvt::onSearch(): is there a reply?  "pvlist" breaks unless mustReply is honored.
Replies(claimed, mustReply) == claimed # {} \/ mustReply

LifeStep(p, t) ==
    \/ Start(p, t) \/ StartListener(p, t) \/ FinishStart(p, t) \/ Wake(p, t)
    \/ Stop(p, t) \/ StopListener(p, t) \/ FinishStop(p, t) \/ SyncStop(p, t)
=============================================================================
