--------------------------- MODULE ChannelSystem ---------------------------
(***************************************************************************)
(* A client context and the servers it finds, connected by UDP for search  *)
(* and by TCP for all else.                                                *)
(***************************************************************************)
EXTENDS ClientChannel

CONSTANTS
    Hosts,          \* the servers which have a name
    TxLimit,        \* messages a server has queued when it stops to read
    Scenarios       \* what may happen in a behaviour:
                    \*   ops: operations of the user; clear: actions of cacheClear();
                    \*   may: "Refuse" a Channel which was claimed, "Close" the context,
                    \*   "Poke" by hurryUp(), "NS" a name server is configured,
                    \*   "Lose" datagrams;
                    \*   faults: bound of lost connections, closed and refused Channels

Features == {"Refuse", "Close", "Poke", "NS", "Lose"}
ASSUME HostsAssumption ==
    /\ Hosts \in [Names -> SUBSET Servers]
    /\ \A x \in Scenarios : /\ x.ops \subseteq Ops /\ x.may \subseteq Features
                           /\ x.clear \subseteq {"Clean", "Drop", "Disconnect"}
                           /\ x.faults \in Nat

VARIABLES sc, sv, faults

INSTANCE ChannelServer WITH Links <- Conns

vars == <<cl, sv, faults, sc>>

Init == InitContext /\ InitServer /\ faults = 0 /\ sc \in Scenarios

\* A connection which the client has closed ends for the server too.
Peers(s) == [k \in Conns |-> IF s.co[k].bev /\ s.co[k].st = "Connected" THEN sv[k] ELSE NoPeer]

\* Steps of the client alone
ClientUser ==
    /\ \/ \E o \in sc.ops : Exec(o) \/ ExecClosed(o) \/ Cancel(o) \/ Release(o)
       \/ \E n \in Names, a \in sc.clear : CacheClear({n}, a)
       \/ "Close" \in sc.may /\ Close
       \/ "Poke" \in sc.may /\ Poke
    /\ sv' = Peers(cl') /\ UNCHANGED faults

ClientTick ==
    /\ \/ InitialSearch \/ TickSearch
       \/ "NS" \in sc.may /\ NSCheck
       \/ "Clean" \in sc.clear /\ CacheTick
       \/ \E k \in Conns : HoldoffEnds(k) \/ FailureNoticed(k)
    /\ sv' = Peers(cl') /\ UNCHANGED faults

\* A reply to an UDP search: delayed or repeated at will, even if its CID is another
\* Channel's by then.
SearchReply(q, a) ==
    /\ cl.run /\ q \in cl.asked
    /\ a \in Hosts[q.name]
    /\ cl.byAddr[a] # 0 \/ FreeConns(cl) # {}
    /\ cl' = Found(cl, q.cid, a)
    /\ sv' = Peers(cl') /\ UNCHANGED faults

\* Lost, like the request.
SearchLost(q) ==
    /\ "Lose" \in sc.may
    /\ cl' = [cl EXCEPT !.asked = @ \ {q}]
    /\ UNCHANGED <<sv, faults>>

Accept(k) ==
    /\ Connected(k)
    /\ sv' = [sv EXCEPT ![k] = NewPeer]
    /\ UNCHANGED faults

ClientRecv(k) ==
    /\ cl.co[k].bev /\ sv[k].tx # <<>>
    /\ LET m == Head(sv[k].tx)
       IN  /\ \/ m.cmd = "VALIDATION" /\ HandleValidation(k)
              \/ m.cmd = "VALIDATED" /\ HandleValidated(k)
              \/ m.cmd = "CREATED" /\ HandleCreated(k, m)
              \/ m.cmd = "DESTROYED" /\ HandleDestroyed(k, m)
              \/ m.cmd = "GET_FIELD" /\ HandleGetField(k, m)
              \/ m.cmd = "SEARCH_RESPONSE" /\ HandleSearchResponse(k, m)
           /\ sv' = [Peers(cl') EXCEPT ![k] = IF @ = NoPeer THEN @ ELSE [@ EXCEPT !.tx = Tail(@)]]
    /\ UNCHANGED faults

ServerRecv(k) ==
    /\ cl.co[k].bev /\ cl.co[k].tx # <<>> /\ Len(sv[k].tx) <= TxLimit
    /\ cl' = [cl EXCEPT !.co[k].tx = Tail(@)]
    /\ LET m == Head(cl.co[k].tx)
           hosted == {n \in Names : cl.co[k].addr \in Hosts[n]}
       IN  \/ /\ sv' = [sv EXCEPT ![k] = OnMessage(@, m, hosted)]
              /\ UNCHANGED faults
           \/ /\ m.cmd = "CREATE" /\ "Refuse" \in sc.may /\ faults < sc.faults
              /\ sv' = [sv EXCEPT ![k] = OnCreate(@, m, FALSE)] /\ faults' = faults + 1

ServerReply(k) == Reply(k) /\ UNCHANGED <<cl, faults>>

Fail ==
    /\ faults < sc.faults /\ faults' = faults + 1
    /\ \E k \in Conns :
          \/ ConnLost(k) /\ sv' = Peers(cl')
          \/ ConnectFails(k) /\ UNCHANGED sv
          \/ CloseChannel(k) /\ UNCHANGED cl

Next ==
    /\ \/ ClientUser \/ ClientTick \/ Fail
       \/ \E q \in cl.asked : SearchLost(q) \/ \E a \in Servers : SearchReply(q, a)
       \/ \E k \in Conns : Accept(k) \/ ClientRecv(k) \/ ServerRecv(k) \/ ServerReply(k)
    /\ UNCHANGED sc

Spec == Init /\ [][Next]_vars

\* The loop runs timers and reads sockets, the peer does too, a source answers
\* GET_FIELD, and not every datagram is lost.  Each conjunct is WF or SF of an
\* action with its ENABLED written out; as the search timer never stops while the
\* context runs, a step without the action enabled always comes.
TickDue ==
    \/ cl.scheduled
    \/ "NS" \in sc.may /\ (cl.ns # 0 => cl.co[cl.ns].st \in {"Failed", "Disconnected"})
    \/ \E k \in Conns : cl.co[k].st \in {"Holdoff", "Failed"}
TurnOf(k) ==
    \/ cl.co[k].st = "Connecting" /\ cl.co[k].bev
    \/ cl.co[k].bev /\ sv[k].tx # <<>>
    \/ cl.co[k].bev /\ cl.co[k].tx # <<>> /\ Len(sv[k].tx) <= TxLimit
    \/ sv[k].ops # {}
ReplyDue(c) ==
    /\ c \in cl.byCID /\ cl.ch[c].st = "Searching" /\ Question(cl, c) \in cl.asked
    /\ Hosts[cl.ch[c].name] # {}
Fairness ==
    /\ []<><<~TickDue \/ ~cl.run \/ (ClientTick /\ cl'.cur = cl.cur)>>_vars
    /\ []<><<~cl.run \/ cl'.cur # cl.cur>>_vars
    /\ \A c \in Chans : <>[]~ReplyDue(c) \/ []<><<\E a \in Servers : SearchReply(Question(cl, c), a)>>_vars
    /\ \A k \in Conns : []<><<~TurnOf(k) \/ Accept(k) \/ ClientRecv(k) \/ ServerRecv(k) \/ ServerReply(k)>>_vars

FairSpec == Spec /\ Fairness
-----------------------------------------------------------------------------
Alive == {c \in Chans : cl.ch[c].st # "None"}

\* Every piece of state has its type; Connections do not outlive their use.
ChanType == [name : Names \cup {NoServer}, cid : Nat, conn : Conns \cup {0}, sid : Nat,
             garbage : BOOLEAN, twin : BOOLEAN, reused : BOOLEAN,
             st : {"None", "Searching", "Connecting", "Creating", "Active"},
             nSearch : 0..NBuckets, pending : Seq(Ops)]
ConnType == [addr : Servers \cup {NoServer}, bev : BOOLEAN, ready : BOOLEAN,
             st : {"None", "Holdoff", "Connecting", "Connected", "Failed", "Disconnected"},
             pending : SUBSET Alive, creating : SUBSET Alive, active : {{}},
             ops : Seq([ioid : Nat, op : Ops]), nextIOID : Nat, tx : {<<>>}]
TypeOK ==
    /\ \A c \in Chans : cl.ch[c] \in ChanType
    /\ \A k \in Conns :
          /\ [cl.co[k] EXCEPT !.active = {}, !.tx = <<>>] \in ConnType
          /\ \A e \in cl.co[k].active : e.sid \in Nat \ {0} /\ e.chan \in Alive
          /\ cl.co[k].ready => cl.co[k].st = "Connected" /\ cl.co[k].bev
          /\ cl.co[k].st # "None" => ConnHeld(cl, k)
    /\ \A c \in cl.byCID : WithCID(cl, cl.byCID, cl.ch[c].cid) = {c}
    /\ cl.asked \subseteq [cid : Nat, name : Names]
    /\ \A n \in Names : cl.byName[n] # 0 => cl.ch[cl.byName[n]].name = n

\* The Channels of a client which were refused with server()
Stuck(c) == cl.ch[c].st = "Creating" /\ c \notin cl.co[cl.ch[c].conn].creating

\* Channel::state and the maps of its Connection say the same (clientimpl.h:99),
\* whatever the order of replies and loss.  With cacheClear() a Channel may get the
\* CID of one which is still in use (client.cpp:370): then neither may be in the map
\* it ought to be in, as one takes the other's place or erases it; what is in a map
\* is right all the same.
MapsAgree ==
    /\ TypeOK
    /\ \A c \in Alive : LET k == cl.ch[c].conn
                        IN  /\ cl.ch[c].st \in {"Connecting", "Creating", "Active"} => k # 0
                            /\ cl.ch[c].st = "Connecting" => c \in cl.co[k].pending \/ cl.ch[c].twin
                            /\ cl.ch[c].st = "Creating" =>
                                  c \in cl.co[k].creating \/ Forced[cl.ch[c].name] # NoServer \/ cl.ch[c].twin
                            /\ cl.ch[c].st = "Active" =>
                                  [sid |-> cl.ch[c].sid, chan |-> c] \in cl.co[k].active
    /\ \A k \in Conns :
          /\ \A c \in cl.co[k].pending : cl.ch[c].conn = k /\ cl.ch[c].st = "Connecting"
          /\ \A c \in cl.co[k].creating : cl.ch[c].conn = k /\ cl.ch[c].st = "Creating"
          /\ \A e \in cl.co[k].active : cl.ch[e.chan].conn = k /\ cl.ch[e.chan].st = "Active"

Entries == ToSet(cl.initial) \cup UNION {ToSet(cl.ring[b]) : b \in Buckets}

\* A Channel which is Searching will be searched for: it is in a bucket of the
\* ring, or in the one of new Channels whose timer runs (client.cpp:760).
SearchedFor ==
    /\ \A c \in Alive : cl.run /\ cl.ch[c].st = "Searching" => c \in Entries
    /\ cl.initial # <<>> => cl.scheduled

\* An operation is either waiting for its Channel, once, or known to the
\* Connection by the IOID it has sent, once; never both (client.cpp:120).
OpsTracked ==
    \A o \in Ops \ Connectors :
        LET c == cl.op[o].chan
            n == IF c = 0 THEN 0 ELSE Cardinality({i \in DOMAIN cl.ch[c].pending : cl.ch[c].pending[i] = o})
            r == IF c = 0 THEN {} ELSE {i \in DOMAIN OpsOf(cl, c) : OpsOf(cl, c)[i].op = o}
        IN  /\ cl.op[o].st = "Connecting" => n = 1 /\ r = {} /\ cl.ch[c].st # "Active"
            /\ cl.op[o].st = "Waiting" =>
                  /\ n = 0 /\ cl.ch[c].st = "Active"
                  /\ \E i \in r : r = {i} /\ OpsOf(cl, c)[i].ioid = cl.op[o].ioid

\* connect(): what the user was told last is whether the Channel is Active.
ConnectorsTold ==
    \A o \in Connectors : cl.op[o].chan # 0 =>
        (cl.op[o].up <=> cl.ch[cl.op[o].chan].st = "Active")

\* A Channel of a server is one the client knows by this SID, or the reply to
\* CREATE_CHANNEL or a DESTROY_CHANNEL for it is still on its way: none is
\* forgotten while the connection lasts.
NoneForgotten ==
    \A k \in Conns : \A x \in sv[k].chans :
        \/ \E e \in cl.co[k].active : e.sid = x.sid /\ cl.ch[e.chan].cid = x.cid
        \/ \E i \in DOMAIN sv[k].tx : sv[k].tx[i].cmd = "CREATED" /\ sv[k].tx[i].sid = x.sid
        \/ \E i \in DOMAIN cl.co[k].tx : cl.co[k].tx[i].cmd = "DESTROY" /\ cl.co[k].tx[i].sid = x.sid

\* A GET_FIELD the client waits for is with the server or on its way, in either
\* direction, unless the Channel was closed meanwhile.
RequestAlive ==
    \A o \in Ops : cl.op[o].st = "Waiting" =>
        LET c == cl.op[o].chan
            k == cl.ch[c].conn
        IN  \/ \E x \in sv[k].ops : x.ioid = cl.op[o].ioid
            \/ \E i \in DOMAIN cl.co[k].tx : cl.co[k].tx[i].cmd = "GET_FIELD" /\ cl.co[k].tx[i].ioid = cl.op[o].ioid
            \/ \E i \in DOMAIN sv[k].tx :
                  \/ sv[k].tx[i].cmd = "GET_FIELD" /\ sv[k].tx[i].ioid = cl.op[o].ioid
                  \/ sv[k].tx[i].cmd = "DESTROYED" /\ sv[k].tx[i].sid = cl.ch[c].sid

\* The operations of a Channel follow it through every reconnect: none is
\* created twice, dropped or left with a state the server does not know of
\* (Channel::createOperations(), Channel::disconnect()).
OpsFollow == OpsTracked /\ ConnectorsTold /\ RequestAlive

\* cacheClean() drops no Channel an operation uses, so that the next operation
\* on a name shares it (client.h:580).
Shared ==
    sc.clear \subseteq {"Clean"} /\ cl.run =>
        \A o \in Ops : cl.op[o].chan # 0 => cl.byName[OpName[o]] = cl.op[o].chan

\* close(): "terminate all active connections" (client.cpp:705), those without a
\* user too.  Only where none was replaced: ~Connection() of the old one takes the
\* new one off the list, and close() then misses it.
AllTerminated == ~cl.run /\ faults = 0 => \A k \in Conns : ~cl.co[k].bev

\* A Channel is bound to the PV of its name.  Only where its CID has been another's,
\* the reply to that one's CREATE_CHANNEL may come to it (clientconn.cpp:343).
RightPV ==
    \A k \in Conns : \A e \in cl.co[k].active, x \in sv[k].chans :
        LET c == cl.ch[e.chan]
        IN  x.sid = e.sid /\ ~c.reused /\ ~c.twin => x.name = c.name

\* What nobody refers to any more goes away, on the server too, and what is in
\* use stays, and is what it was made for (cacheClean(), close(),
\* handle_CREATE_CHANNEL() of the client).
LifetimesRight == NoneForgotten /\ Shared /\ AllTerminated /\ RightPV

\* Its Channel was dropped by cacheClear(), or has shared a CID with such a one.
Orphan(o) == cl.op[o].chan \notin cl.byCID \/ cl.ch[cl.op[o].chan].twin
\* info() gets its reply, when its server is there, through lost connections,
\* closed and refused Channels and lost datagrams; unless the user cancels,
\* closes the context or drops the Channel, or its Channel has had to share a CID
\* with one which was dropped (client.cpp:370).
InfoReplied ==
    \A o \in Ops \ Connectors : cl.op[o].st = "Connecting" ~>
        \/ cl.op[o].st \in {"Done", "Gone"} \/ ~cl.run \/ Orphan(o)
        \/ Stuck(cl.op[o].chan)
=============================================================================
