--------------------------- MODULE ClientChannel ---------------------------
(***************************************************************************)
(* The client's context: Channel, Connection and ContextImpl (client.cpp,  *)
(* clientconn.cpp), with info() and connect() as operations                *)
(* (clientintrospect.cpp).                                                 *)
(*                                                                         *)
(* All of it runs on the context's tcp_loop, one handler at a time.  The   *)
(* state is one record "cl"; a piece of sequential code is an operator     *)
(* from such a record to the next one.  Objects are numbered: Channels in  *)
(* the order they are made, Connections by a number free at the time.  A   *)
(* map from CID to Channel is the set of its Channels, one for each CID.   *)
(* Settle() destroys what is no longer referenced, as the end of a handler *)
(* does.                                                                   *)
(***************************************************************************)
EXTENDS Integers, FiniteSets, SequencesExt

CONSTANTS
    Names,          \* PV names
    Servers,        \* addresses of servers
    Ops,            \* operations of the user
    Connectors,     \* those made by connect(), the others by info()
    OpName,         \* the PV name of each
    Forced,         \* the server() given with a name, or NoServer
    NoServer,
    NameServer,     \* server asked by TCP, or NoServer
    Chans,          \* bound: Channels made, 1..n
    Conns,          \* bound: Connections at a time, 1..n
    NBuckets,       \* nBuckets
    Holdoff,        \* buckets to wait after a failed connect, 10 in the code
    Crowd,          \* imbalance of buckets which is evened out, 100 in the code
    NsTxLimit       \* TX buffer above which a name server is not asked

ASSUME NamesAssumption ==
    /\ Connectors \subseteq Ops
    /\ OpName \in [Ops -> Names]
    /\ Forced \in [Names -> Servers \cup {NoServer}]
    /\ NoServer \notin Servers /\ NameServer \in Servers \cup {NoServer}
ASSUME SizesAssumption ==
    /\ {NBuckets, Holdoff, Crowd, NsTxLimit} \subseteq Nat /\ NBuckets > 0
    /\ Chans \subseteq Nat \ {0} /\ Conns \subseteq Nat \ {0}

VARIABLE cl

Buckets == 0..(NBuckets - 1)

\* twin: it shares or shared its CID with another Channel; reused: its CID has been
\* another's before.  Both only say what happened.
NoChan == [name |-> NoServer, cid |-> 0, st |-> "None", conn |-> 0, sid |-> 0, nSearch |-> 0,
           garbage |-> FALSE, pending |-> <<>>, twin |-> FALSE, reused |-> FALSE]
NoConn == [addr |-> NoServer, st |-> "None", bev |-> FALSE, ready |-> FALSE,
           pending |-> {}, creating |-> {}, active |-> {}, ops |-> <<>>,
           nextIOID |-> 1, tx |-> <<>>]
NoOp == [st |-> "None", chan |-> 0, ioid |-> 0, up |-> FALSE]

\* ContextImpl::ContextImpl()
InitContext ==
    cl = [run |-> TRUE, nextCID |-> 1, made |-> 0,
          ch |-> [c \in Chans |-> NoChan], co |-> [k \in Conns |-> NoConn],
          op |-> [o \in Ops |-> NoOp],
          byName |-> [n \in Names |-> 0], byCID |-> {},
          byAddr |-> [a \in Servers |-> 0], ns |-> 0,
          ring |-> [b \in Buckets |-> <<>>], cur |-> 0,
          initial |-> <<>>, scheduled |-> FALSE, nPoked |-> 0,
          asked |-> {}]
-----------------------------------------------------------------------------
(* Connections                                                             *)

\* Entries of a map by CID: those with the CID of c, erase() of it, and assignment
SameCID(s, S, c) == {x \in S : s.ch[x].cid = s.ch[c].cid}
Erased(s, S, c) == S \ SameCID(s, S, c)
Assigned(s, S, c) == Erased(s, S, c) \cup {c}
WithCID(s, S, cid) == {x \in S : s.ch[x].cid = cid}

MinOf(S) == CHOOSE x \in S : \A y \in S : x <= y
Ordered(S) == SetToSortSeq(S, LAMBDA x, y : x < y)

FreeConns(s) == {k \in Conns : s.co[k].st = "None"}

\* Connection::build(): the one listed for the address, or a new one
ConnFor(s, a) == IF s.byAddr[a] # 0 THEN s.byAddr[a] ELSE MinOf(FreeConns(s))

\* Connection::Connection(): waits if the last one failed
ConnBuilt(s, a, reconn) ==
    IF s.byAddr[a] # 0 THEN s
    ELSE LET k == ConnFor(s, a)
         IN  [s EXCEPT !.byAddr[a] = k,
                       !.co[k] = [NoConn EXCEPT !.addr = a, !.bev = ~reconn,
                                  !.st = IF reconn THEN "Holdoff" ELSE "Connecting"]]

SendOn(s, k, m) == [s EXCEPT !.co[k].tx = Append(@, m)]

\* Connection::createChannels()
CreateOne(k, s, c) ==
    IF s.ch[c].st # "Connecting" THEN s
    ELSE [s EXCEPT !.co[k].tx = Append(@, [cmd |-> "CREATE", cid |-> s.ch[c].cid, name |-> s.ch[c].name]),
                   !.co[k].creating = Assigned(s, @, c),
                   !.ch[c].st = "Creating"]
\* Mutant: the Channels stay in the list.
CreateChannelsKeep(s, k) ==
    IF ~s.co[k].ready THEN s
    ELSE FoldLeft(LAMBDA t, c : CreateOne(k, t, c), s, Ordered(s.co[k].pending))
CreateChannels(s, k) ==
    IF ~s.co[k].ready THEN s
    ELSE FoldLeft(LAMBDA t, c : CreateOne(k, t, c), [s EXCEPT !.co[k].pending = {}],
                  Ordered(s.co[k].pending))

\* A Channel waits for the Connection to an address.
ConnectChannel(s, c, a, reconn) ==
    LET k == ConnFor(s, a)
        t == [ConnBuilt(s, a, reconn) EXCEPT
                 !.ch[c].conn = k, !.ch[c].st = "Connecting",
                 !.co[k].pending = Assigned(s, @, c)]
    IN  CreateChannels(t, k)
-----------------------------------------------------------------------------
(* Channels and their operations                                           *)

\* InfoOp::createOp()
CreateOp(s, c, o) ==
    IF s.op[o].st # "Connecting" THEN s
    ELSE SendOn([s EXCEPT !.op[o].st = "Waiting"], s.ch[c].conn,
                [cmd |-> "GET_FIELD", sid |-> s.ch[c].sid, ioid |-> s.op[o].ioid])

\* One turn of the loop in createOperations()
StartOne(c, s, o) ==
    LET k == s.ch[c].conn
        i == s.co[k].nextIOID
    IN  IF s.op[o].st = "Gone" THEN s
        ELSE CreateOp([s EXCEPT !.co[k].nextIOID = i + 1,
                                !.co[k].ops = Append(@, [ioid |-> i, op |-> o]),
                                !.op[o].ioid = i], c, o)

\* Channel::createOperations()
CreateOperations(s, c) ==
    IF s.ch[c].st # "Active" THEN s
    ELSE FoldLeft(LAMBDA t, o : StartOne(c, t, o), [s EXCEPT !.ch[c].pending = <<>>], s.ch[c].pending)

\* InfoOp::disconnected().  Mutant: does not wait for the next connection.
OpDisconnectedForgets(s, o) ==
    IF s.op[o].st = "Waiting" THEN [s EXCEPT !.op[o].st = "Connecting"] ELSE s
OpDisconnected(s, o) ==
    IF s.op[o].st = "Waiting"
    THEN [s EXCEPT !.op[o].st = "Connecting",
                   !.ch[s.op[o].chan].pending = Append(@, o)]
    ELSE s

\* The operations registered for a Channel, in the order of their IOID
OpsOf(s, c) ==
    LET k == s.ch[c].conn
    IN  IF k = 0 THEN <<>> ELSE SelectSeq(s.co[k].ops, LAMBDA r : s.op[r.op].chan = c)

\* ConnectImpl::_connected of those interested, with onConn() and onDis()
TellConnectors(s, c, up) ==
    [s EXCEPT !.op = [o \in Ops |->
        IF o \in Connectors /\ s.op[o].chan = c THEN [s.op[o] EXCEPT !.up = up]
        ELSE s.op[o]]]

\* Channel::disconnect(): out of the map of the Connection, by CID, whichever
\* Channel is found there
Detach(s, c) ==
    LET k == s.ch[c].conn
    IN  CASE s.ch[c].st = "Connecting" -> [s EXCEPT !.co[k].pending = Erased(s, @, c)]
          [] s.ch[c].st = "Creating" -> [s EXCEPT !.co[k].creating = Erased(s, @, c)]
          [] s.ch[c].st = "Active" -> [s EXCEPT !.co[k].active = {e \in @ : e.sid # s.ch[c].sid}]
          [] OTHER -> s

\* Mutant: the server is not told.
ForgetQuietly(s, c) == s
\* ... DESTROY_CHANNEL, if the Connection is alive
Forget(s, c) ==
    LET k == s.ch[c].conn
    IN  IF s.ch[c].st \in {"Creating", "Active"} /\ k # 0 /\ s.co[k].bev
        THEN SendOn(s, k, [cmd |-> "DESTROY", sid |-> s.ch[c].sid, cid |-> s.ch[c].cid])
        ELSE s

\* ... operations go back to pending
DropOps(s, c) ==
    LET k == s.ch[c].conn
        ops == OpsOf(s, c)
        t == [s EXCEPT !.co = IF k = 0 THEN @ ELSE
                 [@ EXCEPT ![k].ops = SelectSeq(@, LAMBDA r : s.op[r.op].chan # c)]]
    IN  FoldLeft(OpDisconnected, [t EXCEPT !.ch[c].conn = 0],
                 [i \in DOMAIN ops |-> ops[i].op])

\* Mutant: a Channel which was about to connect is not searched for again.
ResumeActive(s, c, was) ==
    IF Forced[s.ch[c].name] = NoServer
    THEN IF was = "Connecting" THEN s
         ELSE [s EXCEPT !.ring[s.cur] = Append(@, c)]
    ELSE IF s.run THEN ConnectChannel(s, c, Forced[s.ch[c].name], TRUE)
    ELSE s
\* ... and starts over: search, or reconnect to the server() it is bound to
Resume(s, c, was) ==
    IF Forced[s.ch[c].name] = NoServer
    THEN [s EXCEPT !.ring[(s.cur + IF was = "Connecting" THEN Holdoff ELSE 0) % NBuckets]
                        = Append(@, c)]
    ELSE IF s.run THEN ConnectChannel(s, c, Forced[s.ch[c].name], TRUE)
    ELSE s

\* Channel::disconnect(); self is FALSE in ~Channel()
Disconnect(s, c, self) ==
    LET was == s.ch[c].st
        t == [Forget(Detach(s, c), c) EXCEPT !.ch[c].st = "Searching", !.ch[c].sid = 0]
        u == DropOps(TellConnectors(t, c, FALSE), c)
    IN  IF self THEN Resume(u, c, was) ELSE u

DisconnectSelf(s, c) == Disconnect(s, c, TRUE)

\* Connection::cleanup()
CleanupConn(s, k) ==
    LET todo == s.co[k].pending \cup s.co[k].creating \cup {e.chan : e \in s.co[k].active}
        t == [s EXCEPT !.byAddr[s.co[k].addr] = 0,
                       !.co[k].ready = FALSE, !.co[k].bev = FALSE, !.co[k].tx = <<>>]
        u == FoldLeft(DisconnectSelf, t, Ordered(todo))
    IN  [u EXCEPT !.co[k].pending = {}, !.co[k].active = {}]
-----------------------------------------------------------------------------
(* Lifetime                                                                *)

ChanHeld(s, c) ==
    \/ s.byName[s.ch[c].name] = c
    \/ \E o \in Ops : s.op[o].chan = c

ConnHeld(s, k) == s.ns = k \/ \E c \in Chans : s.ch[c].conn = k

\* ~Channel()
DestroyChan(s, c) == [Disconnect(s, c, FALSE) EXCEPT !.ch[c] = NoChan]

\* ~Connection(), which calls cleanup(): the entry of its address goes, even if
\* that is another Connection's by now.
DestroyConn(s, k) == [CleanupConn(s, k) EXCEPT !.co[k] = NoConn]

SettleConns(s) ==
    FoldLeft(DestroyConn, s,
             Ordered({k \in Conns : s.co[k].st # "None" /\ ~ConnHeld(s, k)}))
Settle(s) ==
    SettleConns(FoldLeft(DestroyChan, s,
                    Ordered({c \in Chans : s.ch[c].st # "None" /\ ~ChanHeld(s, c)})))
-----------------------------------------------------------------------------
(* Search                                                                  *)

\* Where a Channel is searched for next: later each time, unless poked.
NextBucket(s, c, idx, backoff) ==
    LET n == (idx + (IF backoff THEN s.ch[c].nSearch ELSE 0)) % NBuckets
        nn == (n + 1) % NBuckets
    IN  IF Len(s.ring[n]) > Len(s.ring[nn]) + Crowd THEN nn ELSE n

\* What a search asks for
Question(s, c) == [cid |-> s.ch[c].cid, name |-> s.ch[c].name]

\* One entry of the bucket being searched
Ask(idx, backoff, s, c) ==
    IF s.ch[c].st # "Searching" THEN s
    ELSE LET t == IF backoff
                  THEN [s EXCEPT !.ch[c].nSearch = IF @ < NBuckets THEN @ + 1 ELSE NBuckets]
                  ELSE s
         IN  [t EXCEPT !.ring[NextBucket(t, c, idx, backoff)] = Append(@, c),
                       !.asked = @ \cup {Question(s, c)}]

\* The datagrams of a tick go to each connected name server too.
AskNameServer(s, asks) ==
    IF /\ asks # {} /\ s.ns # 0
       /\ s.co[s.ns].ready /\ s.co[s.ns].bev /\ Len(s.co[s.ns].tx) <= NsTxLimit
    THEN SendOn(s, s.ns, [cmd |-> "SEARCH", asks |-> asks])
    ELSE s

\* ContextImpl::tickSearch(), of the ring or of the new Channels
Searching(s, q) == {Question(s, c) : c \in {x \in ToSet(q) : s.ch[x].st = "Searching"}}
TickCheck(s, poked) ==
    LET t == [s EXCEPT !.cur = (@ + 1) % NBuckets, !.ring[s.cur] = <<>>]
    IN  AskNameServer(FoldLeft(LAMBDA u, c : Ask(s.cur, ~poked, u, c), t, s.ring[s.cur]),
                      Searching(s, s.ring[s.cur]))
TickInitial(s) ==
    LET t == [s EXCEPT !.initial = <<>>, !.scheduled = FALSE]
    IN  AskNameServer(FoldLeft(LAMBDA u, c : Ask(s.cur, FALSE, u, c), t, s.initial),
                      Searching(s, s.initial))

\* procSearchReply() for one of the names found: the Channel which has the CID now
SearchingFor(s, cid) == {c \in WithCID(s, s.byCID, cid) : s.ch[c].st = "Searching"}
Found(s, cid, a) ==
    IF SearchingFor(s, cid) = {} THEN s
    ELSE LET c == CHOOSE x \in SearchingFor(s, cid) : TRUE
         IN  Settle([ConnectChannel(s, c, a, FALSE) EXCEPT !.ch[c].nSearch = 0])

Poked(s) == IF s.nPoked = 0 THEN [s EXCEPT !.nPoked = NBuckets] ELSE s
-----------------------------------------------------------------------------
(* Cache of Channels                                                       *)

\* Only CIDs in chanByCID are skipped: one which was erased there is used again.
FreeCID(s) == MinOf({i \in s.nextCID..(s.nextCID + s.made) : WithCID(s, s.byCID, i) = {}})
Twins(s) == {c \in Chans : s.ch[c].st # "None" /\ s.ch[c].cid = FreeCID(s)}

\* Channel::build()
ChanBuilt(s, n) ==
    IF s.byName[n] # 0 THEN [s EXCEPT !.ch[s.byName[n]].garbage = FALSE]
    ELSE LET c == s.made + 1
             i == FreeCID(s)
             t == [s EXCEPT !.nextCID = i, !.made = c, !.byName[n] = c, !.byCID = @ \cup {c},
                            !.ch = [x \in Chans |->
                               IF x = c THEN [NoChan EXCEPT !.name = n, !.cid = i, !.st = "Searching",
                                                 !.twin = Twins(s) # {}, !.reused = i = s.nextCID /\ s.made > 0]
                               ELSE [@[x] EXCEPT !.twin = @ \/ x \in Twins(s)]]]
         IN  IF Forced[n] = NoServer
             THEN [t EXCEPT !.initial = Append(@, c), !.scheduled = TRUE]
             ELSE ConnectChannel(t, c, Forced[n], FALSE)

\* use_count() is one: nothing but the cache refers to it.
Unused(s, c) == \A o \in Ops : s.op[o].chan # c

Sweep(s, c, action) ==
    LET t == [s EXCEPT !.byName[s.ch[c].name] = 0, !.byCID = @ \ {c}]
    IN  Settle(IF action = "Disconnect" THEN Disconnect(t, c, TRUE) ELSE t)

\* ContextImpl::cacheClean(), for one entry: marked the first time, swept the next
CleanOne(action, s, c) ==
    IF action = "Clean" /\ ~Unused(s, c) THEN s
    ELSE IF action = "Clean" /\ ~s.ch[c].garbage THEN [s EXCEPT !.ch[c].garbage = TRUE]
    ELSE Sweep(s, c, action)
CacheClean(s, names, action) ==
    FoldLeft(LAMBDA t, c : CleanOne(action, t, c), s, Ordered({s.byName[n] : n \in names} \ {0}))
-----------------------------------------------------------------------------
(* Steps of the context on its own, and of its user                        *)

\* GetBuilder::_exec_info() and ConnectBuilder::exec(), the part on the worker
Exec(o) ==
    /\ cl.op[o].st = "None" /\ cl.run
    /\ cl.byName[OpName[o]] # 0 \/ cl.made + 1 \in Chans
    /\ LET s == ChanBuilt(cl, OpName[o])
           c == s.byName[OpName[o]]
       IN  cl' = IF o \in Connectors
                 THEN [s EXCEPT !.op[o] = [st |-> "Done", chan |-> c, ioid |-> 0,
                                           up |-> s.ch[c].st = "Active"]]
                 ELSE CreateOperations(
                        [s EXCEPT !.op[o].st = "Connecting", !.op[o].chan = c,
                                  !.ch[c].pending = Append(@, o)], c)

\* After close() there are no more Channels.
ExecClosed(o) ==
    /\ cl.op[o].st = "None" /\ ~cl.run /\ o \notin Connectors
    /\ cl' = [cl EXCEPT !.op[o].st = "Done"]

\* InfoOp::_cancel()
Cancelled(s, o) ==
    LET k == s.ch[s.op[o].chan].conn
        t == SendOn(s, k, [cmd |-> "DESTROY_REQUEST", sid |-> s.ch[s.op[o].chan].sid,
                           ioid |-> s.op[o].ioid])
        u == [t EXCEPT !.co[k].ops = SelectSeq(@, LAMBDA r : r.op # o)]
    IN  [(IF s.op[o].st = "Waiting" THEN u ELSE s) EXCEPT !.op[o].st = "Done"]

Cancel(o) ==
    /\ o \notin Connectors
    /\ cl.op[o].st \in {"Connecting", "Waiting"}
    /\ cl' = Cancelled(cl, o)

\* The user's handle goes, and with it the operation, perhaps the Channel and
\* the Connection.
Release(o) ==
    /\ cl.op[o].st \notin {"None", "Gone"}
    /\ LET s == IF o \in Connectors \/ cl.op[o].chan = 0 THEN cl ELSE Cancelled(cl, o)
           c == cl.op[o].chan
           t == [s EXCEPT !.op[o] = [NoOp EXCEPT !.st = "Gone"],
                          !.ch = IF c = 0 THEN @ ELSE
                             [@ EXCEPT ![c].pending = SelectSeq(@, LAMBDA p : p # o)],
                          !.co = [k \in Conns |-> [@[k] EXCEPT !.ops =
                             SelectSeq(@, LAMBDA r : r.op # o)]]]
       IN  cl' = Settle(t)

TickSearch ==
    /\ cl.run
    /\ cl' = [TickCheck(cl, cl.nPoked > 0) EXCEPT
                 !.nPoked = IF @ > 0 THEN @ - 1 ELSE 0]

InitialSearch == cl.scheduled /\ cl' = TickInitial(cl)

\* hurryUp(), or a beacon of a new server
Poke == cl.run /\ cl.nPoked = 0 /\ cl' = Poked(cl)

CacheTick == cl.run /\ cl' = CacheClean(cl, Names, "Clean")

\* cacheClear() runs twice, to mark and to sweep.
CacheClear(names, action) ==
    /\ cl.run
    /\ cl' = CacheClean(CacheClean(cl, names, action), names, action)

\* ContextImpl::close(): all Connections which are listed
CloseConns(s) ==
    FoldLeft(LAMBDA t, k : CleanupConn(t, k),
             [s EXCEPT !.byAddr = [a \in Servers |-> 0]],
             Ordered({s.byAddr[a] : a \in Servers} \ {0}))
Close ==
    /\ cl.run
    /\ cl' = Settle([CloseConns([cl EXCEPT !.run = FALSE,
                                           !.byName = [n \in Names |-> 0]])
                        EXCEPT !.ns = 0])

\* ContextImpl::startNS() and onNSCheck()
NSCheck ==
    /\ cl.run /\ NameServer # NoServer
    /\ cl.ns # 0 => cl.co[cl.ns].st \in {"Failed", "Disconnected"}
    /\ cl.byAddr[NameServer] # 0 \/ FreeConns(cl) # {}
    /\ cl' = Settle([ConnBuilt(cl, NameServer, FALSE) EXCEPT
                        !.ns = ConnFor(cl, NameServer)])
-----------------------------------------------------------------------------
(* Handlers of a Connection                                                *)

Live(k) == cl.co[k].st # "None"

\* Connection::bevEvent(): connected.  The server begins validation.
Connected(k) ==
    /\ cl.co[k].st = "Connecting" /\ cl.co[k].bev
    /\ cl' = [cl EXCEPT !.co[k].st = "Connected"]

\* ConnBase::bevEvent(): error, timeout or end of file
ConnLost(k) ==
    /\ cl.co[k].st \in {"Connecting", "Connected"} /\ cl.co[k].bev
    /\ cl' = Settle(CleanupConn([cl EXCEPT !.co[k].st = "Disconnected",
                                           !.co[k].bev = FALSE], k))

\* startConnecting(): connect() fails at once, which is dealt with by the timer
ConnectFails(k) ==
    /\ cl.co[k].st = "Connecting" /\ cl.co[k].bev
    /\ cl' = [cl EXCEPT !.co[k].st = "Failed", !.co[k].bev = FALSE]

\* Connection::tickEcho(): the end of the hold off, ...
HoldoffEnds(k) ==
    /\ cl.co[k].st = "Holdoff"
    /\ cl' = [cl EXCEPT !.co[k].st = "Connecting", !.co[k].bev = TRUE]

\* ... or the delayed notice of a connect() which has failed.
FailureNoticed(k) ==
    /\ cl.co[k].st = "Failed"
    /\ cl' = Settle(CleanupConn([cl EXCEPT !.co[k].st = "Disconnected"], k))

HandleValidation(k) ==
    cl' = SendOn(cl, k, [cmd |-> "VALIDATION"])

\* Mutant: Channels found before the Connection was ready are not created.
HandleValidatedIdle(k) ==
    LET s == [cl EXCEPT !.co[k].ready = TRUE]
    IN  cl' = IF cl.ns = k THEN Poked(s) ELSE s
HandleValidated(k) ==
    LET s == CreateChannels([cl EXCEPT !.co[k].ready = TRUE], k)
    IN  cl' = IF cl.ns = k THEN Poked(s) ELSE s

\* Refused: later, in the bucket which was searched last.  A Channel with
\* server() stays as it is.
Refused(s, c) ==
    IF Forced[s.ch[c].name] # NoServer THEN s
    ELSE [s EXCEPT !.ch[c].st = "Searching",
                   !.ring[(s.cur + NBuckets - 1) % NBuckets] = Append(@, c)]

\* Connection::handle_CREATE_CHANNEL(), for a Channel which is being created
CreatedOne(k, c, m) ==
    LET s == [cl EXCEPT !.co[k].creating = @ \ {c}]
        t == [s EXCEPT !.ch[c].st = "Active", !.ch[c].sid = m.sid,
                       !.co[k].active = @ \cup {[sid |-> m.sid, chan |-> c]}]
    IN  cl' = IF ~m.ok THEN Refused(s, c)
              ELSE TellConnectors(CreateOperations(t, c), c, TRUE)

\* ... for one which is not
CreatedNone(k, m) ==
    cl' = IF m.ok THEN SendOn(cl, k, [cmd |-> "DESTROY", sid |-> m.sid, cid |-> m.cid]) ELSE cl

HandleCreated(k, m) ==
    LET found == WithCID(cl, cl.co[k].creating, m.cid)
    IN  \/ found = {} /\ CreatedNone(k, m)
        \/ \E c \in found : CreatedOne(k, c, m)

\* Connection::handle_DESTROY_CHANNEL()
HandleDestroyed(k, m) ==
    LET e == {x \in cl.co[k].active : x.sid = m.sid}
    IN  cl' = IF e = {} THEN cl
              ELSE LET c == (CHOOSE x \in e : TRUE).chan
                   IN  Settle(Disconnect([cl EXCEPT !.co[k].active = @ \ e], c, TRUE))

\* Connection::handle_GET_FIELD().  A reply to an unknown IOID is ignored.
HandleGetField(k, m) ==
    LET r == SelectSeq(cl.co[k].ops, LAMBDA x : x.ioid = m.ioid)
        s == [cl EXCEPT !.co[k].ops = SelectSeq(@, LAMBDA x : x.ioid # m.ioid)]
    IN  cl' = IF r = <<>> THEN cl
              ELSE IF cl.op[r[1].op].st # "Waiting" THEN s
              ELSE [s EXCEPT !.op[r[1].op].st = "Done"]

\* Connection::handle_SEARCH_RESPONSE().  Connection::build() throws after
\* close(), which ends this Connection.
HandleSearchResponse(k, m) ==
    cl' = IF ~cl.run /\ \E cid \in m.cids : SearchingFor(cl, cid) # {}
          THEN Settle(CleanupConn([cl EXCEPT !.co[k].bev = FALSE], k))
          ELSE FoldLeft(LAMBDA s, cid : Found(s, cid, cl.co[k].addr), cl, Ordered(m.cids))
=============================================================================
