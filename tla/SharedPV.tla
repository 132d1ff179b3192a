------------------------------ MODULE SharedPV ------------------------------
(***************************************************************************)
(* A mailbox PV (sharedpv.cpp): a value, the channels attached to it, and  *)
(* the operations which wait for the value or subscribe to it.             *)
(*                                                                         *)
(* Two kinds of threads use SharedPV::Impl::lock.  The acceptor loop's     *)
(* worker executes one task at a time: it starts a task, then waits for    *)
(* the lock.  The threads of the user call open(), close() and post(); a   *)
(* "sync." with the worker, evbase::call(), is executed between two tasks. *)
(* open() is called by onFirstConnect() too, on the worker.                *)
(*                                                                         *)
(* Each channel has at most one get or put and one subscription.  A value  *)
(* is its serial number, 0 is the Value() of a closed PV.                  *)
(*                                                                         *)
(* Not modelled: callbacks of the user (onPut() besides buildMailbox()'s,  *)
(* onRPC()), and attach() from another thread than the worker.             *)
(***************************************************************************)
EXTENDS Naturals, Sequences, FiniteSets

CONSTANTS Users,        \* threads of the user
          Worker,       \* the acceptor loop's worker, where it calls open()
          Channels,
          Nobody,       \* no thread, no task
          MaxValue,     \* bound: calls of open() and post()
          MaxClose,     \* bound: calls of close()
          WorkerOpens   \* open() is called on the worker, by onFirstConnect()

Threads == Users \cup {Worker}

ASSUME NobodyAssumption ==
    /\ Worker \notin Users /\ Nobody \notin Threads /\ Nobody \notin Channels
    /\ Nobody \notin [do : {"attach", "op", "subscribe", "post", "chanClosed", "subClosed", "open"},
                      chan : Channels]
ASSUME BoundAssumption == MaxValue \in Nat /\ MaxClose \in Nat
ASSUME WorkerOpensAssumption == WorkerOpens \in BOOLEAN

VARIABLES
    lock,           \* owner of Impl::lock between steps, or Nobody
    current,        \* Impl::current
    channels,       \* Impl::channels
    pending,        \* Impl::pending: channels whose ConnectOp is there
    msubscribers,   \* Impl::msubscribers: channels whose Subscriber is there
    mcontrol,       \* Subscriber: "mpending", "mcontrol" or "neither"
    chan,           \* ServerChan: "none", "Active", "Destroy" (closed by the
                    \* server and still in chanBySID), "gone" or "lost"
    op,             \* ServerGPR: "none", "Creating", "connected" or "Dead"
    sub,            \* MonitorOp: likewise
    closers,        \* onClose() of operations, dispatched to the worker
    task,           \* what the worker does: [do, chan], or Nobody
    pc,             \* what a thread does; "caught", "resumed": open() in and
                    \* after the catch clause of connectSub()
    todo,           \* a thread: channels still to be seen to
    offered,        \* open(): the value given
    visit,          \* open(): subscribers its loop comes to
    at,             \* open() in the catch clause: the subscriber its loop is at
    serial,         \* serial number of the last value
    closes,         \* number of calls of close()
    seen,           \* history: values posted to each subscription
    slipped,        \* history: subscribers which an open() connected, or passed
                    \* over, after it had released the lock in the catch clause
    clients         \* history: onFirstConnect() less onLastDisconnect()

implvars == <<lock, current, channels, pending, msubscribers, mcontrol>>
servvars == <<chan, op, sub, closers, task>>
openvars == <<offered, visit, at>>
uservars == <<pc, todo, openvars, serial, closes>>
histvars == <<seen, slipped, clients>>
vars == <<implvars, servvars, uservars, histvars>>

Init ==
    /\ lock = Nobody /\ current = 0
    /\ channels = {} /\ pending = {} /\ msubscribers = {}
    /\ mcontrol = [c \in Channels |-> "neither"]
    /\ chan = [c \in Channels |-> "none"]
    /\ op = [c \in Channels |-> "none"] /\ sub = [c \in Channels |-> "none"]
    /\ closers = {} /\ task = Nobody
    /\ pc = [u \in Threads |-> "idle"]
    /\ todo = [u \in Threads |-> {}] /\ offered = [u \in Threads |-> 0]
    /\ visit = [u \in Threads |-> {}] /\ at = [u \in Threads |-> Nobody]
    /\ serial = 0 /\ closes = 0
    /\ seen = [c \in Channels |-> <<>>] /\ slipped = {} /\ clients = 0

Task(what, c) == [do |-> what, chan |-> c]

\* The worker's task is this one and the lock is free.
Running(what, c) == task = Task(what, c) /\ lock = Nobody

\* ConnectOp::connect(), which is dispatched, and MonitorSetupOp::connect(), of
\* operations which have not ended meanwhile
Connected(o, cs) == [c \in Channels |-> IF c \in cs /\ o[c] = "Creating" THEN "connected" ELSE o[c]]
-----------------------------------------------------------------------------
(* The worker.  Begin: what happens before the lock is waited for.         *)

Begin(t) ==
    /\ task = Nobody
    /\ task' = t
    /\ UNCHANGED <<implvars, uservars, histvars>>

\* handle_CREATE_CHANNEL() and StaticSource::onCreate()
BeginAttach(c) ==
    /\ chan[c] = "none"
    /\ Begin(Task("attach", c))
    /\ chan' = [chan EXCEPT ![c] = "Active"]
    /\ UNCHANGED <<op, sub, closers>>

\* INIT of a get, put or subscription.  A channel closed by the server is found
\* in chanBySID too.
BeginOp(c) ==
    /\ chan[c] \in {"Active", "Destroy"} /\ op[c] = "none"
    /\ Begin(Task("op", c))
    /\ op' = [op EXCEPT ![c] = "Creating"]
    /\ UNCHANGED <<chan, sub, closers>>
BeginSubscribe(c) ==
    /\ chan[c] \in {"Active", "Destroy"} /\ sub[c] = "none"
    /\ Begin(Task("subscribe", c))
    /\ sub' = [sub EXCEPT ![c] = "Creating"]
    /\ UNCHANGED <<chan, op, closers>>

\* An EXEC of a put, with the onPut() of buildMailbox()
BeginPut(c) ==
    /\ op[c] = "connected" /\ serial < MaxValue
    /\ Begin(Task("post", c))
    /\ UNCHANGED <<chan, op, sub, closers>>

\* Mutant: no onClose() is installed for a subscription.
ClosersPart(c) == {x \in {Task("opClosed", c)} : op[c] \in {"Creating", "connected"}}

\* ServerOp::cleanup() dispatches onClose().
Closers(c) ==
    {x \in {Task("opClosed", c)} : op[c] \in {"Creating", "connected"}}
    \cup {x \in {Task("subClosed", c)} : sub[c] \in {"Creating", "connected"}}
EndOps(c) ==
    /\ closers' = closers \cup Closers(c)
    /\ op' = [op EXCEPT ![c] = IF @ = "none" THEN @ ELSE "Dead"]
    /\ sub' = [sub EXCEPT ![c] = IF @ = "none" THEN @ ELSE "Dead"]

\* handle_DESTROY_CHANNEL().  ServerChan::cleanup() returns at once for a
\* channel already closed by the server.
BeginDestroy(c) ==
    \/ /\ chan[c] = "Active"
       /\ Begin(Task("chanClosed", c))
       /\ chan' = [chan EXCEPT ![c] = "gone"]
       /\ EndOps(c)
    \/ /\ chan[c] = "Destroy" /\ task = Nobody
       /\ chan' = [chan EXCEPT ![c] = "gone"]
       /\ UNCHANGED <<implvars, op, sub, closers, task, uservars, histvars>>

\* ServerConn::cleanup(): operations first, then channels
BeginLost(c) ==
    /\ chan[c] \in {"Active", "Destroy", "gone"}
    /\ Begin(IF chan[c] = "Active" THEN Task("chanClosed", c) ELSE Nobody)
    /\ chan' = [chan EXCEPT ![c] = "lost"]
    /\ EndOps(c)

\* onClose() of a get or put: without the lock
OpClosed(c) ==
    /\ task = Nobody /\ Task("opClosed", c) \in closers
    /\ closers' = closers \ {Task("opClosed", c)}
    /\ pending' = pending \ {c}
    /\ UNCHANGED <<lock, current, channels, msubscribers, mcontrol, chan, op, sub,
                   task, uservars, histvars>>

BeginSubClosed(c) ==
    /\ Task("subClosed", c) \in closers
    /\ Begin(Task("subClosed", c))
    /\ closers' = closers \ {Task("subClosed", c)}
    /\ UNCHANGED <<chan, op, sub>>

\* onClose() of a subscription
SubClosed(c) ==
    /\ Running("subClosed", c)
    /\ task' = Nobody
    /\ msubscribers' = msubscribers \ {c}
    /\ mcontrol' = [mcontrol EXCEPT ![c] = "neither"]
    /\ UNCHANGED <<lock, current, channels, pending, chan, op, sub, closers,
                   uservars, histvars>>

IsFirst == channels = {}

\* attach(), which may be followed by open() in onFirstConnect()
Attach(c) ==
    /\ Running("attach", c)
    /\ channels' = channels \cup {c}
    /\ clients' = IF IsFirst THEN clients + 1 ELSE clients
    /\ task' \in IF IsFirst /\ WorkerOpens /\ serial < MaxValue
                 THEN {Task("open", c), Nobody} ELSE {Nobody}
    /\ UNCHANGED <<lock, current, pending, msubscribers, mcontrol, chan, op, sub,
                   closers, uservars, seen, slipped>>

\* onOp()
OnOp(c) ==
    /\ Running("op", c)
    /\ task' = Nobody
    /\ IF current = 0 THEN pending' = pending \cup {c} /\ UNCHANGED op
       ELSE op' = Connected(op, {c}) /\ UNCHANGED pending
    /\ UNCHANGED <<lock, current, channels, msubscribers, mcontrol, chan, sub,
                   closers, uservars, histvars>>

\* onSubscribe()
OnSubscribe(c) ==
    /\ Running("subscribe", c)
    /\ task' = Nobody
    /\ msubscribers' = msubscribers \cup {c}
    /\ IF current = 0
       THEN mcontrol' = [mcontrol EXCEPT ![c] = "mpending"] /\ UNCHANGED <<sub, seen>>
       ELSE /\ mcontrol' = [mcontrol EXCEPT ![c] = "mcontrol"]
            /\ sub' = Connected(sub, {c})
            /\ seen' = [seen EXCEPT ![c] = Append(@, current)]
    /\ UNCHANGED <<lock, current, channels, pending, chan, op, closers, uservars,
                   slipped, clients>>

\* onClose() of a channel
ChanClosed(c) ==
    /\ Running("chanClosed", c)
    /\ task' = Nobody
    /\ channels' = channels \ {c}
    /\ clients' = IF channels \ {c} = {} THEN clients - 1 ELSE clients
    /\ UNCHANGED <<lock, current, pending, msubscribers, mcontrol, chan, op, sub,
                   closers, uservars, seen, slipped>>

\* post(): "Must open() before post()ing"
Posted ==
    IF current = 0 THEN UNCHANGED <<current, serial, seen>>
    ELSE /\ serial' = serial + 1
         /\ current' = serial + 1
         /\ seen' = [c \in Channels |->
                        IF c \in msubscribers /\ mcontrol[c] = "mcontrol"
                        THEN Append(seen[c], serial + 1) ELSE seen[c]]

PutPost(c) ==
    /\ Running("post", c) /\ serial < MaxValue
    /\ task' = Nobody
    /\ Posted
    /\ UNCHANGED <<lock, channels, pending, msubscribers, mcontrol, chan, op, sub,
                   closers, pc, todo, openvars, closes, slipped, clients>>
-----------------------------------------------------------------------------
(* open(), on a thread of the user or on the worker, in onFirstConnect()   *)

\* Mutants: the ConnectOps which wait are left; the lock is released while
\* subscribers are connected.
TakenOpsNone == {}
ConnectOwnerNone(u) == Nobody

\* open() takes all of Impl::pending.
TakenOps == pending

\* open() keeps the lock while it connects the subscribers.
ConnectOwner(u) == u
OpenedOwner == Nobody

\* The worker calls open().
Opens == \E c \in Channels : task = Task("open", c)

\* A sync. with the worker is executed between two tasks, or at once on the worker.
Synced(u) == IF u = Worker THEN Opens ELSE task = Nobody

Waiting == {c \in msubscribers : mcontrol[c] = "mpending"}

\* open() stores the value, and the subscribers follow.
Open(u) ==
    /\ pc[u] = "idle" /\ lock = Nobody /\ (u = Worker => Opens)
    /\ current = 0 /\ serial < MaxValue
    /\ serial' = serial + 1 /\ current' = serial + 1
    /\ offered' = [offered EXCEPT ![u] = serial + 1]
    /\ todo' = [todo EXCEPT ![u] = TakenOps]
    /\ visit' = [visit EXCEPT ![u] = Waiting]
    /\ pending' = pending \ TakenOps
    /\ lock' = ConnectOwner(u)
    /\ pc' = [pc EXCEPT ![u] = "connect"]
    /\ UNCHANGED <<channels, msubscribers, mcontrol, servvars, at, closes, histvars>>

\* open() of a PV which is open: "close() first"
OpenRefused ==
    /\ Opens /\ pc[Worker] = "idle" /\ lock = Nobody
    /\ current # 0
    /\ task' = Nobody
    /\ UNCHANGED <<implvars, chan, op, sub, closers, uservars, histvars>>

\* Impl::connectSub() of the next subscriber, which is given the value of open()
OpenConnect(u) ==
    /\ pc[u] \in {"connect", "resumed"} /\ Synced(u)
    /\ \E c \in visit[u] \cap Waiting :
        /\ sub[c] = "Creating"
        /\ sub' = [sub EXCEPT ![c] = "connected"]
        /\ mcontrol' = [mcontrol EXCEPT ![c] = "mcontrol"]
        /\ seen' = [seen EXCEPT ![c] = Append(@, offered[u])]
        /\ visit' = [visit EXCEPT ![u] = @ \ {c}]
        /\ slipped' = slipped \cup {d \in {c} : pc[u] = "resumed"}
    /\ UNCHANGED <<lock, current, channels, pending, msubscribers, chan, op, closers,
                   task, pc, todo, offered, at, serial, closes, clients>>

\* Its connect() throws, as the operation has ended meanwhile.  The catch clause
\* unlocks, and finds neither mpending nor mcontrol.
ConnectThrows(u) ==
    /\ pc[u] \in {"connect", "resumed"} /\ Synced(u)
    /\ \E c \in visit[u] \cap Waiting :
        /\ sub[c] # "Creating"
        /\ mcontrol' = [mcontrol EXCEPT ![c] = "neither"]
        /\ visit' = [visit EXCEPT ![u] = @ \ {c}]
        /\ at' = [at EXCEPT ![u] = c]
    /\ lock' = Nobody
    /\ pc' = [pc EXCEPT ![u] = "caught"]
    /\ UNCHANGED <<current, channels, pending, msubscribers, servvars, todo, offered,
                   serial, closes, histvars>>

\* The lock is taken again and the loop goes on.  Of the subscribers there are
\* since, it comes to those which std::set orders behind its iterator; when the
\* one it is at has been erased, the iterator is invalid and the loop comes to any.
OpenResume(u) ==
    /\ pc[u] = "caught" /\ lock = Nobody /\ (u = Worker => Opens)
    /\ lock' = ConnectOwner(u)
    /\ pc' = [pc EXCEPT ![u] = "resumed"]
    /\ at' = [at EXCEPT ![u] = Nobody]
    /\ \E more \in SUBSET Waiting :
        LET next == IF at[u] \in msubscribers THEN visit[u] \cup more ELSE more
        IN  /\ visit' = [visit EXCEPT ![u] = next]
            /\ slipped' = slipped \cup (visit[u] \ next)
    /\ UNCHANGED <<current, channels, pending, msubscribers, mcontrol, servvars, todo,
                   offered, serial, closes, seen, clients>>

OpenRelease(u) ==
    /\ pc[u] \in {"connect", "resumed"} /\ visit[u] \cap Waiting = {}
    /\ pc' = [pc EXCEPT ![u] = "ops"]
    /\ lock' = OpenedOwner
    /\ offered' = [offered EXCEPT ![u] = 0]
    /\ visit' = [visit EXCEPT ![u] = {}]
    /\ UNCHANGED <<current, channels, pending, msubscribers, mcontrol, servvars,
                   todo, at, serial, closes, histvars>>

\* Impl::connectOp() of what was pending
OpenOps(u) ==
    /\ pc[u] = "ops" /\ (u = Worker => Opens)
    /\ op' = Connected(op, todo[u])
    /\ task' = IF u = Worker THEN Nobody ELSE task
    /\ pc' = [pc EXCEPT ![u] = "idle"]
    /\ todo' = [todo EXCEPT ![u] = {}]
    /\ UNCHANGED <<implvars, chan, sub, closers, openvars, serial, closes, histvars>>
-----------------------------------------------------------------------------
(* The user's threads                                                      *)

\* close()
Close(u) ==
    /\ pc[u] = "idle" /\ lock = Nobody /\ closes < MaxClose
    /\ closes' = closes + 1
    /\ current' = 0 /\ msubscribers' = {} /\ channels' = {}
    /\ pc' = [pc EXCEPT ![u] = "close"]
    /\ todo' = [todo EXCEPT ![u] = channels]
    /\ UNCHANGED <<lock, pending, mcontrol, servvars, openvars, serial, histvars>>

\* ServerChannelControl::close() of one channel: a call() to the worker, on
\* which onClose() of the channel waits for the lock
CloseChannel(u) ==
    /\ pc[u] = "close" /\ task = Nobody
    /\ \E c \in todo[u] :
        /\ todo' = [todo EXCEPT ![u] = @ \ {c}]
        /\ IF chan[c] = "Active"
           THEN /\ task' = Task("chanClosed", c)
                /\ chan' = [chan EXCEPT ![c] = "Destroy"]
                /\ EndOps(c)
           ELSE UNCHANGED <<task, chan, op, sub, closers>>
    /\ UNCHANGED <<implvars, pc, openvars, serial, closes, histvars>>

CloseReturn(u) ==
    /\ pc[u] = "close" /\ todo[u] = {} /\ task = Nobody
    /\ pc' = [pc EXCEPT ![u] = "idle"]
    /\ UNCHANGED <<implvars, servvars, todo, openvars, serial, closes, histvars>>

\* post()
Post(u) ==
    /\ pc[u] = "idle" /\ lock = Nobody
    /\ current # 0 /\ serial < MaxValue
    /\ Posted
    /\ UNCHANGED <<lock, channels, pending, msubscribers, mcontrol, servvars, pc,
                   todo, openvars, closes, slipped, clients>>

WorkerBegin ==
    \E c \in Channels :
        BeginAttach(c) \/ BeginOp(c) \/ BeginSubscribe(c) \/ BeginPut(c)
        \/ BeginDestroy(c) \/ BeginLost(c) \/ OpClosed(c) \/ BeginSubClosed(c)
WorkerEnd ==
    \E c \in Channels :
        Attach(c) \/ OnOp(c) \/ OnSubscribe(c) \/ ChanClosed(c) \/ SubClosed(c)
        \/ PutPost(c)
OpenSteps ==
    \/ OpenRefused
    \/ \E u \in Threads :
        Open(u) \/ OpenConnect(u) \/ ConnectThrows(u) \/ OpenResume(u)
        \/ OpenRelease(u) \/ OpenOps(u)
User ==
    \E u \in Users : Close(u) \/ CloseChannel(u) \/ CloseReturn(u) \/ Post(u)

Next == WorkerBegin \/ WorkerEnd \/ OpenSteps \/ User

Spec == Init /\ [][Next]_vars
-----------------------------------------------------------------------------
\* Types of the variables.  The lock is held between steps by open() only.
TypeOK ==
    /\ lock \in {Nobody} \cup {u \in Threads : pc[u] \in {"connect", "resumed"}}
    /\ current \in 0..serial /\ serial \in 0..MaxValue /\ closes \in 0..MaxClose
    /\ channels \subseteq Channels /\ pending \subseteq Channels
    /\ msubscribers \subseteq Channels /\ slipped \subseteq Channels
    /\ mcontrol \in [Channels -> {"mpending", "mcontrol", "neither"}]
    /\ chan \in [Channels -> {"none", "Active", "Destroy", "gone", "lost"}]
    /\ op \in [Channels -> {"none", "Creating", "connected", "Dead"}]
    /\ sub \in [Channels -> {"none", "Creating", "connected", "Dead"}]
    /\ pc \in [Threads -> {"idle", "connect", "caught", "resumed", "ops", "close"}]
    /\ todo \in [Threads -> SUBSET Channels] /\ visit \in [Threads -> SUBSET Channels]

\* An open(), or a close(), under way comes to channel c.
SeenTo(c) == \E u \in Threads : c \in visit[u] \cup todo[u]

\* Whoever asks for the value while the PV is closed gets it from open(): no
\* operation of a live channel is left waiting when the PV is open, unless an
\* open() passed over it, its iterator being invalid (OpenResume).
NoneStranded ==
    current # 0 =>
        \A c \in Channels :
            chan[c] = "Active" /\ ~SeenTo(c) =>
                /\ op[c] = "Creating" => task = Task("op", c)
                /\ sub[c] = "Creating" => task = Task("subscribe", c) \/ c \in slipped

\* A subscription is never given something old after something new.  It sees the
\* value it was connected with and then every post, none lost between connecting
\* subscribers and the posts of other threads, and so has the current value,
\* unless it was connected by an open() which had released the lock in the catch
\* clause of connectSub().
NoUpdateMissed ==
    \A c \in Channels :
        /\ \A i \in 1..(Len(seen[c]) - 1) : seen[c][i] < seen[c][i + 1]
        /\ c \notin slipped =>
            /\ \A i \in 1..(Len(seen[c]) - 1) : seen[c][i + 1] = seen[c][i] + 1
            /\ current # 0 /\ c \in msubscribers /\ mcontrol[c] = "mcontrol" =>
                   seen[c][Len(seen[c])] = current

\* Of a channel whose connection is closed the PV keeps nothing once its
\* onClose() functions are executed.
Forgotten(c) == c \notin channels /\ c \notin pending /\ c \notin msubscribers
NothingKept ==
    \A c \in Channels :
        chan[c] = "lost" /\ task = Nobody /\ (\A x \in closers : x.chan # c) => Forgotten(c)

\* onFirstConnect(): "when the number of attach()d clients becomes non-zero",
\* onLastDisconnect(): "becomes zero" (sharedpv.h:54).  They alternate as long as
\* close() is not called, which empties Impl::channels before the channels close.
ClientsCounted == closes = 0 => clients = IF channels = {} THEN 0 ELSE 1

\* The sets a SharedPV keeps are those of the channels there are, whichever way
\* and in whichever order they come and go (SharedPV::attach()).
Bookkeeping == TypeOK /\ NothingKept /\ ClientsCounted

\* "must not sync. from another thread while held" (sharedpv.cpp:38): a thread
\* which holds the lock never waits for a worker which waits for the lock.
NoDeadlock == lock \in Users => visit[lock] \cap Waiting = {} \/ task = Nobody
=============================================================================
