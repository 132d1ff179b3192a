--------------------------- MODULE ClientMonitor ---------------------------
(***************************************************************************)
(* One subscription on the client: SubscriptionImpl and                    *)
(* Connection::handle_MONITOR() (clientmon.cpp).                           *)
(*                                                                         *)
(* Handlers, createOp(), disconnected(), tickAck(), pause() and cancel()   *)
(* run on the client's worker.  pop() runs on the user's thread, under     *)
(* SubscriptionImpl::lock.  The user pops after being notified and until   *)
(* it has seen an empty queue, as client.h asks for.                       *)
(*                                                                         *)
(* Not modelled: replies which can not be decoded, an onInit() which       *)
(* throws, and a first update together with FINISH, which no pvxs server   *)
(* sends.                                                                  *)
(***************************************************************************)
EXTENDS MonitorWire

CONSTANTS AckAt,        \* SubscriptionImpl::ackAt
          MaskConn, MaskDiscon,     \* of MonitorBuilder
          MaxPause,     \* bound: number of pause()
          MayCancel     \* the user may cancel() or release the Subscription

ASSUME AckAtAssumption == AckAt \in 1..QueueSize
ASSUME MaxPauseAssumption == MaxPause \in Nat
ASSUME MaskAssumption == {MaskConn, MaskDiscon, MayCancel} \subseteq BOOLEAN

VARIABLES
    cstate,         \* SubscriptionImpl::state
    known,          \* in Connection::opByIOID of the current connection
    cqueue,         \* SubscriptionImpl::queue
    cwindow,        \* SubscriptionImpl::window
    unack,          \* SubscriptionImpl::unack
    needNotify,     \* SubscriptionImpl::needNotify
    ackPending,     \* SubscriptionImpl::ackPending
    ackTimer,       \* the ackTick event is pending
    user,           \* "waiting" for an event, or "draining" the queue
    held,           \* the user has a reference to the Subscription
    paused,         \* number of pause()
    popped          \* history: the data updates popped

cvars == <<cstate, known, cqueue, cwindow, unack, needNotify, ackPending,
           ackTimer, user, held, paused, popped>>

\* An Entry of the queue: data, or one of the exceptions.
Event(x) == [kind |-> x]
IsData(e) == e.kind = "data"

InitClient ==
    /\ cstate = "Connecting" /\ known = FALSE
    /\ cqueue = <<>>
    /\ cwindow = 0 /\ unack = 0
    /\ needNotify = TRUE
    /\ ackPending = FALSE /\ ackTimer = FALSE
    /\ user = "waiting" /\ held = TRUE /\ paused = 0
    /\ popped = <<>>

\* Entries are pushed, and the user's event() is called if the queue was empty
\* and the user has seen it empty: wantToNotify(), doNotify()
PushAndNotify(entries, wasEmpty) ==
    /\ cqueue' = cqueue \o entries
    /\ IF wasEmpty /\ needNotify
       THEN needNotify' = FALSE /\ user' = "draining"
       ELSE UNCHANGED <<needNotify, user>>

NoPush == UNCHANGED <<cqueue, needNotify, user>>

\* SubscriptionImpl::createOp(), called from Channel::createOperations()
CreateOp ==
    /\ cstate = "Connecting" /\ link = "up"
    /\ c2s' = Append(c2s, [cmd |-> "INIT", nack |-> QueueSize])
    /\ cstate' = "Creating"
    /\ known' = TRUE
    /\ cwindow' = IF Pipeline THEN QueueSize ELSE cwindow
    /\ IF MaskConn THEN NoPush
       ELSE PushAndNotify(<<Event("Connected")>>, cqueue = <<>>)
    /\ UNCHANGED <<unack, ackPending, ackTimer, held, paused, popped, link, s2c>>

ClientRecv(cmd) == link = "up" /\ s2c # <<>> /\ Head(s2c).cmd = cmd /\ s2c' = Tail(s2c)

\* handle_MONITOR(): IOID unknown, or the operation no longer exists
Stale == ~known \/ (cstate = "Done" /\ ~held)
HandleStale ==
    /\ link = "up" /\ s2c # <<>> /\ Stale
    /\ s2c' = Tail(s2c)
    /\ UNCHANGED <<cvars, link, c2s>>

\* handle_MONITOR() does not expect this message in this state, or can not
\* decode it: "sends invalid MONITOR.  Disconnecting..."
Unexpected(m) ==
    /\ ~Stale
    /\ \/ m.cmd \in {"INIT", "INITERR"} /\ cstate # "Creating"
       \/ m.cmd \in {"DATA", "FINISH"} /\ cstate \notin {"Idle", "Running"}
       \/ m.cmd = "MALFORMED"

\* handle_MONITOR() of a successful INIT: autostart
HandleInitReply ==
    /\ ClientRecv("INIT") /\ ~Stale /\ cstate = "Creating"
    /\ cstate' = "Running"
    /\ c2s' = Append(c2s, [cmd |-> "START"])
    /\ UNCHANGED <<known, cqueue, cwindow, unack, needNotify, ackPending,
                   ackTimer, user, held, paused, popped, link>>

\* handle_MONITOR() of a failed INIT
HandleInitError ==
    /\ ClientRecv("INITERR") /\ ~Stale /\ cstate = "Creating"
    /\ cstate' = "Done" /\ known' = FALSE
    /\ PushAndNotify(<<Event("RemoteError")>>, TRUE)
    /\ ackTimer' = IF Pipeline THEN FALSE ELSE ackTimer
    /\ c2s' = Append(c2s, [cmd |-> "DESTROY"])
    /\ UNCHANGED <<cwindow, unack, ackPending, held, paused, popped, link>>

Credit == cwindow' = IF Pipeline /\ cwindow > 0 THEN cwindow - 1 ELSE cwindow

\* handle_MONITOR() of an update: "squashed" if the queue is full
MustSquash == ~Pipeline /\ Len(cqueue) >= QueueSize /\ IsData(cqueue[Len(cqueue)])

HandleUpdate ==
    /\ ClientRecv("DATA") /\ ~Stale /\ cstate \in {"Idle", "Running"}
    /\ Credit
    /\ IF MustSquash
       THEN /\ cqueue' = [cqueue EXCEPT ![Len(cqueue)].val = @ \cup Head(s2c).val]
            /\ UNCHANGED <<needNotify, user>>
       ELSE PushAndNotify(<<[kind |-> "data", val |-> Head(s2c).val]>>, cqueue = <<>>)
    /\ UNCHANGED <<cstate, known, unack, ackPending, ackTimer, held, paused,
                   popped, link, c2s>>

\* handle_MONITOR() of FINISH
HandleFinish ==
    /\ ClientRecv("FINISH") /\ ~Stale /\ cstate \in {"Idle", "Running"}
    /\ Credit
    /\ PushAndNotify(<<Event("Finished")>>, cqueue = <<>>)
    /\ cstate' = "Done" /\ known' = FALSE
    /\ ackTimer' = IF Pipeline THEN FALSE ELSE ackTimer
    /\ UNCHANGED <<unack, ackPending, held, paused, popped,
                   link, c2s>>

\* Mutant: pause() does not wait for the reply to INIT.
MayPauseEarly == cstate \in {"Creating", "Running"}

MayPause == cstate = "Running"

\* pause() and resume()
Pause ==
    /\ MayPause /\ held /\ paused < MaxPause
    /\ c2s' = Append(c2s, [cmd |-> "STOP"])
    /\ cstate' = "Idle"
    /\ paused' = paused + 1
    /\ UNCHANGED <<known, cqueue, cwindow, unack, needNotify, ackPending,
                   ackTimer, user, held, popped, link, s2c>>

Resume ==
    /\ cstate = "Idle" /\ held
    /\ c2s' = Append(c2s, [cmd |-> "START"])
    /\ cstate' = "Running"
    /\ UNCHANGED <<known, cqueue, cwindow, unack, needNotify, ackPending,
                   ackTimer, user, held, paused, popped, link,
                   s2c>>

\* _cancel(), from cancel() or when the last reference is released
CancelEffect ==
    /\ IF cstate \in {"Idle", "Running"}
       THEN /\ c2s' = Append(c2s, [cmd |-> "DESTROY"])
            /\ known' = FALSE
            /\ ackTimer' = IF Pipeline THEN FALSE ELSE ackTimer
       ELSE UNCHANGED <<c2s, known, ackTimer>>
    /\ cstate' = "Done"
    /\ UNCHANGED <<cqueue, cwindow, unack, needNotify, ackPending, user, paused,
                   popped, link, s2c>>

Cancel ==
    /\ MayCancel /\ held /\ cstate # "Done"
    /\ CancelEffect
    /\ UNCHANGED held

Release ==
    /\ MayCancel /\ held
    /\ CancelEffect
    /\ held' = FALSE

\* pop() of an entry
Pop ==
    /\ user = "draining" /\ held /\ cqueue # <<>>
    /\ cqueue' = Tail(cqueue)
    /\ IF IsData(Head(cqueue))
       THEN popped' = Append(popped, Head(cqueue).val)
       ELSE UNCHANGED popped
    /\ IF Pipeline
       THEN /\ unack' = unack + 1
            /\ IF ~ackPending /\ unack' >= AckAt
               THEN ackPending' = TRUE /\ ackTimer' = TRUE
               ELSE UNCHANGED <<ackPending, ackTimer>>
       ELSE UNCHANGED <<unack, ackPending, ackTimer>>
    /\ UNCHANGED <<cstate, known, cwindow, needNotify, user, held, paused, link, c2s, s2c>>

\* Mutant: pop() does not ask to be notified.
PopEmptyQuiet ==
    /\ user = "draining" /\ held /\ cqueue = <<>>
    /\ user' = "waiting"
    /\ UNCHANGED <<cstate, known, cqueue, cwindow, unack, needNotify, ackPending,
                   ackTimer, held, paused, popped, link, c2s, s2c>>

\* pop() finds the queue empty
PopEmpty ==
    /\ user = "draining" /\ held /\ cqueue = <<>>
    /\ needNotify' = TRUE
    /\ user' = "waiting"
    /\ UNCHANGED <<cstate, known, cqueue, cwindow, unack, ackPending, ackTimer,
                   held, paused, popped, link, c2s, s2c>>

TickAck ==
    /\ ackTimer
    /\ ackTimer' = FALSE
    /\ ackPending' = FALSE
    /\ IF cstate \in {"Idle", "Running"} /\ unack > 0
       THEN /\ c2s' = Append(c2s, [cmd |-> "ACK", nack |-> unack])
            /\ cwindow' = cwindow + unack
            /\ unack' = 0
       ELSE UNCHANGED <<c2s, cwindow, unack>>
    /\ UNCHANGED <<cstate, known, cqueue, needNotify, user, held, paused, popped, link, s2c>>

\* SubscriptionImpl::disconnected(), from Channel::disconnect()
ClientDisconnect ==
    /\ known' = FALSE
    /\ IF known /\ cstate \in {"Creating", "Idle", "Running"}
       THEN /\ cstate' = "Connecting"
            /\ IF MaskDiscon THEN NoPush
               ELSE PushAndNotify(<<Event("Disconnect")>>, cqueue = <<>>)
       ELSE NoPush /\ UNCHANGED cstate
    /\ UNCHANGED <<cwindow, unack, ackPending, ackTimer, held, paused, popped>>

ClientWorker ==
    \/ CreateOp
    \/ HandleStale \/ HandleInitReply \/ HandleInitError
    \/ HandleUpdate \/ HandleFinish
    \/ TickAck

ClientUser == Pause \/ Resume \/ Cancel \/ Release \/ Pop \/ PopEmpty

ClientNext == ClientWorker \/ ClientUser
-----------------------------------------------------------------------------
ClientTypeOK ==
    /\ cstate \in {"Connecting", "Creating", "Idle", "Running", "Done"}
    /\ {known, needNotify, ackPending, ackTimer, held} \subseteq BOOLEAN
    /\ \A i \in 1..Len(cqueue) : cqueue[i].kind \in
          {"data", "Connected", "Disconnect", "Finished", "RemoteError"}
    /\ {cwindow, unack, paused} \subseteq Nat
    /\ user \in {"waiting", "draining"}
    /\ link \in {"up", "down"}
=============================================================================
