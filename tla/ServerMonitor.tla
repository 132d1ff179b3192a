--------------------------- MODULE ServerMonitor ---------------------------
(***************************************************************************)
(* One subscription on the server: MonitorOp, ServerMonitorSetup and       *)
(* ServerMonitorControl (servermon.cpp), with the deferral of replies to   *)
(* the connection's backlog (serverconn.cpp).                              *)
(*                                                                         *)
(* Message handlers, dispatched functions ("jobs") and bevWrite() run on   *)
(* the acceptor loop, one at a time.  post() and finish() run on any       *)
(* thread under MonitorOp::lock.  A Value is the set of the serial numbers *)
(* of the posts it carries; "squashing" is the union.                      *)
(*                                                                         *)
(* Not modelled: subcmd 0x10 of MONITOR, which this client never sends;    *)
(* posts which change no field selected by pvRequest, which have no effect;*)
(* the low water mark callback, which changes no other state.              *)
(***************************************************************************)
EXTENDS MonitorWire

CONSTANTS MaxPost,      \* bound: number of posts by the data source
          HighMark,     \* MonitorOp::high, which setWatermarks() clamps
          Paced,        \* the source posts from onHighMark() only
          MayTryPost,   \* the source may use tryPost() and forcePost()
          MayFinish,    \* the source may call finish()
          CongestStates \* states in which the TX buffer may reach tcp_tx_limit

ASSUME HighMarkAssumption == HighMark \in Nat /\ HighMark < QueueSize
ASSUME MaxPostAssumption == MaxPost \in Nat
ASSUME FlagAssumption ==
    /\ {Paced, MayTryPost, MayFinish} \subseteq BOOLEAN
    /\ CongestStates \subseteq {"Creating", "Idle", "Executing"}

VARIABLES
    sstate,         \* ServerOp::state, "None" before INIT
    hasType,        \* MonitorOp::type is set, by connect()
    msg,            \* MonitorOp::msg is set, by error()
    squeue,         \* MonitorOp::queue
    swindow,        \* MonitorOp::window
    scheduled,      \* MonitorOp::scheduled
    finished,       \* MonitorOp::finished
    highPending,    \* MonitorOp::highMarkPending
    setup,          \* the user's MonitorSetupOp: "none", "held" or "dropped"
    ctrl,           \* the user has a MonitorControlOp
    started,        \* argument of the last onStart() callback
    jobs,           \* functions dispatched to the acceptor loop for this op
    backlog,        \* number of doReply() in ServerConn::backlog
    inWrite,        \* the acceptor loop is in the loop of bevWrite()
    txFull,         \* TX buffer level is at or above tcp_tx_limit
    posted,         \* history: serial of the last post
    base,           \* history: posts before the current MonitorOp
    dropped         \* history: posts not taken by tryPost()

opvars == <<sstate, hasType, msg, squeue, swindow, scheduled, finished,
            highPending, setup, ctrl, started>>
loopvars == <<jobs, backlog, inWrite, txFull>>
histvars == <<posted, base, dropped>>
svars == <<opvars, loopvars, histvars>>

\* The Value() queued by finish()
Null == {}

InitOp ==
    /\ sstate = "None" /\ hasType = FALSE /\ msg = FALSE
    /\ squeue = <<>> /\ swindow = 0
    /\ scheduled = FALSE /\ finished = FALSE /\ highPending = FALSE
    /\ setup = "none" /\ ctrl = FALSE /\ started = FALSE
    /\ jobs = <<>> /\ backlog = 0 /\ inWrite = FALSE /\ txFull = FALSE
    /\ posted = 0 /\ base = 0 /\ dropped = {}

\* Not in opByIOID: messages for it are ignored.
Gone == sstate \in {"None", "Dead"}

\* A handler of the acceptor loop may start.
LoopFree == ~inWrite

\* enqueueTxBody(): the message may bring the TX buffer to its limit
Send(m) ==
    /\ s2c' = Append(s2c, m)
    /\ txFull' \in IF CongestStates # {} THEN {txFull, TRUE} ELSE {txFull}

\* ServerOp::cleanup() with the onCancel of MonitorOp: a running subscription
\* is told to stop.
Cleanup == sstate' = "Dead" /\ started' = FALSE

\* MonitorOp::maybeReply(), with the state and the queue just updated.  js:
\* the jobs besides.
MaybeReply(js, state, q) ==
    IF ~scheduled /\ state = "Executing" /\ q # <<>> /\ (~Pipeline \/ swindow > 0)
    THEN jobs' = Append(js, "reply") /\ scheduled' = TRUE
    ELSE jobs' = js /\ UNCHANGED scheduled

\* MonitorOp::doReply() when there is room in the TX buffer.  js and bl: jobs
\* and backlog without the entry being executed; typed and error: whether type
\* and msg are set.
ReplyInit(js, bl, typed, error) ==
    /\ sstate = "Creating"
    /\ IF typed THEN sstate' = "Idle" /\ UNCHANGED started ELSE Cleanup
    /\ Send([cmd |-> IF error \/ ~typed THEN "INITERR" ELSE "INIT"])
    /\ scheduled' = FALSE
    /\ jobs' = js /\ backlog' = bl
    /\ UNCHANGED <<squeue, swindow>>

ReplyNothing(js, bl) ==
    /\ sstate = "Executing"
    /\ squeue = <<>> \/ (Pipeline /\ swindow = 0 /\ ~finished)
    /\ scheduled' = FALSE
    /\ jobs' = js /\ backlog' = bl
    /\ UNCHANGED <<sstate, started, squeue, swindow, s2c, txFull>>

ReplyFinish(js, bl) ==
    /\ sstate = "Executing"
    /\ squeue # <<>> /\ Head(squeue) = Null
    /\ Cleanup
    /\ Send([cmd |-> "FINISH"])
    /\ squeue' = Tail(squeue)
    /\ scheduled' = FALSE
    /\ jobs' = js /\ backlog' = bl
    /\ UNCHANGED swindow

\* Mutant: finish() waits for the window too.
AgainWindow(q, w) == q # <<>> /\ (~Pipeline \/ w > 0)

\* The window after an update
Spent == IF Pipeline /\ swindow > 0 THEN swindow - 1 ELSE swindow

\* There is more to send.  The window is not consulted once finish()ed.
Again(q, w) == q # <<>> /\ (~Pipeline \/ w > 0 \/ finished)

\* Sends one update and comes back for the next one.
ReplyUpdate(js, bl) ==
    /\ sstate = "Executing"
    /\ squeue # <<>> /\ Head(squeue) # Null
    /\ ~Pipeline \/ swindow > 0 \/ finished
    /\ Send([cmd |-> "DATA", val |-> Head(squeue)])
    /\ squeue' = Tail(squeue)
    /\ swindow' = Spent
    /\ scheduled' = Again(squeue', swindow')
    /\ jobs' = IF Again(squeue', swindow') THEN Append(js, "reply") ELSE js
    /\ backlog' = bl
    /\ UNCHANGED <<sstate, started>>

\* Stopped since doReply() was scheduled: what is at the front of the queue is
\* sent all the same.  "MALFORMED": subcmd says update, but the body is the Status
\* of finish(), or nothing; from_wire_valid() can not decode either.
ReplyIdle(js, bl) ==
    /\ sstate = "Idle"
    /\ IF squeue = <<>> \/ Head(squeue) = Null
       THEN Send([cmd |-> "MALFORMED"])
       ELSE Send([cmd |-> "DATA", val |-> Head(squeue)])
    /\ squeue' = IF squeue = <<>> THEN squeue ELSE Tail(squeue)
    /\ scheduled' = FALSE
    /\ jobs' = js /\ backlog' = bl
    /\ UNCHANGED <<sstate, started, swindow>>

\* Mutant: doReply() is not added to the backlog.
ReplyDeferredLost(js, bl) ==
    /\ scheduled' = TRUE
    /\ jobs' = js /\ backlog' = bl
    /\ UNCHANGED <<sstate, started, squeue, swindow, s2c, txFull>>

\* TX buffer at its limit: wait for bevWrite()
ReplyDeferred(js, bl) ==
    /\ scheduled' = TRUE
    /\ jobs' = js /\ backlog' = bl + 1
    /\ UNCHANGED <<sstate, started, squeue, swindow, s2c, txFull>>

ReplyDead(js, bl) ==
    /\ scheduled' = FALSE
    /\ jobs' = js /\ backlog' = bl
    /\ UNCHANGED <<sstate, started, squeue, swindow, s2c, txFull>>

\* MonitorOp::doReply()
DoReply(js, bl, typed, error) ==
    IF sstate = "Dead" THEN ReplyDead(js, bl)
    ELSE IF txFull THEN ReplyDeferred(js, bl)
    ELSE \/ ReplyInit(js, bl, typed, error)
         \/ ReplyNothing(js, bl)
         \/ ReplyFinish(js, bl)
         \/ ReplyUpdate(js, bl)
         \/ ReplyIdle(js, bl)
-----------------------------------------------------------------------------
(* Message handlers                                                        *)

\* handle_MONITOR() takes this message for a violation of the protocol: INIT
\* of an IOID in use, or anything else before INIT is complete.
Refused(m) ==
    \/ m.cmd = "INIT" /\ ~Gone
    \/ m.cmd \in {"START", "STOP", "ACK"} /\ sstate = "Creating"

ServerRecv(cmds) ==
    /\ LoopFree /\ c2s # <<>>
    /\ Head(c2s).cmd \in cmds /\ ~Refused(Head(c2s))
    /\ c2s' = Tail(c2s)

\* ServerConn::handle_MONITOR() INIT: a new MonitorOp, and onSubscribe().
\* What is still queued for an earlier MonitorOp finds it Dead.
HandleInit ==
    /\ ServerRecv({"INIT"})
    /\ sstate' = "Creating" /\ hasType' = FALSE /\ msg' = FALSE
    /\ squeue' = <<>>
    /\ swindow' = IF Pipeline THEN Head(c2s).nack ELSE 0
    /\ scheduled' = FALSE /\ finished' = FALSE /\ highPending' = FALSE
    /\ setup' = "held" /\ ctrl' = FALSE /\ started' = FALSE
    /\ jobs' = <<>> /\ backlog' = 0
    /\ base' = posted
    /\ UNCHANGED <<inWrite, txFull, posted, dropped, s2c>>

\* start and stop
HandleStart ==
    /\ ServerRecv({"START", "STOP"})
    /\ IF Gone THEN UNCHANGED <<sstate, started, jobs, scheduled>>
       ELSE /\ sstate' = IF Head(c2s).cmd = "START" THEN "Executing" ELSE "Idle"
            /\ started' = (Head(c2s).cmd = "START")
            /\ MaybeReply(jobs, sstate', squeue)
    /\ UNCHANGED <<hasType, msg, squeue, swindow, finished, highPending, setup,
                   ctrl, backlog, inWrite, txFull, histvars, s2c>>

\* Mutant: an ack. replaces the window.
CreditedLast(n) == n

Credited(n) == swindow + n
AboveHigh(w) == w > HighMark

\* ack.  Only wakes the source, if that has asked for it.
HandleAck ==
    /\ ServerRecv({"ACK"})
    /\ IF Gone THEN UNCHANGED <<swindow, highPending, jobs>>
       ELSE /\ swindow' = Credited(Head(c2s).nack)
            /\ IF Paced /\ ~highPending /\ ~finished /\ AboveHigh(swindow')
               THEN highPending' = TRUE /\ jobs' = Append(jobs, "high")
               ELSE UNCHANGED <<highPending, jobs>>
    /\ UNCHANGED <<sstate, hasType, msg, squeue, scheduled, finished, setup,
                   ctrl, started, backlog, inWrite, txFull, histvars, s2c>>

\* ServerConn::handle_DESTROY_REQUEST()
HandleDestroy ==
    /\ ServerRecv({"DESTROY"})
    /\ IF Gone THEN UNCHANGED <<sstate, started>> ELSE Cleanup
    /\ UNCHANGED <<hasType, msg, squeue, swindow, scheduled, finished,
                   highPending, setup, ctrl, loopvars, histvars, s2c>>
-----------------------------------------------------------------------------
(* Dispatched functions and the TX buffer                                  *)

NextJob(j) == LoopFree /\ jobs # <<>> /\ Head(jobs) = j

JobReply ==
    /\ NextJob("reply")
    /\ DoReply(Tail(jobs), backlog, hasType, msg)
    /\ UNCHANGED <<hasType, msg, finished, highPending, setup, ctrl, inWrite,
                   histvars, c2s>>

ErrorApplies == sstate = "Creating"

\* ServerMonitorSetup::error()
JobError ==
    /\ NextJob("error")
    /\ IF ErrorApplies
       THEN msg' = TRUE /\ DoReply(Tail(jobs), backlog, hasType, TRUE)
       ELSE /\ jobs' = Tail(jobs)
            /\ UNCHANGED <<sstate, started, msg, squeue, swindow, scheduled,
                           backlog, txFull, s2c>>
    /\ UNCHANGED <<hasType, finished, highPending, setup, ctrl, inWrite,
                   histvars, c2s>>

\* Space in the TX buffer again: bevWrite() works through the backlog ...
BevWrite ==
    /\ LoopFree /\ txFull
    /\ txFull' = FALSE
    /\ inWrite' = TRUE
    /\ UNCHANGED <<opvars, jobs, backlog, histvars, c2s, s2c>>

MayDrain == backlog > 0 /\ ~txFull

BacklogStep ==
    /\ inWrite /\ MayDrain
    /\ DoReply(jobs, backlog - 1, hasType, msg)
    /\ UNCHANGED <<hasType, msg, finished, highPending, setup, ctrl, inWrite,
                   histvars, c2s>>

\* ... until it is empty, or the TX buffer is full again.
BevWriteEnd ==
    /\ inWrite /\ ~MayDrain
    /\ inWrite' = FALSE
    /\ UNCHANGED <<opvars, jobs, backlog, txFull, histvars, c2s, s2c>>

\* Other traffic of the connection fills the TX buffer.
Congest ==
    /\ LoopFree /\ ~txFull
    /\ sstate \in CongestStates
    /\ txFull' = TRUE
    /\ UNCHANGED <<opvars, jobs, backlog, inWrite, histvars, c2s, s2c>>
-----------------------------------------------------------------------------
(* The data source                                                         *)

\* MonitorSetupOp::connect(), synchronous on the acceptor loop
Connect ==
    /\ LoopFree
    /\ setup = "held" /\ ~ctrl
    /\ sstate = "Creating"
    /\ hasType' = TRUE /\ ctrl' = TRUE
    /\ DoReply(jobs, backlog, TRUE, msg)
    /\ UNCHANGED <<msg, finished, highPending, setup, inWrite, histvars, c2s>>

\* ~ServerMonitorSetup() calls error(), whether or not connect() was called.
DropSetup ==
    /\ setup = "held"
    /\ setup' = "dropped"
    /\ jobs' = Append(jobs, "error")
    /\ UNCHANGED <<sstate, hasType, msg, squeue, swindow, scheduled, finished,
                   highPending, ctrl, started, backlog, inWrite, txFull,
                   histvars, c2s, s2c>>

\* ServerMonitorControl::doPost() of a Value: queue, "squash" or refuse.
HasRoom == Len(squeue) < QueueSize

\* Mutant: the newest is replaced.
QueuedOver(q, v, maybe, force) ==
    IF Len(q) < QueueSize \/ force THEN Append(q, v)
    ELSE IF maybe THEN q
    ELSE [q EXCEPT ![Len(q)] = v]

Queued(q, v, maybe, force) ==
    IF Len(q) < QueueSize \/ force THEN Append(q, v)
    ELSE IF maybe THEN q
    ELSE [q EXCEPT ![Len(q)] = @ \cup v]

DoPost(maybe, force) ==
    /\ ctrl /\ ~finished /\ sstate # "Dead"
    /\ posted < MaxPost
    /\ posted' = posted + 1
    /\ squeue' = Queued(squeue, {posted + 1}, maybe, force)
    /\ dropped' = IF maybe /\ ~HasRoom THEN dropped \cup {posted + 1} ELSE dropped
    /\ MaybeReply(jobs, sstate, squeue')
    /\ UNCHANGED <<sstate, hasType, msg, swindow, finished, highPending, setup,
                   ctrl, started, backlog, inWrite, txFull, base, c2s, s2c>>

\* post() from a thread of the source
Post == ~Paced /\ DoPost(FALSE, FALSE)
TryPost == ~Paced /\ MayTryPost /\ DoPost(TRUE, FALSE)
ForcePost == ~Paced /\ MayTryPost /\ DoPost(FALSE, TRUE)

\* finish(), also from the destructor of the MonitorControlOp
Finish ==
    /\ MayFinish /\ ~Paced
    /\ ctrl /\ ~finished /\ sstate # "Dead"
    /\ finished' = TRUE
    /\ squeue' = Append(squeue, Null)
    /\ MaybeReply(jobs, sstate, squeue')
    /\ UNCHANGED <<sstate, hasType, msg, swindow, highPending, setup, ctrl,
                   started, backlog, inWrite, txFull, histvars, c2s, s2c>>

\* What a flow controlled source does when woken: tryPost() until told that the
\* queue is full, finish() after the last one.  It assumes "at least one free
\* slot in the queue", a post without one is lost.  (test/testmonpipe.cpp:66)
Push(js) ==
    LET left == MaxPost - posted
        room == IF HasRoom THEN QueueSize - Len(squeue) ELSE 0
        n == IF left < room THEN left ELSE room
        lost == IF room = 0 /\ left > 0 THEN {posted + 1} ELSE {}
        more == [i \in 1..n |-> {posted + i}]
        fin == posted' = MaxPost /\ ~finished
    IN  /\ posted' = IF lost # {} THEN posted + 1 ELSE posted + n
        /\ dropped' = dropped \cup lost
        /\ finished' = (finished \/ fin)
        /\ squeue' = squeue \o more \o (IF fin THEN <<Null>> ELSE <<>>)
        /\ MaybeReply(js, sstate, squeue')

PushInitial ==
    /\ Paced /\ ctrl /\ posted = 0 /\ sstate # "Dead"
    /\ LoopFree
    /\ Push(jobs)
    /\ UNCHANGED <<sstate, hasType, msg, swindow, highPending, setup, ctrl,
                   started, backlog, inWrite, txFull, base, c2s, s2c>>

\* The function dispatched by an ack., calls onHighMark()
JobHigh ==
    /\ NextJob("high")
    /\ highPending' = FALSE
    /\ IF finished \/ sstate = "Dead"
       THEN jobs' = Tail(jobs) /\ UNCHANGED <<posted, dropped, finished, squeue, scheduled>>
       ELSE Push(Tail(jobs))
    /\ UNCHANGED <<sstate, hasType, msg, swindow, setup, ctrl, started,
                   backlog, inWrite, txFull, base, c2s, s2c>>

\* ServerConn::cleanup() after the loss of the connection.  What is queued
\* for the MonitorOp finds it Dead.
ServerDisconnect ==
    /\ IF Gone THEN UNCHANGED <<sstate, started>> ELSE Cleanup
    /\ jobs' = <<>> /\ backlog' = 0 /\ inWrite' = FALSE /\ txFull' = FALSE
    /\ UNCHANGED <<hasType, msg, squeue, swindow, scheduled, finished,
                   highPending, setup, ctrl, histvars>>

ServerHandle == HandleInit \/ HandleStart \/ HandleAck \/ HandleDestroy
ServerJob == JobReply \/ JobError \/ JobHigh
ServerWrite == BevWrite \/ BacklogStep \/ BevWriteEnd

ServerUser ==
    \/ Connect \/ DropSetup
    \/ Post \/ TryPost \/ ForcePost \/ Finish \/ PushInitial

ServerNext == ServerHandle \/ ServerJob \/ ServerWrite \/ ServerUser \/ Congest
-----------------------------------------------------------------------------
ServerTypeOK ==
    /\ sstate \in {"None", "Creating", "Idle", "Executing", "Dead"}
    /\ {hasType, msg, scheduled, finished, highPending, ctrl, started, inWrite,
        txFull} \subseteq BOOLEAN
    /\ squeue \in Seq(SUBSET (1..MaxPost))
    /\ swindow \in Nat /\ backlog \in Nat
    /\ setup \in {"none", "held", "dropped"}
    /\ jobs \in Seq({"reply", "error", "high"})
    /\ posted \in 0..MaxPost /\ base \in 0..MaxPost
    /\ dropped \subseteq 1..MaxPost
=============================================================================
