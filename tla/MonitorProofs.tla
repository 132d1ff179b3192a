--------------------------- MODULE MonitorProofs ---------------------------
(***************************************************************************)
(* Proofs about a subscription, for any queue size, any number of posts    *)
(* and any number of lost connections: no event is missed, onStart() is    *)
(* balanced, no update is stranded, and a pipelined subscription is flow   *)
(* controlled.                                                             *)
(***************************************************************************)
EXTENDS DeliveryProofs, WellFoundedInduction, TLAPS

\* The user's side of the client: the user waits exactly while needNotify is
\* set, and nothing is queued then.
WaitingIsNotified == (user = "waiting") <=> needNotify
EventInv ==
    /\ user \in {"waiting", "draining"} /\ needNotify \in BOOLEAN
    /\ WaitingIsNotified
    /\ NoMissedEvent

\* A user who pops until the queue is empty, and then waits for an event, is
\* never left waiting with an update in the queue: for updates, connection
\* events and errors pushed by the worker in any interleaving with pop().
THEOREM EventsNotMissed == Spec => []NoMissedEvent
<1> USE DEF EventInv, WaitingIsNotified, NoMissedEvent
<1>1. Init => EventInv
  BY DEF Init, InitClient
<1>2. EventInv /\ [Next]_vars => EventInv'
  <2> SUFFICES ASSUME EventInv, [Next]_vars PROVE EventInv'
    OBVIOUS
  <2> DEFINE Same == UNCHANGED <<cqueue, needNotify, user>>
  <2>1. CASE Same
    BY <2>1
  <2>2. ASSUME NEW entries, NEW wasEmpty \in BOOLEAN, cqueue = <<>> => wasEmpty,
               PushAndNotify(entries, wasEmpty)
        PROVE EventInv'
    <3>1. CASE wasEmpty /\ needNotify
      BY <2>2, <3>1 DEF PushAndNotify
    <3>2. CASE ~(wasEmpty /\ needNotify)
      <4>1. user = "draining" /\ ~needNotify
        BY <2>2, <3>2
      <4>2. user' = user /\ needNotify' = needNotify
        BY <2>2, <3>2 DEF PushAndNotify
      <4> QED BY <4>1, <4>2
    <3> QED BY <3>1, <3>2
  <2>3. CASE Pop \/ PopEmpty
    <3>1. CASE Pop
      <4>1. user = "draining" /\ UNCHANGED <<user, needNotify>>
        BY <3>1 DEF Pop
      <4> QED BY <4>1
    <3>2. CASE PopEmpty
      BY <3>2 DEF PopEmpty
    <3> QED BY <2>3, <3>1, <3>2
  <2>4. CASE CreateOp
    <3>1. Same \/ PushAndNotify(<<Event("Connected")>>, cqueue = <<>>)
      BY <2>4 DEF CreateOp, NoPush
    <3> QED BY <3>1, <2>1, <2>2
  <2>5. CASE HandleInitError
    BY <2>5, <2>2 DEF HandleInitError
  <2>6. CASE HandleUpdate
    <3>1. CASE MustSquash
      BY <2>6, <3>1 DEF HandleUpdate, MustSquash
    <3>2. CASE ~MustSquash
      BY <2>6, <3>2, <2>2 DEF HandleUpdate
    <3> QED BY <3>1, <3>2
  <2>7. CASE HandleFinish
    BY <2>7, <2>2 DEF HandleFinish
  <2>8. CASE ClientDisconnect
    <3>1. Same \/ PushAndNotify(<<Event("Disconnect")>>, cqueue = <<>>)
      BY <2>8 DEF ClientDisconnect, NoPush
    <3> QED BY <3>1, <2>1, <2>2
  <2>9. CASE Client
    BY <2>9, <2>1, <2>3, <2>4, <2>5, <2>6, <2>7
    DEF Client, ClientNext, ClientWorker, ClientUser, HandleStale, HandleInitReply,
        TickAck, Pause, Resume, Cancel, Release, CancelEffect, cvars
  <2> QED
    BY <2>1, <2>8, <2>9
    DEF Next, Server, LoseLink, Fault, Drop, Reconnect, vars, cvars
<1>3. EventInv => NoMissedEvent
  OBVIOUS
<1> QED
  BY <1>1, <1>2, <1>3, PTL DEF Spec

-----------------------------------------------------------------------------
\* The data source is told to stop whenever it has been told to start, also
\* when the subscription ends by finish(), by the client, or by a disconnect.
THEOREM StartBalanced == Spec => []StopFollowsStart
<1> USE DEF StopFollowsStart
<1>1. Init => StopFollowsStart
  BY DEF Init, InitOp
<1>2. StopFollowsStart /\ [Next]_vars => StopFollowsStart'
  <2> SUFFICES ASSUME StopFollowsStart, [Next]_vars PROVE StopFollowsStart'
    OBVIOUS
  <2>1. CASE UNCHANGED <<sstate, started>>
    BY <2>1
  <2>2. ASSUME Cleanup PROVE StopFollowsStart'
    BY <2>2 DEF Cleanup
  <2>3. ASSUME NEW js, NEW bl, NEW typed, NEW error, DoReply(js, bl, typed, error)
        PROVE StopFollowsStart'
    BY <2>3, <2>1, <2>2
    DEF DoReply, ReplyDead, ReplyDeferred, ReplyInit, ReplyNothing, ReplyFinish,
        ReplyUpdate, ReplyIdle
  <2>4. CASE ServerHandle
    BY <2>4, <2>2 DEF ServerHandle, HandleInit, HandleStart, HandleAck, HandleDestroy
  <2>5. CASE ServerJob
    BY <2>5, <2>1, <2>3 DEF ServerJob, JobReply, JobError, JobHigh
  <2>6. CASE ServerWrite
    BY <2>6, <2>1, <2>3 DEF ServerWrite, BevWrite, BacklogStep, BevWriteEnd, opvars
  <2>7. CASE ServerUser
    BY <2>7, <2>1, <2>3
    DEF ServerUser, Connect, DropSetup, Post, TryPost, ForcePost, DoPost, Finish,
        PushInitial
  <2>8. CASE ServerDisconnect
    BY <2>8, <2>1, <2>2 DEF ServerDisconnect
  <2>9. CASE Server
    BY <2>9, <2>1, <2>4, <2>5, <2>6, <2>7 DEF Server, ServerNext, Congest, opvars
  <2> QED
    BY <2>1, <2>8, <2>9
    DEF Next, Client, LoseLink, Fault, Drop, Reconnect, vars, svars, opvars
<1> QED
  BY <1>1, <1>2, PTL DEF Spec
-----------------------------------------------------------------------------
(* Without "pipeline" no update is stranded on the server.                 *)

JobKinds == {"reply", "error", "high"}

\* "scheduled" is backed by a doReply() in the loop or in the backlog, the
\* backlog by a bevWrite() in progress or to come.
ScheduledIsReal ==
    scheduled /\ sstate \in {"Creating", "Idle", "Executing"} => HasReply(jobs) \/ backlog > 0
BacklogServed == backlog > 0 => txFull \/ inWrite
RunningScheduled == sstate = "Executing" /\ squeue # <<>> => scheduled
StallInv ==
    /\ sstate \in {"None", "Creating", "Idle", "Executing", "Dead"}
    /\ jobs \in Seq(JobKinds) /\ backlog \in Nat /\ scheduled \in BOOLEAN
    /\ sstate = "None" => setup = "none" /\ ~ctrl /\ jobs = <<>> /\ backlog = 0
    /\ ScheduledIsReal
    /\ BacklogServed
    /\ RunningScheduled

\* Dispatching one more function keeps those already dispatched.
LEMMA AppendJob ==
    ASSUME NEW js \in Seq(JobKinds), NEW j \in JobKinds
    PROVE  /\ Append(js, j) \in Seq(JobKinds)
           /\ HasReply(js) => HasReply(Append(js, j))
           /\ j = "reply" => HasReply(Append(js, j))
<1>1. /\ Append(js, j) \in Seq(JobKinds)
      /\ Len(js) \in Nat /\ Len(Append(js, j)) = Len(js) + 1
      /\ \A i \in 1..Len(js) : Append(js, j)[i] = js[i]
      /\ Append(js, j)[Len(js) + 1] = j
  OBVIOUS
<1>2. 1..Len(js) \subseteq 1..Len(Append(js, j)) /\ Len(js) + 1 \in 1..Len(Append(js, j))
  BY <1>1
<1> QED
  BY <1>1, <1>2 DEF HasReply

\* Running a function other than doReply() keeps the doReply()s dispatched.
LEMMA TailJob ==
    ASSUME NEW js \in Seq(JobKinds), js # <<>>
    PROVE  /\ Tail(js) \in Seq(JobKinds)
           /\ HasReply(js) /\ Head(js) # "reply" => HasReply(Tail(js))
<1>1. /\ Tail(js) \in Seq(JobKinds)
      /\ Len(js) \in Nat \ {0} /\ Len(Tail(js)) = Len(js) - 1
      /\ \A i \in 1..Len(Tail(js)) : Tail(js)[i] = js[i + 1]
      /\ Head(js) = js[1]
  OBVIOUS
<1>2. ASSUME HasReply(js), Head(js) # "reply" PROVE HasReply(Tail(js))
  <2>1. PICK i \in 1..Len(js) : js[i] = "reply"
    BY <1>2 DEF HasReply
  <2>2. i # 1
    BY <1>1, <1>2, <2>1
  <2>3. i - 1 \in 1..Len(Tail(js)) /\ Tail(js)[i - 1] = js[i]
    <3>1. i - 1 \in 1..Len(Tail(js)) /\ (i - 1) + 1 = i
      BY <1>1, <2>2
    <3> QED BY <1>1, <3>1
  <2> QED BY <2>1, <2>3 DEF HasReply
<1> QED BY <1>1, <1>2

\* MonitorOp::maybeReply()
LEMMA MaybeReplyKeeps ==
    ASSUME ~Pipeline, NEW js \in Seq(JobKinds), NEW state, NEW q,
           scheduled \in BOOLEAN, MaybeReply(js, state, q)
    PROVE  /\ jobs' \in Seq(JobKinds) /\ scheduled' \in BOOLEAN
           /\ HasReply(js) => HasReply(jobs')
           /\ scheduled => scheduled'
           /\ scheduled' /\ ~scheduled => HasReply(jobs')
           /\ state = "Executing" /\ q # <<>> => scheduled'
  BY AppendJob DEF MaybeReply, JobKinds

\* MonitorOp::doReply() leaves a doReply() behind whenever one is needed.
LEMMA DoReplyKeeps ==
    ASSUME ~Pipeline, StallInv, NEW js \in Seq(JobKinds), NEW bl \in Nat,
           NEW typed, NEW error, bl > 0 => txFull \/ inWrite,
           sstate # "None", inWrite' = inWrite, DoReply(js, bl, typed, error)
    PROVE  StallInv'
<1> USE DEF StallInv, ScheduledIsReal, BacklogServed, RunningScheduled
<1>1. CASE ReplyDead(js, bl) /\ sstate = "Dead"
  BY <1>1 DEF ReplyDead
<1>2. CASE ReplyDeferred(js, bl) /\ txFull
  BY <1>2 DEF ReplyDeferred
<1>3. CASE ReplyInit(js, bl, typed, error) /\ ~txFull
  BY <1>3 DEF ReplyInit, Send, Cleanup
<1>4. CASE ReplyNothing(js, bl) /\ ~txFull
  BY <1>4 DEF ReplyNothing
<1>5. CASE ReplyFinish(js, bl) /\ ~txFull
  BY <1>5 DEF ReplyFinish, Send, Cleanup
<1>6. CASE ReplyUpdate(js, bl) /\ ~txFull
  <2>1. /\ sstate' = "Executing" /\ backlog' = bl
        /\ scheduled' = (squeue' # <<>>)
        /\ jobs' = IF squeue' # <<>> THEN Append(js, "reply") ELSE js
    BY <1>6 DEF ReplyUpdate, Again
  <2>2. jobs' \in Seq(JobKinds) /\ (scheduled' => HasReply(jobs'))
    BY <2>1, AppendJob DEF JobKinds
  <2> QED BY <1>6, <2>1, <2>2
<1>7. CASE ReplyIdle(js, bl) /\ ~txFull
  BY <1>7 DEF ReplyIdle, Send
<1> QED
  BY <1>1, <1>2, <1>3, <1>4, <1>5, <1>6, <1>7 DEF DoReply

\* Without "pipeline", queued updates of a running subscription always have a
\* doReply() dispatched, or deferred to a bevWrite() which is still to come.
THEOREM UpdatesNotStranded ==
    ASSUME ~Pipeline PROVE Spec => []NoStall
<1> USE DEF StallInv, ScheduledIsReal, BacklogServed, RunningScheduled
<1>1. Init => StallInv
  <2>1. Init => jobs \in Seq(JobKinds)
    BY DEF Init, InitOp
  <2>2. Init => /\ sstate = "None" /\ backlog = 0 /\ scheduled = FALSE
                /\ setup = "none" /\ ctrl = FALSE /\ jobs = <<>>
    BY DEF Init, InitOp
  <2>3. 0 \in Nat /\ ~(0 > 0)
    OBVIOUS
  <2> QED BY <2>1, <2>2, <2>3, Zenon
<1>2. StallInv /\ [Next]_vars => StallInv'
  <2> SUFFICES ASSUME StallInv, [Next]_vars PROVE StallInv'
    OBVIOUS
  <2>1. CASE UNCHANGED <<jobs, backlog, scheduled, sstate, txFull, inWrite, squeue,
                         setup, ctrl>>
    BY <2>1 DEF HasReply
  <2>2. CASE HandleInit
    <3>1. jobs' \in Seq(JobKinds)
      BY <2>2 DEF HandleInit
    <3>2. sstate' = "Creating" /\ scheduled' = FALSE /\ backlog' = 0
      BY <2>2 DEF HandleInit
    <3>3. 0 \in Nat /\ ~(0 > 0)
      OBVIOUS
    <3> QED BY <3>1, <3>2, <3>3
  <2>3. CASE HandleStart
    <3>1. CASE Gone
      BY <2>1, <2>3, <3>1 DEF HandleStart, histvars
    <3>2. CASE ~Gone
      <4>1. /\ MaybeReply(jobs, sstate', squeue)
            /\ UNCHANGED <<squeue, backlog, inWrite, txFull>>
            /\ sstate' \in {"Executing", "Idle"}
            /\ sstate \in {"Creating", "Idle", "Executing"}
        BY <2>3, <3>2 DEF HandleStart, Gone
      <4>2. /\ jobs' \in Seq(JobKinds) /\ scheduled' \in BOOLEAN
            /\ HasReply(jobs) => HasReply(jobs')
            /\ scheduled' /\ ~scheduled => HasReply(jobs')
            /\ sstate' = "Executing" /\ squeue # <<>> => scheduled'
        BY <4>1, MaybeReplyKeeps
      <4> QED BY <4>1, <4>2
    <3> QED BY <3>1, <3>2
  <2>4. CASE HandleAck
    <3>1. CASE Gone
      BY <2>1, <2>4, <3>1 DEF HandleAck, histvars
    <3>2. CASE ~Gone
      <4>1. /\ jobs' = jobs \/ jobs' = Append(jobs, "high")
            /\ UNCHANGED <<sstate, squeue, scheduled, backlog, inWrite, txFull>>
        BY <2>4, <3>2 DEF HandleAck
      <4>2. jobs' \in Seq(JobKinds) /\ (HasReply(jobs) => HasReply(jobs'))
        BY <4>1, AppendJob DEF JobKinds
      <4> QED BY <3>2, <4>1, <4>2 DEF Gone
    <3> QED BY <3>1, <3>2
  <2>5. CASE HandleDestroy
    <3>1. /\ UNCHANGED <<jobs, backlog, scheduled, txFull, inWrite, squeue, setup, ctrl>>
          /\ sstate' = "Dead" \/ sstate' = sstate
      BY <2>5 DEF HandleDestroy, Cleanup, loopvars
    <3> QED BY <3>1 DEF HasReply
  <2>6. CASE ServerJob
    <3>1. jobs # <<>> /\ sstate # "None" /\ Tail(jobs) \in Seq(JobKinds)
      BY <2>6, TailJob DEF ServerJob, JobReply, JobError, JobHigh, NextJob
    <3>2. ASSUME Head(jobs) # "reply" PROVE HasReply(jobs) => HasReply(Tail(jobs))
      BY <3>1, <3>2, TailJob
    <3>3. CASE JobReply
      BY <3>1, <3>3, DoReplyKeeps DEF JobReply
    <3>4. CASE JobError
      <4>1. CASE sstate = "Creating"
        BY <3>1, <3>4, <4>1, DoReplyKeeps DEF JobError, ErrorApplies
      <4>2. CASE sstate # "Creating"
        <5>1. /\ jobs' = Tail(jobs) /\ Head(jobs) # "reply"
              /\ UNCHANGED <<sstate, squeue, scheduled, backlog, txFull, inWrite>>
          BY <3>4, <4>2 DEF JobError, ErrorApplies, NextJob
        <5> QED BY <3>1, <3>2, <5>1
      <4> QED BY <4>1, <4>2
    <3>5. CASE JobHigh
      <4>1. Head(jobs) # "reply" /\ UNCHANGED <<sstate, backlog, txFull, inWrite>>
        BY <3>5 DEF JobHigh, NextJob
      <4>2. CASE finished \/ sstate = "Dead"
        <5>1. jobs' = Tail(jobs) /\ UNCHANGED <<squeue, scheduled>>
          BY <3>5, <4>2 DEF JobHigh
        <5> QED BY <3>1, <3>2, <4>1, <5>1
      <4>3. CASE ~(finished \/ sstate = "Dead")
        <5>1. MaybeReply(Tail(jobs), sstate, squeue')
          BY <3>5, <4>3 DEF JobHigh, Push
        <5>2. /\ jobs' \in Seq(JobKinds) /\ scheduled' \in BOOLEAN
              /\ HasReply(Tail(jobs)) => HasReply(jobs')
              /\ scheduled' /\ ~scheduled => HasReply(jobs')
              /\ sstate = "Executing" /\ squeue' # <<>> => scheduled'
          <6>1. PICK js \in Seq(JobKinds) : js = Tail(jobs)
            BY <3>1
          <6>2. MaybeReply(js, sstate, squeue')
            BY <5>1, <6>1
          <6>3. /\ jobs' \in Seq(JobKinds) /\ scheduled' \in BOOLEAN
                /\ HasReply(js) => HasReply(jobs')
                /\ scheduled' /\ ~scheduled => HasReply(jobs')
                /\ sstate = "Executing" /\ squeue' # <<>> => scheduled'
            BY <6>2, MaybeReplyKeeps
          <6> QED BY <6>1, <6>3
        <5>3. HasReply(jobs) => HasReply(Tail(jobs))
          BY <3>2, <4>1
        <5>4. HasReply(jobs) => HasReply(jobs')
          BY <5>2, <5>3
        <5>5. scheduled' /\ sstate \in {"Creating", "Idle", "Executing"}
              => HasReply(jobs') \/ backlog > 0
          BY <5>2, <5>4
        <5> QED BY <3>1, <4>1, <5>2, <5>5
      <4> QED BY <4>2, <4>3
    <3> QED BY <2>6, <3>3, <3>4, <3>5 DEF ServerJob
  <2>7. CASE ServerWrite
    <3>1. CASE BevWrite
      <4>1. UNCHANGED <<jobs, backlog, scheduled, sstate, squeue, setup, ctrl>> /\ inWrite'
        BY <3>1 DEF BevWrite, opvars
      <4> QED BY <4>1 DEF HasReply
    <3>2. CASE BacklogStep
      <4>1. /\ backlog - 1 \in Nat /\ inWrite /\ inWrite' = inWrite /\ sstate # "None"
            /\ DoReply(jobs, backlog - 1, hasType, msg)
        BY <3>2 DEF BacklogStep, MayDrain
      <4> QED BY <4>1, DoReplyKeeps
    <3>3. CASE BevWriteEnd
      <4>1. /\ UNCHANGED <<jobs, backlog, scheduled, sstate, squeue, setup, ctrl, txFull>>
            /\ backlog = 0 \/ txFull
        BY <3>3 DEF BevWriteEnd, MayDrain, opvars
      <4> QED BY <4>1 DEF HasReply
    <3> QED BY <2>7, <3>1, <3>2, <3>3 DEF ServerWrite
  <2>8. CASE Congest
    <3>1. UNCHANGED <<jobs, backlog, scheduled, sstate, squeue, setup, ctrl>> /\ txFull'
      BY <2>8 DEF Congest, opvars
    <3> QED BY <3>1 DEF HasReply
  <2>9. CASE Connect
    <3>1. /\ sstate = "Creating" /\ inWrite' = inWrite
          /\ DoReply(jobs, backlog, TRUE, msg)
      BY <2>9 DEF Connect
    <3> QED BY <3>1, DoReplyKeeps
  <2>10. CASE DropSetup
    <3>1. /\ jobs' = Append(jobs, "error") /\ sstate # "None"
          /\ UNCHANGED <<sstate, squeue, scheduled, backlog, txFull, inWrite>>
      BY <2>10 DEF DropSetup
    <3>2. jobs' \in Seq(JobKinds) /\ (HasReply(jobs) => HasReply(jobs'))
      BY <3>1, AppendJob DEF JobKinds
    <3> QED BY <3>1, <3>2
  <2>11. CASE Post \/ TryPost \/ ForcePost \/ Finish \/ PushInitial
    <3>1. /\ MaybeReply(jobs, sstate, squeue')
          /\ sstate # "None" /\ sstate # "Dead"
          /\ UNCHANGED <<sstate, backlog, txFull, inWrite>>
      BY <2>11 DEF Post, TryPost, ForcePost, DoPost, Finish, PushInitial, Push
    <3> QED BY <3>1, MaybeReplyKeeps
  <2>12. CASE ServerDisconnect
    <3>1. /\ jobs' = <<>> /\ jobs' \in Seq(JobKinds) /\ backlog' = 0
          /\ UNCHANGED <<scheduled, squeue, setup, ctrl>>
          /\ sstate' = "Dead" \/ (sstate' = sstate /\ sstate \in {"None", "Dead"})
      BY <2>12 DEF ServerDisconnect, Cleanup, Gone
    <3> QED BY <3>1
  <2>13. CASE Server
    BY <2>13, <2>2, <2>3, <2>4, <2>5, <2>6, <2>7, <2>8, <2>9, <2>10, <2>11
    DEF Server, ServerNext, ServerHandle, ServerUser
  <2>14. CASE UNCHANGED svars
    BY <2>1, <2>14 DEF svars, opvars, loopvars
  <2> QED
    BY <2>12, <2>13, <2>14 DEF Next, Client, LoseLink, Fault, Drop, Reconnect, vars
<1>3. StallInv => NoStall
  BY DEF NoStall, ReplyComing
<1> QED
  BY <1>1, <1>2, <1>3, PTL DEF Spec

-----------------------------------------------------------------------------
(***************************************************************************)
(* Flow control.  The facts about sums of sequences come first; they are   *)
(* proved by descent to the least counterexample.  Then ServerFlow and     *)
(* ClientFlow sum up what a step of either end does to the wires and to    *)
(* the windows, and the invariants are proved over these summaries.        *)
(***************************************************************************)

\* A set of numbers has a least one
LEMMA LeastOf ==
    ASSUME NEW T, T \subseteq Nat, T # {}
    PROVE  \E x \in T : \A y \in T : x <= y
<1> DEFINE R == OpToRel(<, Nat)
<1>1. \A x, y \in Nat : <<y, x>> \in R <=> y < x
  BY DEF OpToRel
<1>2. IsWellFoundedOn(R, Nat)
  BY NatLessThanWellFounded
<1> HIDE DEF R
<1>3. \E x \in T : \A y \in T : ~(<<y, x>> \in R)
  BY <1>2, WFMin, Zenon
<1>4. PICK x \in T : \A y \in T : ~(<<y, x>> \in R)
  BY <1>3, Zenon
<1>5. \A y \in T : ~(y < x)
  BY <1>1, <1>4, Zenon
<1>6. \A y \in T : x <= y
  BY <1>5
<1>7. QED
  BY <1>6

\* f holds the sums of the first numbers of s
Sums(f, s) == f = [i \in 0..Len(s) |-> IF i = 0 THEN 0 ELSE f[i - 1] + s[i]]

\* Total is the last of the sums, once they are known to be unique.
LEMMA TotalIs ==
    ASSUME NEW s, NEW f, Sums(f, s), \A g : Sums(g, s) => g = f
    PROVE Total(s) = f[Len(s)]
<1>1. Sums(CHOOSE g : Sums(g, s), s)
  OBVIOUS
<1>2. Total(s) = (CHOOSE g : Sums(g, s))[Len(s)]
  BY DEF Total, Sums
<1> QED BY <1>1, <1>2

\* There is one such function only.
LEMMA SumsUnique ==
    ASSUME NEW s \in Seq(Nat), NEW f, NEW g, Sums(f, s), Sums(g, s)
    PROVE  f = g
<1>1. Len(s) \in Nat
  OBVIOUS
<1>2. \A i \in 0..Len(s) : f[i] = g[i]
  <2> SUFFICES ASSUME NEW n \in 0..Len(s), f[n] # g[n] PROVE FALSE
    OBVIOUS
  <2> DEFINE T == {i \in 0..Len(s) : f[i] # g[i]}
  <2>a. T \subseteq Nat /\ T # {}
    BY <1>1
  <2>1. PICK x \in T : \A y \in T : x <= y
    <3> HIDE DEF T
    <3> QED BY <2>a, LeastOf
  <2>2. x # 0
    BY <1>1 DEF Sums
  <2>3. f[x - 1] = g[x - 1]
    BY <1>1, <2>1, <2>2
  <2>4. f[x] = f[x - 1] + s[x]
    BY <1>1, <2>2 DEF Sums
  <2>5. g[x] = g[x - 1] + s[x]
    BY <1>1, <2>2 DEF Sums
  <2>6. QED
    BY <2>3, <2>4, <2>5
<1>3. QED
  BY <1>1, <1>2 DEF Sums

\* The sums of s with a number appended are those of s, and one more.
LEMMA SumsAppend ==
    ASSUME NEW s \in Seq(Nat), NEW n \in Nat, NEW f \in [0..Len(s) -> Nat], Sums(f, s)
    PROVE  LET a == Append(s, n)
               h == [i \in 0..Len(a) |-> IF i = Len(a) THEN f[Len(s)] + n ELSE f[i]]
           IN  h \in [0..Len(a) -> Nat] /\ Sums(h, a)
<1> DEFINE a == Append(s, n)
           h == [i \in 0..Len(a) |-> IF i = Len(a) THEN f[Len(s)] + n ELSE f[i]]
<1>1. /\ a \in Seq(Nat) /\ Len(s) \in Nat /\ Len(a) = Len(s) + 1 /\ a[Len(s) + 1] = n
      /\ \A i \in 1..Len(s) : a[i] = s[i]
  OBVIOUS
<1> HIDE DEF a
<1>2. h \in [0..Len(a) -> Nat]
  BY <1>1
<1>3. \A i \in 0..Len(s) : f[i] = IF i = 0 THEN 0 ELSE f[i - 1] + s[i]
  BY DEF Sums
<1>4. ASSUME NEW i \in 0..Len(a) PROVE h[i] = IF i = 0 THEN 0 ELSE h[i - 1] + a[i]
  <2>1. CASE i = Len(a)
    BY <1>1, <2>1
  <2>2. CASE i # Len(a) /\ i = 0
    BY <1>1, <1>3, <2>2
  <2>3. CASE i # Len(a) /\ i # 0
    <3>1. i \in 1..Len(s) /\ i - 1 \in 0..Len(s) /\ i - 1 # Len(a)
      BY <1>1, <2>3
    <3>2. h[i] = f[i] /\ h[i - 1] = f[i - 1] /\ a[i] = s[i]
      BY <1>1, <2>3, <3>1
    <3>3. f[i] = f[i - 1] + s[i]
      BY <1>3, <3>1
    <3>4. QED
      BY <2>3, <3>2, <3>3
  <2>4. QED
    BY <2>1, <2>2, <2>3
<1>5. Sums(h, a)
  BY <1>2, <1>4 DEF Sums
<1>6. QED
  BY <1>2, <1>5 DEF a

\* The sums of s are those of its tail, each plus its head.
LEMMA SumsCons ==
    ASSUME NEW s \in Seq(Nat), s # <<>>,
           NEW h \in [0..Len(Tail(s)) -> Nat], Sums(h, Tail(s))
    PROVE  LET f == [i \in 0..Len(s) |-> IF i = 0 THEN 0 ELSE s[1] + h[i - 1]]
           IN  f \in [0..Len(s) -> Nat] /\ Sums(f, s)
<1> DEFINE t == Tail(s)
           f == [i \in 0..Len(s) |-> IF i = 0 THEN 0 ELSE s[1] + h[i - 1]]
<1>1. /\ t \in Seq(Nat) /\ Len(s) \in Nat \ {0} /\ Len(t) = Len(s) - 1 /\ s[1] \in Nat
      /\ \A i \in 1..Len(t) : t[i] = s[i + 1]
  OBVIOUS
<1>2. h \in [0..Len(t) -> Nat] /\ \A i \in 0..Len(t) : h[i] = IF i = 0 THEN 0 ELSE h[i - 1] + t[i]
  BY DEF Sums
<1> HIDE DEF t
<1>3. f \in [0..Len(s) -> Nat]
  BY <1>1, <1>2
<1>4. ASSUME NEW i \in 0..Len(s) PROVE f[i] = IF i = 0 THEN 0 ELSE f[i - 1] + s[i]
  <2>1. CASE i = 0
    BY <2>1
  <2>2. CASE i = 1
    <3>1. f[1] = s[1] + h[0] /\ f[0] = 0 /\ h[0] = 0
      BY <1>1, <1>2
    <3>2. QED
      BY <1>1, <2>2, <3>1
  <2>3. CASE i \notin {0, 1}
    <3>1. PICK j \in 1..Len(t) : i = j + 1
      <4>1. i - 1 \in 1..Len(t) /\ i = (i - 1) + 1
        BY <1>1, <2>3
      <4>2. QED
        BY <4>1
    <3>2. j \in 0..Len(t) /\ j - 1 \in 0..Len(t) /\ j \in 0..Len(s) /\ j # 0 /\ i - 1 = j
      BY <1>1, <3>1
    <3>3. f[i] = s[1] + h[j] /\ f[j] = s[1] + h[j - 1]
      BY <2>3, <3>2
    <3>4. h[j] = h[j - 1] + t[j] /\ h[j - 1] \in Nat
      BY <1>2, <3>2
    <3>5. t[j] = s[i] /\ t[j] \in Nat
      <4>1. t[j] = s[i]
        BY <1>1, <3>1
      <4>2. t[j] \in Nat
        BY <1>1, <3>1, ElementOfSeq
      <4>3. QED
        BY <4>1, <4>2
    <3>6. s[1] + (h[j - 1] + t[j]) = (s[1] + h[j - 1]) + t[j]
      <4>1. \A a, b, c \in Nat : a + (b + c) = (a + b) + c
        OBVIOUS
      <4>2. QED
        BY <1>1, <3>4, <3>5, <4>1
    <3>7. QED
      BY <2>3, <3>2, <3>3, <3>4, <3>5, <3>6
  <2>4. QED
    BY <2>1, <2>2, <2>3
<1>5. Sums(f, s)
  BY <1>3, <1>4 DEF Sums
<1>6. QED
  BY <1>3, <1>5

\* There are such sums for every sequence: else for a shortest one there are none,
\* and those of it without its last number give them.
LEMMA SumsExist ==
    ASSUME NEW s \in Seq(Nat) PROVE \E f \in [0..Len(s) -> Nat] : Sums(f, s)
<1> DEFINE Ok(q) == \E f \in [0..Len(q) -> Nat] : Sums(f, q)
           T == {n \in Nat : \E q \in Seq(Nat) : Len(q) = n /\ ~Ok(q)}
<1> SUFFICES ASSUME ~Ok(s) PROVE FALSE
  OBVIOUS
<1>1. T \subseteq Nat /\ T # {}
  <2>1. Len(s) \in T
    BY LenProperties
  <2>2. QED
    BY <2>1
<1>2. PICK x \in T : \A y \in T : x <= y
  <2> HIDE DEF T
  <2> QED BY <1>1, LeastOf
<1>3. PICK q \in Seq(Nat) : Len(q) = x /\ ~Ok(q)
  BY <1>2
<1>4. CASE q = <<>>
  <2> DEFINE z == [i \in 0..0 |-> 0]
  <2>1. Len(q) = 0
    BY <1>4
  <2>2. z \in [0..Len(q) -> Nat] /\ Sums(z, q)
    BY <2>1 DEF Sums
  <2>3. QED
    BY <1>3, <2>2
<1>5. CASE q # <<>>
  <2>1. Tail(q) \in Seq(Nat) /\ Len(Tail(q)) \in Nat /\ Len(Tail(q)) < x
    BY <1>3, <1>5
  <2>2. Ok(Tail(q))
    <3>1. Len(Tail(q)) \notin T
      <4>1. x \in Nat
        BY <1>1, <1>2
      <4> HIDE DEF T
      <4> QED BY <1>2, <2>1, <4>1
    <3> HIDE DEF Ok
    <3> QED BY <2>1, <3>1
  <2>3. PICK h \in [0..Len(Tail(q)) -> Nat] : Sums(h, Tail(q))
    BY <2>2
  <2>4. Ok(q)
    BY <1>5, <2>3, SumsCons
  <2>5. QED
    BY <1>3, <2>4
<1>6. QED
  BY <1>4, <1>5

\* The total of a sequence, and what sending and receiving does to it
LEMMA TotalFacts ==
    /\ Total(<<>>) = 0
    /\ \A s \in Seq(Nat) : Total(s) \in Nat
    /\ \A s \in Seq(Nat), n \in Nat : Total(Append(s, n)) = Total(s) + n
    /\ \A s \in Seq(Nat) : s # <<>> => Total(s) = Head(s) + Total(Tail(s))
<1>1. ASSUME NEW s \in Seq(Nat), NEW f, Sums(f, s) PROVE Total(s) = f[Len(s)]
  BY <1>1, TotalIs, SumsUnique
<1>2. Total(<<>>) = 0
  <2> DEFINE e == <<>>
  <2>e. e \in Seq(Nat) /\ Len(e) = 0
    OBVIOUS
  <2> HIDE DEF e
  <2>1. PICK f : Sums(f, e)
    BY <2>e, SumsExist
  <2>2. Total(e) = f[0]
    BY <1>1, <2>1, <2>e
  <2>3. f[0] = 0
    BY <2>1, <2>e DEF Sums
  <2>4. QED
    BY <2>2, <2>3 DEF e
<1>3. ASSUME NEW s \in Seq(Nat) PROVE Total(s) \in Nat
  <2>1. PICK f \in [0..Len(s) -> Nat] : Sums(f, s)
    BY SumsExist
  <2>2. Total(s) = f[Len(s)] /\ Len(s) \in 0..Len(s)
    BY <1>1, <2>1
  <2>3. QED
    BY <2>2
<1>4. ASSUME NEW s \in Seq(Nat), NEW n \in Nat PROVE Total(Append(s, n)) = Total(s) + n
  <2>1. PICK f \in [0..Len(s) -> Nat] : Sums(f, s)
    BY SumsExist
  <2> DEFINE a == Append(s, n)
             h == [i \in 0..Len(a) |-> IF i = Len(a) THEN f[Len(s)] + n ELSE f[i]]
  <2>2. Sums(h, a)
    BY <2>1, SumsAppend
  <2>3. a \in Seq(Nat) /\ Len(a) \in 0..Len(a)
    OBVIOUS
  <2>4. Total(a) = h[Len(a)]
    <3> HIDE DEF a, h
    <3> QED BY <1>1, <2>2, <2>3
  <2>5. Total(s) = f[Len(s)]
    BY <1>1, <2>1
  <2>6. QED
    BY <2>3, <2>4, <2>5
<1>5. ASSUME NEW s \in Seq(Nat), s # <<>> PROVE Total(s) = Head(s) + Total(Tail(s))
  <2>1. Tail(s) \in Seq(Nat) /\ Len(s) \in Nat \ {0} /\ Head(s) = s[1] /\ Len(Tail(s)) = Len(s) - 1
    BY <1>5
  <2>2. PICK h \in [0..Len(Tail(s)) -> Nat] : Sums(h, Tail(s))
    BY <2>1, SumsExist
  <2> DEFINE f == [i \in 0..Len(s) |-> IF i = 0 THEN 0 ELSE s[1] + h[i - 1]]
  <2>3. Sums(f, s)
    BY <1>5, <2>2, SumsCons
  <2>4. Total(s) = f[Len(s)]
    <3> HIDE DEF f
    <3> QED BY <1>1, <2>3
  <2>5. Total(Tail(s)) = h[Len(Tail(s))]
    BY <1>1, <2>1, <2>2
  <2>6. QED
    BY <2>1, <2>4, <2>5
<1>6. QED
  BY <1>2, <1>3, <1>4, <1>5

\* The numbers which N gives to the members of q
Counted(q, N) == [i \in 1..Len(q) |-> N[q[i]]]

\* The total of what is queued, when something is queued or taken
LEMMA CountedFacts ==
    ASSUME NEW S, NEW N \in [S -> Nat], NEW q \in Seq(S)
    PROVE  /\ Total(Counted(q, N)) \in Nat
           /\ q = <<>> => Total(Counted(q, N)) = 0
           /\ \A e \in S : Total(Counted(Append(q, e), N)) = Total(Counted(q, N)) + N[e]
           /\ q # <<>> => Total(Counted(q, N)) = N[Head(q)] + Total(Counted(Tail(q), N))
<1>1. ASSUME NEW r \in Seq(S) PROVE Counted(r, N) \in Seq(Nat) /\ Len(Counted(r, N)) = Len(r)
  <2>1. Len(r) \in Nat /\ \A i \in 1..Len(r) : r[i] \in S
    BY ElementOfSeq, LenProperties
  <2>2. Counted(r, N) \in [1..Len(r) -> Nat]
    BY <2>1 DEF Counted
  <2>3. QED
    BY <2>1, <2>2, IsASeq DEF Counted
<1>2. Total(Counted(q, N)) \in Nat
  BY <1>1, TotalFacts
<1>3. ASSUME q = <<>> PROVE Total(Counted(q, N)) = 0
  <2>1. Counted(q, N) = <<>>
    BY <1>1, <1>3, EmptySeq
  <2>2. QED
    BY <2>1, TotalFacts
<1>4. ASSUME NEW e \in S PROVE Total(Counted(Append(q, e), N)) = Total(Counted(q, N)) + N[e]
  <2> DEFINE a == Append(q, e)
             b == Append(Counted(q, N), N[e])
  <2>1. /\ a \in Seq(S) /\ Len(a) = Len(q) + 1 /\ a[Len(q) + 1] = e /\ Len(q) \in Nat
        /\ \A i \in 1..Len(q) : a[i] = q[i]
    BY AppendProperties
  <2>2. /\ b \in Seq(Nat) /\ Len(b) = Len(q) + 1 /\ b[Len(q) + 1] = N[e]
        /\ \A i \in 1..Len(q) : b[i] = Counted(q, N)[i]
    BY <1>1, AppendProperties
  <2>3. /\ \A i \in 1..Len(q) : Counted(a, N)[i] = Counted(q, N)[i]
        /\ Counted(a, N)[Len(q) + 1] = N[e]
    BY <2>1 DEF Counted
  <2>4. \A i \in 1..(Len(q) + 1) : i \in 1..Len(q) \/ i = Len(q) + 1
    BY <2>1
  <2>5. Counted(a, N) \in Seq(Nat) /\ Len(Counted(a, N)) = Len(q) + 1
    BY <1>1, <2>1
  <2>6. \A i \in 1..Len(b) : Counted(a, N)[i] = b[i]
    BY <2>2, <2>3, <2>4
  <2> HIDE DEF a, b
  <2>7. Counted(a, N) = b
    BY <2>2, <2>5, <2>6, SeqEqual
  <2>8. Total(b) = Total(Counted(q, N)) + N[e]
    BY <1>1, TotalFacts DEF b
  <2>9. QED
    BY <2>7, <2>8 DEF a
<1>5. ASSUME q # <<>> PROVE Total(Counted(q, N)) = N[Head(q)] + Total(Counted(Tail(q), N))
  <2> DEFINE t == Tail(q)
             c == Counted(q, N)
  <2>1. /\ t \in Seq(S) /\ Len(t) = Len(q) - 1 /\ Head(q) = q[1] /\ Len(q) \in Nat \ {0}
        /\ \A i \in 1..Len(t) : t[i] = q[i + 1]
    BY <1>5
  <2>2. c \in Seq(Nat) /\ Len(c) = Len(q)
    BY <1>1
  <2>3. /\ c # <<>> /\ Tail(c) \in Seq(Nat) /\ Len(Tail(c)) = Len(q) - 1 /\ Head(c) = c[1]
        /\ \A i \in 1..Len(Tail(c)) : Tail(c)[i] = c[i + 1]
    <3> HIDE DEF c
    <3> QED BY <2>1, <2>2
  <2>4. Counted(t, N) \in Seq(Nat) /\ Len(Counted(t, N)) = Len(t)
    BY <1>1, <2>1
  <2>5. \A i \in 1..Len(t) : i + 1 \in 1..Len(q)
    BY <2>1
  <2>6. \A i \in 1..Len(t) : Counted(t, N)[i] = c[i + 1]
    BY <2>1, <2>5 DEF Counted
  <2>7. c[1] = N[Head(q)]
    BY <2>1 DEF Counted
  <2> HIDE DEF t, c
  <2>8. Counted(t, N) = Tail(c)
    <3>1. Len(Counted(t, N)) = Len(Tail(c)) /\ Len(Tail(c)) = Len(t)
      BY <2>1, <2>3, <2>4
    <3>2. \A i \in 1..Len(Counted(t, N)) : Counted(t, N)[i] = Tail(c)[i]
      BY <2>3, <2>4, <2>6, <3>1
    <3>3. QED
      BY <2>3, <2>4, <3>1, <3>2, SeqEqual
  <2>9. Total(c) = Head(c) + Total(Tail(c))
    BY <2>2, <2>3, TotalFacts
  <2>10. QED
    BY <2>3, <2>7, <2>8, <2>9 DEF t, c
<1>6. QED
  BY <1>2, <1>3, <1>4, <1>5

\* Updates and acks. on their way
Update(m) == IF m.cmd = "DATA" THEN 1 ELSE 0
Acked(m) == IF m.cmd = "ACK" THEN m.nack ELSE 0
UpdatesIn(w) == Total([i \in 1..Len(w) |-> Update(w[i])])
AcksIn(w) == Total([i \in 1..Len(w) |-> Acked(w[i])])

\* How the updates on a wire change as messages are appended and taken
LEMMA UpdatesFacts ==
    /\ Updates = UpdatesIn(s2c) /\ Updates' = UpdatesIn(s2c')
    /\ UpdatesIn(<<>>) = 0
    /\ \A q \in Seq(ToClient) :
          /\ UpdatesIn(q) \in Nat
          /\ \A m \in ToClient : UpdatesIn(Append(q, m)) = UpdatesIn(q) + Update(m)
          /\ q # <<>> => UpdatesIn(q) = Update(Head(q)) + UpdatesIn(Tail(q))
<1> DEFINE N == [m \in ToClient |-> Update(m)]
<1>1. N \in [ToClient -> Nat] /\ \A m \in ToClient : N[m] = Update(m)
  BY DEF Update
<1>2. ASSUME NEW q \in Seq(ToClient) PROVE UpdatesIn(q) = Total(Counted(q, N))
  <2>1. \A i \in 1..Len(q) : q[i] \in ToClient
    BY ElementOfSeq
  <2>2. Counted(q, N) = [i \in 1..Len(q) |-> Update(q[i])]
    BY <1>1, <2>1 DEF Counted
  <2>3. QED
    BY <2>2 DEF UpdatesIn
<1> HIDE DEF N
<1>3. Updates = UpdatesIn(s2c) /\ Updates' = UpdatesIn(s2c')
  BY DEF Updates, UpdatesIn, Update
<1>4. UpdatesIn(<<>>) = 0
  <2> DEFINE e == <<>>
  <2>1. e \in Seq(ToClient) /\ e = <<>>
    OBVIOUS
  <2> HIDE DEF e
  <2>2. UpdatesIn(e) = 0
    BY <1>1, <1>2, <2>1, CountedFacts
  <2>3. QED
    BY <2>2 DEF e
<1>5. ASSUME NEW q \in Seq(ToClient)
      PROVE  /\ UpdatesIn(q) \in Nat
             /\ \A m \in ToClient : UpdatesIn(Append(q, m)) = UpdatesIn(q) + Update(m)
             /\ q # <<>> => UpdatesIn(q) = Update(Head(q)) + UpdatesIn(Tail(q))
  <2>1. /\ \A m \in ToClient : Append(q, m) \in Seq(ToClient)
        /\ q # <<>> => Tail(q) \in Seq(ToClient) /\ Head(q) \in ToClient
    OBVIOUS
  <2>2. /\ Total(Counted(q, N)) \in Nat
        /\ \A m \in ToClient : Total(Counted(Append(q, m), N)) = Total(Counted(q, N)) + N[m]
        /\ q # <<>> => Total(Counted(q, N)) = N[Head(q)] + Total(Counted(Tail(q), N))
    BY <1>1, CountedFacts
  <2>3. \A m \in ToClient : UpdatesIn(Append(q, m)) = UpdatesIn(q) + Update(m)
    BY <1>1, <1>2, <2>1, <2>2
  <2>4. q # <<>> => UpdatesIn(q) = Update(Head(q)) + UpdatesIn(Tail(q))
    BY <1>1, <1>2, <2>1, <2>2
  <2>5. QED
    BY <1>2, <2>2, <2>3, <2>4
<1>6. QED
  BY <1>3, <1>4, <1>5

\* The same for what is acknowledged on a wire
LEMMA AcksFacts ==
    /\ AckSum = AcksIn(c2s) /\ AckSum' = AcksIn(c2s')
    /\ AcksIn(<<>>) = 0
    /\ \A q \in Seq(ToServer) :
          /\ AcksIn(q) \in Nat
          /\ \A m \in ToServer : AcksIn(Append(q, m)) = AcksIn(q) + Acked(m)
          /\ q # <<>> => AcksIn(q) = Acked(Head(q)) + AcksIn(Tail(q))
<1> DEFINE N == [m \in ToServer |-> Acked(m)]
<1>1. N \in [ToServer -> Nat] /\ \A m \in ToServer : N[m] = Acked(m)
  <2>1. \A m \in ToServer : Acked(m) \in Nat
    BY Members DEF Acked
  <2>2. QED
    BY <2>1
<1>2. ASSUME NEW q \in Seq(ToServer) PROVE AcksIn(q) = Total(Counted(q, N))
  <2>1. \A i \in 1..Len(q) : q[i] \in ToServer
    BY ElementOfSeq
  <2>2. Counted(q, N) = [i \in 1..Len(q) |-> Acked(q[i])]
    BY <1>1, <2>1 DEF Counted
  <2>3. QED
    BY <2>2 DEF AcksIn
<1> HIDE DEF N
<1>3. AckSum = AcksIn(c2s) /\ AckSum' = AcksIn(c2s')
  BY DEF AckSum, AcksIn, Acked
<1>4. AcksIn(<<>>) = 0
  <2> DEFINE e == <<>>
  <2>1. e \in Seq(ToServer) /\ e = <<>>
    OBVIOUS
  <2> HIDE DEF e
  <2>2. AcksIn(e) = 0
    BY <1>1, <1>2, <2>1, CountedFacts
  <2>3. QED
    BY <2>2 DEF e
<1>5. ASSUME NEW q \in Seq(ToServer)
      PROVE  /\ AcksIn(q) \in Nat
             /\ \A m \in ToServer : AcksIn(Append(q, m)) = AcksIn(q) + Acked(m)
             /\ q # <<>> => AcksIn(q) = Acked(Head(q)) + AcksIn(Tail(q))
  <2>1. /\ \A m \in ToServer : Append(q, m) \in Seq(ToServer)
        /\ q # <<>> => Tail(q) \in Seq(ToServer) /\ Head(q) \in ToServer
    OBVIOUS
  <2>2. /\ Total(Counted(q, N)) \in Nat
        /\ \A m \in ToServer : Total(Counted(Append(q, m), N)) = Total(Counted(q, N)) + N[m]
        /\ q # <<>> => Total(Counted(q, N)) = N[Head(q)] + Total(Counted(Tail(q), N))
    BY <1>1, CountedFacts
  <2>3. \A m \in ToServer : AcksIn(Append(q, m)) = AcksIn(q) + Acked(m)
    BY <1>1, <1>2, <2>1, <2>2
  <2>4. q # <<>> => AcksIn(q) = Acked(Head(q)) + AcksIn(Tail(q))
    BY <1>1, <1>2, <2>1, <2>2
  <2>5. QED
    BY <1>2, <2>2, <2>3, <2>4
<1>6. QED
  BY <1>3, <1>4, <1>5

\* All messages of a sequence are of some kinds.
Only(s, cmds) == \A i \in 1..Len(s) : s[i].cmd \in cmds

\* Kinds of messages survive appending and taking.
LEMMA OnlyFacts ==
    ASSUME NEW S, NEW q \in Seq(S), NEW cmds
    PROVE  /\ q = <<>> => Only(q, cmds)
           /\ \A m \in S : Only(q, cmds) /\ m.cmd \in cmds => Only(Append(q, m), cmds)
           /\ q # <<>> /\ Only(q, cmds) => Head(q).cmd \in cmds /\ Only(Tail(q), cmds)
<1>1. q = <<>> => Only(q, cmds)
  BY DEF Only
<1>2. ASSUME NEW m \in S, Only(q, cmds), m.cmd \in cmds PROVE Only(Append(q, m), cmds)
  <2>1. /\ Len(q) \in Nat /\ Len(Append(q, m)) = Len(q) + 1 /\ Append(q, m)[Len(q) + 1] = m
        /\ \A i \in 1..Len(q) : Append(q, m)[i] = q[i]
    BY AppendProperties
  <2>2. \A i \in 1..Len(Append(q, m)) : i \in 1..Len(q) \/ i = Len(q) + 1
    BY <2>1
  <2>3. QED
    BY <1>2, <2>1, <2>2 DEF Only
<1>3. ASSUME q # <<>>, Only(q, cmds) PROVE Head(q).cmd \in cmds /\ Only(Tail(q), cmds)
  <2>1. /\ Len(q) \in Nat \ {0} /\ Len(Tail(q)) = Len(q) - 1 /\ Head(q) = q[1]
        /\ \A i \in 1..Len(Tail(q)) : Tail(q)[i] = q[i + 1]
    BY <1>3
  <2>2. \A i \in 1..Len(Tail(q)) : i + 1 \in 1..Len(q)
    BY <2>1
  <2>3. 1 \in 1..Len(q)
    BY <2>1
  <2>4. QED
    BY <1>3, <2>1, <2>2, <2>3 DEF Only
<1>4. QED
  BY <1>1, <1>2, <1>3

-----------------------------------------------------------------------------
(* The steps of the server, as far as the window is concerned              *)

NoNull(q) == \A i \in 1..Len(q) : q[i] # Null

\* Queues without the Value() of finish()
LEMMA NoNulls ==
    /\ NoNull(<<>>)
    /\ \A q \in Seq(Posts) :
          /\ \A v \in Posts : NoNull(q) /\ v # Null => NoNull(Append(q, v))
          /\ q # <<>> /\ NoNull(q) => Head(q) # Null /\ NoNull(Tail(q))
<1>1. NoNull(<<>>)
  BY DEF NoNull
<1>2. ASSUME NEW q \in Seq(Posts), NEW v \in Posts, NoNull(q), v # Null PROVE NoNull(Append(q, v))
  <2>1. /\ Len(q) \in Nat /\ Len(Append(q, v)) = Len(q) + 1 /\ Append(q, v)[Len(q) + 1] = v
        /\ \A i \in 1..Len(q) : Append(q, v)[i] = q[i]
    BY AppendProperties
  <2>2. \A i \in 1..Len(Append(q, v)) : i \in 1..Len(q) \/ i = Len(q) + 1
    BY <2>1
  <2>3. QED
    BY <1>2, <2>1, <2>2 DEF NoNull
<1>3. ASSUME NEW q \in Seq(Posts), q # <<>>, NoNull(q) PROVE Head(q) # Null /\ NoNull(Tail(q))
  <2>1. /\ Len(q) \in Nat \ {0} /\ Len(Tail(q)) = Len(q) - 1 /\ Head(q) = q[1]
        /\ \A i \in 1..Len(Tail(q)) : Tail(q)[i] = q[i + 1]
    BY <1>3
  <2>2. \A i \in 1..Len(Tail(q)) : i + 1 \in 1..Len(q)
    BY <2>1
  <2>3. 1 \in 1..Len(q)
    BY <2>1
  <2>4. QED
    BY <1>3, <2>1, <2>2, <2>3 DEF NoNull
<1>4. QED
  BY <1>1, <1>2, <1>3

\* A post is no Value() of finish().
LEMMA PostNoNull ==
    ASSUME ServerTypes, NEW maybe \in BOOLEAN, NEW force \in BOOLEAN, DoPost(maybe, force), NoNull(squeue)
    PROVE  NoNull(squeue')
<1>1. squeue \in Seq(Posts) /\ posted \in 0..MaxPost /\ posted < MaxPost /\ QueueSize \in Nat /\ QueueSize >= 2
  BY QueueSizeAssumption DEF ServerTypes, DoPost
<1>2. squeue' = Queued(squeue, {posted + 1}, maybe, force) /\ {posted + 1} # Null /\ {posted + 1} \in Posts
  BY <1>1, MaxPostAssumption DEF DoPost, Null, Posts
<1>3. CASE squeue' = Append(squeue, {posted + 1})
  BY <1>1, <1>2, <1>3, NoNulls
<1>4. CASE squeue' = squeue
  BY <1>4
<1>5. CASE squeue' = [squeue EXCEPT ![Len(squeue)] = @ \cup {posted + 1}]
  <2>1. /\ Len(squeue') = Len(squeue) /\ Len(squeue) \in Nat
        /\ \A i \in 1..Len(squeue) : squeue'[i] = squeue[i] \/ squeue'[i] = squeue[i] \cup {posted + 1}
    BY <1>1, <1>5
  <2>2. QED
    BY <2>1 DEF NoNull, Null
<1>6. QED
  BY <1>2, <1>3, <1>4, <1>5 DEF Queued

\* The source, as it fills the queue from onHighMark(), puts the end mark in it
\* only when it finishes.
LEMMA PushNoNull ==
    ASSUME ServerTypes, NEW js, Push(js), NoNull(squeue), ~finished'
    PROVE  NoNull(squeue')
<1> DEFINE left == MaxPost - posted
           room == IF HasRoom THEN QueueSize - Len(squeue) ELSE 0
           n == IF left < room THEN left ELSE room
           more == [i \in 1..n |-> {posted + i}]
           fin == posted' = MaxPost /\ ~finished
           rest == IF fin THEN <<Null>> ELSE <<>>
<1>1. squeue \in Seq(Posts) /\ posted \in 0..MaxPost /\ MaxPost \in Nat /\ QueueSize \in Nat /\ Len(squeue) \in Nat
  BY QueueSizeAssumption, MaxPostAssumption DEF ServerTypes
<1>2. n \in Nat
  BY <1>1 DEF HasRoom
<1>3. squeue' = squeue \o more \o rest /\ finished' = (finished \/ fin)
  BY DEF Push
<1>4. rest = <<>>
  BY <1>3
<1>5. more \in Seq(SUBSET Nat) /\ Len(more) = n /\ \A i \in 1..n : more[i] # Null
  <2>1. more \in Seq(SUBSET Nat) /\ Len(more) = n /\ \A i \in 1..n : more[i] = {posted + i}
    <3> HIDE DEF n
    <3> QED BY <1>1, <1>2
  <2>2. QED
    BY <2>1 DEF Null
<1> HIDE DEF n, more, rest
<1>6. squeue \in Seq(SUBSET Nat)
  BY <1>1, PostsAreValues DEF Values
<1>7. squeue' = squeue \o more
  <2>1. squeue \o more \in Seq(SUBSET Nat)
    BY <1>5, <1>6, ConcatProperties
  <2>2. QED
    BY <1>3, <1>4, <2>1, ConcatEmptySeq
<1>8. /\ Len(squeue') = Len(squeue) + n
      /\ \A i \in 1..Len(squeue') : squeue'[i] = IF i <= Len(squeue) THEN squeue[i] ELSE more[i - Len(squeue)]
  <2>1. Len(more) \in Nat /\ Len(squeue') = Len(squeue) + Len(more)
    BY <1>1, <1>2, <1>5, <1>6, <1>7, ConcatProperties
  <2>2. \A i \in 1..(Len(squeue) + Len(more)) :
           squeue'[i] = IF i <= Len(squeue) THEN squeue[i] ELSE more[i - Len(squeue)]
    BY <1>5, <1>6, <1>7, ConcatProperties
  <2>3. QED
    BY <1>5, <2>1, <2>2
<1>9. ASSUME NEW i \in 1..Len(squeue') PROVE squeue'[i] # Null
  <2>1. CASE i <= Len(squeue)
    BY <1>1, <1>8, <2>1 DEF NoNull
  <2>2. CASE ~(i <= Len(squeue))
    <3>1. i - Len(squeue) \in 1..n
      BY <1>1, <1>2, <1>8, <2>2
    <3>2. QED
      BY <1>5, <1>8, <2>2, <3>1
  <2>3. QED
    BY <2>1, <2>2
<1>10. QED
  BY <1>9 DEF NoNull

\* One request taken
TakeStart ==
    /\ c2s # <<>> /\ Head(c2s).cmd = "START" /\ c2s' = Tail(c2s)
    /\ sstate' = IF Gone THEN sstate ELSE "Executing"
    /\ UNCHANGED <<s2c, swindow, finished, squeue>>
TakeAck ==
    /\ c2s # <<>> /\ Head(c2s).cmd = "ACK" /\ c2s' = Tail(c2s)
    /\ swindow' = IF Gone THEN swindow ELSE swindow + Head(c2s).nack
    /\ UNCHANGED <<sstate, s2c, finished, squeue, scheduled>>
TakeDestroy ==
    /\ c2s # <<>> /\ Head(c2s).cmd = "DESTROY" /\ c2s' = Tail(c2s)
    /\ sstate' = IF Gone THEN sstate ELSE "Dead"
    /\ UNCHANGED <<s2c, swindow, finished, squeue>>
\* One reply sent
AnswerInit ==
    /\ sstate = "Creating" /\ sstate' \in {"Idle", "Dead"} /\ ~scheduled'
    /\ \E m \in ToClient : /\ s2c' = Append(s2c, m)
                           /\ m.cmd = "INITERR" \/ (m.cmd = "INIT" /\ sstate' = "Idle")
    /\ UNCHANGED <<c2s, swindow, finished, squeue>>
SendUpdate ==
    /\ sstate = "Executing" /\ sstate' = "Executing"
    /\ ~Pipeline \/ swindow > 0 \/ finished
    /\ \E m \in ToClient : s2c' = Append(s2c, m) /\ m.cmd = "DATA"
    /\ squeue # <<>> /\ squeue' = Tail(squeue)
    /\ swindow' = IF Pipeline /\ swindow > 0 THEN swindow - 1 ELSE swindow
    /\ UNCHANGED <<c2s, finished>>
SendFinish ==
    /\ sstate = "Executing" /\ sstate' = "Dead"
    /\ s2c' = Append(s2c, [cmd |-> "FINISH"])
    /\ squeue # <<>> /\ Head(squeue) = Null /\ squeue' = Tail(squeue)
    /\ UNCHANGED <<c2s, swindow, finished>>
\* Nothing on the wire
Quiet ==
    /\ UNCHANGED <<sstate, c2s, s2c, swindow>>
    /\ sstate = "Idle" => scheduled' = scheduled
    /\ finished => finished'
    /\ ~finished' /\ NoNull(squeue) => NoNull(squeue')

\* The client has never asked to stop: a subscription which is not started
\* has no doReply() dispatched.
Unstopped ==
    /\ Only(c2s, {"INIT", "START", "ACK", "DESTROY"})
    /\ sstate = "Idle" => ~scheduled

\* doReply() of a subscription not stopped answers INIT, sends an update or the end,
\* or sends nothing.
LEMMA DoReplySteps ==
    ASSUME Types, NEW js, NEW bl, NEW typed \in BOOLEAN, NEW error \in BOOLEAN, DoReply(js, bl, typed, error),
           sstate # "Idle", UNCHANGED <<c2s, finished>>
    PROVE  AnswerInit \/ SendUpdate \/ SendFinish \/ Quiet
<1>1. sstate \in {"None", "Creating", "Idle", "Executing", "Dead"} /\ squeue \in Seq(Posts)
  BY DEF Types, ServerTypes
<1>2. CASE ReplyDead(js, bl) \/ ReplyDeferred(js, bl) \/ ReplyNothing(js, bl)
  <2>1. UNCHANGED <<sstate, squeue, swindow, s2c>>
    BY <1>2 DEF ReplyDead, ReplyDeferred, ReplyNothing
  <2>2. QED
    BY <2>1 DEF Quiet, NoNull
<1>3. CASE ReplyInit(js, bl, typed, error)
  <2>1. /\ sstate = "Creating" /\ sstate' = IF typed THEN "Idle" ELSE "Dead"
        /\ s2c' = Append(s2c, [cmd |-> IF error \/ ~typed THEN "INITERR" ELSE "INIT"])
        /\ scheduled' = FALSE /\ UNCHANGED <<squeue, swindow>>
    BY <1>3 DEF ReplyInit, Cleanup, Send
  <2>2. [cmd |-> IF error \/ ~typed THEN "INITERR" ELSE "INIT"] \in ToClient
    BY Messages
  <2>3. QED
    BY <2>1, <2>2 DEF AnswerInit
<1>4. CASE ReplyFinish(js, bl)
  BY <1>4 DEF ReplyFinish, Cleanup, Send, SendFinish
<1>5. CASE ReplyUpdate(js, bl)
  <2>1. [cmd |-> "DATA", val |-> Head(squeue)] \in ToClient
    BY <1>1, <1>5, Messages DEF ReplyUpdate
  <2>2. QED
    BY <1>5, <2>1 DEF ReplyUpdate, Send, SendUpdate, Spent
<1>6. CASE ReplyIdle(js, bl)
  BY <1>6 DEF ReplyIdle
<1>7. QED
  BY <1>2, <1>3, <1>4, <1>5, <1>6 DEF DoReply

\* No doReply() is executed for a subscription which is not started.
LEMMA NoReplyIdle ==
    ASSUME Types, Scheduling, Unstopped, JobReply \/ BacklogStep
    PROVE  sstate # "Idle"
<1> SUFFICES ASSUME sstate = "Idle" PROVE FALSE
  OBVIOUS
<1>1. Booked(jobs, backlog, FALSE)
  BY DEF Scheduling, Unstopped, Types, ServerTypes
<1>2. ~HasReply(jobs) /\ backlog = 0
  BY <1>1 DEF Booked
<1>3. CASE JobReply
  <2>1. jobs # <<>> /\ Head(jobs) = "reply" /\ jobs \in Seq(Jobs)
    BY <1>3 DEF JobReply, NextJob, Types, ServerTypes
  <2>2. 1 \in 1..Len(jobs) /\ jobs[1] = "reply"
    BY <2>1
  <2>3. QED
    BY <1>2, <2>2 DEF HasReply
<1>4. CASE BacklogStep
  BY <1>2, <1>4 DEF BacklogStep, MayDrain
<1>5. QED
  BY <1>3, <1>4

\* The steps of the server
LEMMA ServerFlow ==
    ASSUME Types, Scheduling, Unstopped, Server
    PROVE  \/ HandleInit \/ TakeStart \/ TakeAck \/ TakeDestroy
           \/ AnswerInit \/ SendUpdate \/ SendFinish \/ Quiet
<1>1. /\ ServerTypes /\ hasType \in BOOLEAN /\ msg \in BOOLEAN
      /\ sstate \in {"None", "Creating", "Idle", "Executing", "Dead"} /\ finished \in BOOLEAN
  BY DEF Types, ServerTypes
<1>2. CASE HandleStart
  <2>1. c2s # <<>> /\ Head(c2s).cmd \in {"START", "STOP"} /\ c2s' = Tail(c2s) /\ c2s \in Seq(ToServer)
    BY <1>2 DEF HandleStart, ServerRecv, Types, WireTypes
  <2>2. Head(c2s).cmd = "START"
    BY <2>1, OnlyFacts DEF Unstopped
  <2>3. QED
    BY <1>2, <2>1, <2>2 DEF HandleStart, TakeStart
<1>3. CASE HandleAck
  <2>1. c2s # <<>> /\ Head(c2s).cmd = "ACK" /\ c2s' = Tail(c2s)
    BY <1>3 DEF HandleAck, ServerRecv
  <2>2. QED
    BY <1>3, <2>1 DEF HandleAck, TakeAck, Credited
<1>4. CASE HandleDestroy
  BY <1>4 DEF HandleDestroy, ServerRecv, Cleanup, TakeDestroy
<1>5. CASE JobReply
  BY <1>1, <1>5, DoReplySteps, NoReplyIdle DEF JobReply
<1>6. CASE JobError
  <2>1. CASE ErrorApplies
    BY <1>1, <1>6, <2>1, DoReplySteps DEF JobError, ErrorApplies
  <2>2. CASE ~ErrorApplies
    BY <1>6, <2>2 DEF JobError, Quiet, NoNull
  <2>3. QED
    BY <2>1, <2>2
<1>7. CASE BacklogStep
  BY <1>1, <1>7, DoReplySteps, NoReplyIdle DEF BacklogStep
<1>8. CASE Connect
  BY <1>1, <1>8, DoReplySteps DEF Connect
<1>9. CASE BevWrite \/ BevWriteEnd \/ Congest \/ DropSetup
  <2>1. UNCHANGED <<sstate, c2s, s2c, swindow, squeue, finished, scheduled>>
    BY <1>9 DEF BevWrite, BevWriteEnd, Congest, DropSetup, opvars
  <2>2. QED
    BY <2>1 DEF Quiet, NoNull
<1>10. CASE Post \/ TryPost \/ ForcePost
  <2>1. PICK maybe \in BOOLEAN, force \in BOOLEAN : DoPost(maybe, force)
    BY <1>10 DEF Post, TryPost, ForcePost
  <2>2. UNCHANGED <<sstate, c2s, s2c, swindow, finished>> /\ MaybeReply(jobs, sstate, squeue')
    BY <2>1 DEF DoPost
  <2>3. sstate = "Idle" => scheduled' = scheduled
    BY <2>2 DEF MaybeReply
  <2>4. NoNull(squeue) => NoNull(squeue')
    BY <1>1, <2>1, PostNoNull
  <2>5. QED
    BY <2>2, <2>3, <2>4 DEF Quiet
<1>11. CASE Finish
  <2>1. UNCHANGED <<sstate, c2s, s2c, swindow>> /\ finished' = TRUE /\ MaybeReply(jobs, sstate, squeue')
    BY <1>11 DEF Finish
  <2>2. QED
    BY <2>1 DEF Quiet, MaybeReply
<1>12. ASSUME NEW js, Push(js), UNCHANGED <<sstate, c2s, s2c, swindow>> PROVE Quiet
  <2>1. MaybeReply(js, sstate, squeue') /\ (finished => finished')
    BY <1>12 DEF Push
  <2>2. ~finished' /\ NoNull(squeue) => NoNull(squeue')
    BY <1>1, <1>12, PushNoNull
  <2>3. QED
    BY <1>12, <2>1, <2>2 DEF Quiet, MaybeReply
<1>13. CASE PushInitial
  BY <1>12, <1>13 DEF PushInitial
<1>14. CASE JobHigh
  <2>1. UNCHANGED <<sstate, c2s, s2c, swindow>>
    BY <1>14 DEF JobHigh
  <2>2. CASE finished \/ sstate = "Dead"
    <3>1. UNCHANGED <<finished, squeue, scheduled>>
      BY <1>14, <2>2 DEF JobHigh
    <3>2. QED
      BY <2>1, <3>1 DEF Quiet, NoNull
  <2>3. CASE ~(finished \/ sstate = "Dead")
    BY <1>12, <1>14, <2>1, <2>3 DEF JobHigh
  <2>4. QED
    BY <2>2, <2>3
<1>15. QED
  BY <1>2, <1>3, <1>4, <1>5, <1>6, <1>7, <1>8, <1>9, <1>10, <1>11, <1>13, <1>14
  DEF Server, ServerNext, ServerHandle, ServerJob, ServerWrite, ServerUser

-----------------------------------------------------------------------------
(* The steps of the client, as far as the window is concerned              *)

Attached == cstate \in {"Idle", "Running"}
Take(cmd) == s2c # <<>> /\ Head(s2c).cmd = cmd /\ s2c' = Tail(s2c)
SendMsg(m) == m \in ToServer /\ c2s' = Append(c2s, m)

Opens ==
    /\ cstate = "Connecting" /\ cstate' = "Creating" /\ link = "up"
    /\ SendMsg([cmd |-> "INIT", nack |-> QueueSize])
    /\ Pipeline => cwindow' = QueueSize
    /\ MaskConn => cqueue' = cqueue
    /\ UNCHANGED <<unack, s2c>>
Skips == s2c # <<>> /\ s2c' = Tail(s2c) /\ Stale /\ UNCHANGED <<cstate, c2s, cwindow, cqueue, unack>>
Begins ==
    /\ cstate = "Creating" /\ cstate' = "Running" /\ Take("INIT")
    /\ SendMsg([cmd |-> "START"])
    /\ UNCHANGED <<cwindow, cqueue, unack>>
Fails ==
    /\ cstate = "Creating" /\ cstate' = "Done" /\ Take("INITERR")
    /\ SendMsg([cmd |-> "DESTROY"])
    /\ Len(cqueue') = Len(cqueue) + 1
    /\ UNCHANGED <<cwindow, unack>>
Receives ==
    /\ Attached /\ Take("DATA")
    /\ Pipeline => /\ cwindow' = IF cwindow > 0 THEN cwindow - 1 ELSE cwindow
                   /\ Len(cqueue') = Len(cqueue) + 1
    /\ UNCHANGED <<cstate, c2s, unack>>
Ends == Attached /\ cstate' = "Done" /\ Take("FINISH") /\ UNCHANGED c2s
Resumes ==
    /\ Attached /\ cstate' = "Running"
    /\ SendMsg([cmd |-> "START"])
    /\ UNCHANGED <<s2c, cwindow, cqueue, unack>>
Cancels ==
    /\ cstate' = "Done"
    /\ IF Attached THEN SendMsg([cmd |-> "DESTROY"]) ELSE c2s' = c2s
    /\ UNCHANGED <<s2c, cwindow, cqueue, unack>>
Pops ==
    /\ cqueue # <<>> /\ cqueue' = Tail(cqueue)
    /\ Pipeline => unack' = unack + 1
    /\ UNCHANGED <<cstate, c2s, s2c, cwindow>>
Acknowledges ==
    /\ Attached
    /\ SendMsg([cmd |-> "ACK", nack |-> unack])
    /\ cwindow' = cwindow + unack /\ unack' = 0
    /\ UNCHANGED <<cstate, s2c, cqueue>>
Waits == UNCHANGED <<cstate, c2s, s2c, cwindow, cqueue, unack>>

\* The steps of a client which is not paused
LEMMA ClientFlow ==
    ASSUME MaxPause = 0, Types, Client
    PROVE  /\ UNCHANGED <<sstate, swindow, finished, squeue, scheduled, link>>
           /\ \/ Opens \/ Skips \/ Begins \/ Fails \/ Receives \/ Ends
              \/ Resumes \/ Cancels \/ Pops \/ Acknowledges \/ Waits
<1>1. UNCHANGED <<sstate, swindow, finished, squeue, scheduled, link>>
  BY DEF Client, svars, opvars
<1> SUFFICES \/ Opens \/ Skips \/ Begins \/ Fails \/ Receives \/ Ends
             \/ Resumes \/ Cancels \/ Pops \/ Acknowledges \/ Waits
  BY <1>1
<1>2. cqueue \in Seq(Entries) /\ unack \in Nat /\ paused \in Nat /\ s2c \in Seq(ToClient)
  BY DEF Types, ClientTypes, WireTypes
<1>3. CASE CreateOp
  <2>1. [cmd |-> "INIT", nack |-> QueueSize] \in ToServer
    BY QueueSizeAssumption, Messages
  <2>2. QED
    BY <1>3, <2>1 DEF CreateOp, Opens, SendMsg, NoPush
<1>4. CASE HandleStale
  BY <1>4 DEF HandleStale, Skips, cvars
<1>5. CASE HandleInitReply
  BY <1>5, Messages DEF HandleInitReply, ClientRecv, Begins, Take, SendMsg
<1>6. ASSUME NEW e \in Entries, NEW b, PushAndNotify(<<e>>, b) PROVE Len(cqueue') = Len(cqueue) + 1
  <2>1. cqueue' = cqueue \o <<e>>
    BY <1>6 DEF PushAndNotify
  <2>2. QED
    BY <1>2, <2>1
<1>7. CASE HandleInitError
  <2>1. Len(cqueue') = Len(cqueue) + 1
    BY <1>6, <1>7, Messages DEF HandleInitError
  <2>2. QED
    BY <1>7, <2>1, Messages DEF HandleInitError, ClientRecv, Fails, Take, SendMsg
<1>8. CASE HandleUpdate
  <2>1. Attached /\ Take("DATA") /\ UNCHANGED <<cstate, c2s, unack>>
    BY <1>8 DEF HandleUpdate, ClientRecv, Attached, Take
  <2>2. Pipeline => cwindow' = IF cwindow > 0 THEN cwindow - 1 ELSE cwindow
    BY <1>8 DEF HandleUpdate, Credit
  <2>3. [kind |-> "data", val |-> Head(s2c).val] \in Entries
    BY <1>2, <2>1, Members, Messages DEF Take
  <2>4. Pipeline => Len(cqueue') = Len(cqueue) + 1
    BY <1>6, <1>8, <2>3 DEF HandleUpdate, MustSquash
  <2>5. QED
    BY <2>1, <2>2, <2>4 DEF Receives
<1>9. CASE HandleFinish
  BY <1>9 DEF HandleFinish, ClientRecv, Ends, Attached, Take
<1>10. CASE Pause
  BY <1>2, <1>10 DEF Pause
<1>11. CASE Resume
  BY <1>11, Messages DEF Resume, Resumes, Attached, SendMsg
<1>12. CASE Cancel \/ Release
  BY <1>12, Messages DEF Cancel, Release, CancelEffect, Cancels, Attached, SendMsg
<1>13. CASE Pop
  BY <1>13 DEF Pop, Pops
<1>14. CASE PopEmpty
  BY <1>14 DEF PopEmpty, Waits
<1>15. CASE TickAck
  <2>1. [cmd |-> "ACK", nack |-> unack] \in ToServer
    BY <1>2, Messages
  <2>2. CASE Attached /\ unack > 0
    BY <1>15, <2>1, <2>2 DEF TickAck, Acknowledges, Attached, SendMsg
  <2>3. CASE ~(Attached /\ unack > 0)
    BY <1>15, <2>3 DEF TickAck, Waits, Attached
  <2>4. QED
    BY <2>2, <2>3
<1>16. QED
  BY <1>1, <1>3, <1>4, <1>5, <1>7, <1>8, <1>9, <1>10, <1>11, <1>12, <1>13, <1>14, <1>15
  DEF Client, ClientNext, ClientWorker, ClientUser

-----------------------------------------------------------------------------
(* A subscription which is never paused                                    *)

\* A subscription which is never paused is never stopped.
LEMMA UnstoppedStep ==
    ASSUME MaxPause = 0, Types, Types', Scheduling, Unstopped, [Next]_vars
    PROVE  Unstopped'
<1>1. /\ c2s \in Seq(ToServer) /\ c2s' \in Seq(ToServer) /\ squeue \in Seq(Posts)
      /\ sstate \in {"None", "Creating", "Idle", "Executing", "Dead"}
  BY DEF Types, WireTypes, ServerTypes
<1> DEFINE C == {"INIT", "START", "ACK", "DESTROY"}
<1>2. Only(c2s, C) /\ (sstate = "Idle" => ~scheduled)
  BY DEF Unstopped
<1>3. SUFFICES Only(c2s', C) /\ (sstate' = "Idle" => ~scheduled')
  BY DEF Unstopped, Only
<1> HIDE DEF C
<1>4. CASE Server
  <2>1. CASE HandleInit
    <3>1. c2s # <<>> /\ c2s' = Tail(c2s) /\ sstate' = "Creating"
      BY <2>1 DEF HandleInit, ServerRecv
    <3>2. QED
      BY <1>1, <1>2, <3>1, OnlyFacts
  <2>2. CASE TakeStart \/ TakeAck \/ TakeDestroy
    <3>1. c2s # <<>> /\ c2s' = Tail(c2s)
      BY <2>2 DEF TakeStart, TakeAck, TakeDestroy
    <3>2. Only(c2s', C)
      BY <1>1, <1>2, <3>1, OnlyFacts
    <3>3. sstate' = "Idle" => sstate = "Idle" /\ scheduled' = scheduled
      BY <2>2 DEF TakeStart, TakeAck, TakeDestroy, Gone
    <3>4. QED
      BY <1>2, <3>2, <3>3
  <2>3. CASE AnswerInit \/ SendUpdate \/ SendFinish \/ Quiet
    <3>1. c2s' = c2s
      BY <2>3 DEF AnswerInit, SendUpdate, SendFinish, Quiet
    <3>2. sstate' = "Idle" => ~scheduled'
      BY <1>2, <2>3 DEF AnswerInit, SendUpdate, SendFinish, Quiet
    <3>3. QED
      BY <1>2, <3>1, <3>2
  <2>4. QED
    BY <1>4, <2>1, <2>2, <2>3, ServerFlow
<1>5. CASE Client
  <2>1. UNCHANGED <<sstate, scheduled>>
    BY <1>5, ClientFlow
  <2>2. c2s' = c2s \/ \E m \in ToServer : m.cmd \in C /\ c2s' = Append(c2s, m)
    <3>1. /\ [cmd |-> "INIT", nack |-> QueueSize].cmd \in C /\ [cmd |-> "START"].cmd \in C
          /\ [cmd |-> "DESTROY"].cmd \in C /\ [cmd |-> "ACK", nack |-> unack].cmd \in C
      BY DEF C
    <3>2. QED
      BY <1>5, <3>1, ClientFlow
      DEF Opens, Skips, Begins, Fails, Receives, Ends, Resumes, Cancels, Pops, Acknowledges, Waits, SendMsg
  <2>3. CASE c2s' = c2s
    BY <1>2, <2>1, <2>3
  <2>4. CASE \E m \in ToServer : m.cmd \in C /\ c2s' = Append(c2s, m)
    <3>1. PICK m \in ToServer : m.cmd \in C /\ c2s' = Append(c2s, m)
      BY <2>4
    <3>2. Only(Append(c2s, m), C)
      BY <1>1, <1>2, <3>1, OnlyFacts
    <3>3. QED
      BY <1>2, <2>1, <3>1, <3>2
  <2>5. QED
    BY <2>2, <2>3, <2>4
<1>6. CASE LoseLink \/ Fault
  <2>1. c2s' = <<>> /\ Gone'
    BY <1>6 DEF LoseLink, Fault, Drop, ServerDisconnect, Cleanup, Gone
  <2>2. QED
    BY <1>1, <2>1, OnlyFacts DEF Gone
<1>7. CASE Reconnect \/ UNCHANGED vars
  <2>1. UNCHANGED <<sstate, scheduled, c2s>>
    BY <1>7 DEF Reconnect, vars, svars, opvars
  <2>2. QED
    BY <1>2, <2>1
<1>8. QED
  BY <1>4, <1>5, <1>6, <1>7 DEF Next

\* Where INIT is taken, and what the server does not do once it is
LEMMA InitTaken ==
    ASSUME Types, Protocol, HandleInit
    PROVE  /\ InitSent /\ cstate \in {"Creating", "Done"}
           /\ c2s' = <<>> /\ s2c = <<>> /\ s2c' = <<>> /\ sstate' = "Creating" /\ ~finished' /\ squeue' = <<>>
           /\ Pipeline => swindow' = QueueSize
<1>1. c2s # <<>> /\ Head(c2s).cmd = "INIT" /\ c2s' = Tail(c2s) /\ s2c' = s2c
  BY DEF HandleInit, ServerRecv
<1>2. InitSent
  BY <1>1, InitAlone
<1>3. c2s = <<[cmd |-> "INIT", nack |-> QueueSize]>> /\ s2c = <<>>
  BY <1>2 DEF InitSent
<1>4. ~NoInit(c2s) /\ Tail(c2s) = <<>> /\ Head(c2s).nack = QueueSize
  BY <1>3 DEF NoInit
<1>5. cstate \in {"Creating", "Done"}
  BY <1>3, <1>4 DEF Protocol, Begun, Types, ClientTypes
<1>6. sstate' = "Creating" /\ finished' = FALSE /\ squeue' = <<>> /\ (Pipeline => swindow' = Head(c2s).nack)
  BY DEF HandleInit
<1>7. QED
  BY <1>1, <1>2, <1>3, <1>4, <1>5, <1>6

\* What the server may still send, sends, and will be allowed to send
Outstanding == swindow + Updates + AckSum
\* The client's window is that, from createOp() until finish().
WindowInv ==
    /\ cstate = "Creating" => cwindow = QueueSize
    /\ Going /\ ~finished => cwindow = Outstanding

\* Every step keeps the two ends' windows in agreement.
LEMMA WindowStep ==
    ASSUME Pipeline, MaxPause = 0, Types, Types', Protocol, Joined, Scheduling, Unstopped, WindowInv, [Next]_vars
    PROVE  WindowInv'
<1> DEFINE u == UpdatesIn(s2c)
           v == UpdatesIn(s2c')
           a == AcksIn(c2s)
           b == AcksIn(c2s')
<1>1. /\ c2s \in Seq(ToServer) /\ c2s' \in Seq(ToServer) /\ s2c \in Seq(ToClient) /\ s2c' \in Seq(ToClient)
      /\ swindow \in Nat /\ swindow' \in Nat /\ cwindow \in Nat /\ cwindow' \in Nat /\ unack \in Nat
      /\ finished \in BOOLEAN /\ finished' \in BOOLEAN
      /\ sstate \in {"None", "Creating", "Idle", "Executing", "Dead"}
      /\ cstate \in {"Connecting", "Creating", "Idle", "Running", "Done"}
  BY DEF Types, WireTypes, ServerTypes, ClientTypes
<1>2. u \in Nat /\ v \in Nat /\ a \in Nat /\ b \in Nat
  BY <1>1, UpdatesFacts, AcksFacts
<1>3. Outstanding = swindow + u + a /\ Outstanding' = swindow' + v + b
  BY UpdatesFacts, AcksFacts DEF Outstanding
<1>4. ASSUME NEW m \in ToServer, c2s' = Append(c2s, m) PROVE b = a + Acked(m)
  BY <1>1, <1>4, AcksFacts
<1>5. ASSUME NEW m \in ToClient, s2c' = Append(s2c, m) PROVE v = u + Update(m)
  BY <1>1, <1>5, UpdatesFacts
<1>6. ASSUME c2s # <<>>, c2s' = Tail(c2s) PROVE a = Acked(Head(c2s)) + b
  BY <1>1, <1>6, AcksFacts
<1>7. ASSUME s2c # <<>>, s2c' = Tail(s2c) PROVE u = Update(Head(s2c)) + v
  BY <1>1, <1>7, UpdatesFacts
<1>8. (c2s' = c2s => b = a) /\ (s2c' = s2c => v = u) /\ (c2s' = <<>> => b = 0) /\ (s2c' = <<>> => v = 0)
  BY UpdatesFacts, AcksFacts
<1> HIDE DEF u, v, a, b
<1>9. /\ cstate = "Creating" => cwindow = QueueSize
      /\ Going /\ ~finished => cwindow = swindow + u + a
  BY <1>3 DEF WindowInv
<1>10. SUFFICES /\ cstate' = "Creating" => cwindow' = QueueSize
                /\ Going' /\ ~finished' => cwindow' = swindow' + v + b
  BY <1>3 DEF WindowInv
<1>11. CASE Server
  <2>1. UNCHANGED <<cstate, cwindow>>
    BY <1>11 DEF Server, cvars
  <2>2. CASE HandleInit
    <3>1. cstate \in {"Creating", "Done"} /\ c2s' = <<>> /\ s2c' = <<>> /\ swindow' = QueueSize
      BY <2>2, InitTaken
    <3>2. Going' => cwindow' = QueueSize
      BY <1>9, <2>1, <3>1 DEF Going
    <3>3. v = 0 /\ b = 0 /\ QueueSize \in Nat
      BY <1>8, <3>1, QueueSizeAssumption
    <3>4. QED
      BY <1>9, <2>1, <3>1, <3>2, <3>3
  <2>3. CASE TakeStart \/ TakeDestroy
    <3>1. Acked(Head(c2s)) = 0 /\ c2s # <<>> /\ c2s' = Tail(c2s)
      BY <2>3 DEF TakeStart, TakeDestroy, Acked
    <3>2. a = b
      BY <1>2, <1>6, <3>1
    <3>3. UNCHANGED <<s2c, swindow, finished>> /\ (Going' => Going)
      BY <1>1, <2>1, <2>3 DEF TakeStart, TakeDestroy, Going, Gone
    <3>4. QED
      BY <1>8, <1>9, <2>1, <3>2, <3>3
  <2>4. CASE TakeAck
    <3>1. /\ Acked(Head(c2s)) = Head(c2s).nack /\ c2s # <<>> /\ c2s' = Tail(c2s) /\ Head(c2s) \in ToServer
          /\ Head(c2s).cmd = "ACK"
      BY <1>1, <2>4 DEF TakeAck, Acked
    <3>2. a = Head(c2s).nack + b /\ Head(c2s).nack \in Nat
      BY <1>6, <3>1, Members
    <3>3. UNCHANGED <<s2c, finished, sstate>> /\ (Going' => Going)
      BY <2>1, <2>4 DEF TakeAck, Going
    <3>4. Going => swindow' = swindow + Head(c2s).nack
      BY <2>4 DEF TakeAck, Going, Gone
    <3>5. swindow + u + (Head(c2s).nack + b) = (swindow + Head(c2s).nack) + u + b
      <4>1. PICK n \in Nat : n = Head(c2s).nack
        BY <3>2
      <4>2. swindow + u + (n + b) = (swindow + n) + u + b
        BY <1>1, <1>2
      <4>3. QED
        BY <4>1, <4>2
    <3>6. ASSUME Going', ~finished' PROVE cwindow = swindow + u + a /\ swindow' = swindow + Head(c2s).nack /\ v = u
      BY <1>8, <1>9, <3>3, <3>4, <3>6
    <3>7. QED
      BY <1>9, <2>1, <3>2, <3>5, <3>6
  <2>5. CASE AnswerInit
    <3>1. PICK m \in ToClient : s2c' = Append(s2c, m) /\ m.cmd \in {"INIT", "INITERR"}
      BY <2>5 DEF AnswerInit
    <3>2. v = u
      BY <1>2, <1>5, <3>1 DEF Update
    <3>3. UNCHANGED <<c2s, finished, swindow>> /\ (Going' => Going)
      BY <2>1, <2>5 DEF AnswerInit, Going
    <3>4. QED
      BY <1>8, <1>9, <2>1, <3>2, <3>3
  <2>6. CASE SendUpdate
    <3>1. PICK m \in ToClient : s2c' = Append(s2c, m) /\ m.cmd = "DATA"
      BY <2>6 DEF SendUpdate
    <3>2. v = u + 1
      BY <1>5, <3>1 DEF Update
    <3>3. UNCHANGED <<c2s, finished>> /\ (Going' => Going) /\ (~finished => swindow > 0 /\ swindow' = swindow - 1)
      BY <2>1, <2>6 DEF SendUpdate, Going
    <3>4. ASSUME Going', ~finished'
          PROVE  cwindow = swindow + u + a /\ swindow > 0 /\ swindow' = swindow - 1 /\ b = a
      BY <1>8, <1>9, <3>3, <3>4
    <3>5. swindow > 0 => (swindow - 1) + (u + 1) + a = swindow + u + a
      BY <1>1, <1>2
    <3>6. QED
      BY <1>9, <2>1, <3>2, <3>4, <3>5
  <2>7. CASE SendFinish
    BY <1>9, <2>1, <2>7 DEF SendFinish, Going
  <2>8. CASE Quiet
    <3>1. UNCHANGED <<c2s, s2c, swindow>> /\ (Going' => Going) /\ (finished => finished')
      BY <2>1, <2>8 DEF Quiet, Going
    <3>2. QED
      BY <1>8, <1>9, <2>1, <3>1
  <2>9. QED
    BY <1>11, <2>2, <2>3, <2>4, <2>5, <2>6, <2>7, <2>8, ServerFlow
<1>12. CASE Client
  <2>1. UNCHANGED <<sstate, swindow, finished>>
    BY <1>12, ClientFlow
  <2>2. CASE Opens
    <3>1. ~Going'
      BY <2>1, <2>2 DEF Opens, Protocol, Going, Gone
    <3>2. QED
      BY <2>2, <3>1 DEF Opens
  <2>3. CASE Skips
    <3>1. cstate \notin {"Creating", "Idle", "Running"} /\ cstate' = cstate
      BY <2>3 DEF Skips, Stale, Joined
    <3>2. QED
      BY <3>1 DEF Going
  <2>4. CASE Begins
    <3>1. /\ UNCHANGED cwindow /\ cstate' = "Running" /\ s2c # <<>> /\ s2c' = Tail(s2c) /\ Head(s2c).cmd = "INIT"
          /\ [cmd |-> "START"] \in ToServer /\ c2s' = Append(c2s, [cmd |-> "START"]) /\ (Going' => Going)
      BY <2>1, <2>4 DEF Begins, Take, SendMsg, Going
    <3>2. u = v /\ b = a
      BY <1>2, <1>4, <1>7, <3>1 DEF Update, Acked
    <3>3. QED
      BY <1>9, <2>1, <3>1, <3>2
  <2>5. CASE Fails \/ Ends \/ Cancels
    BY <2>5 DEF Fails, Ends, Cancels, Going
  <2>6. CASE Receives
    <3>1. /\ cstate' = cstate /\ cstate # "Creating" /\ c2s' = c2s /\ s2c # <<>> /\ s2c' = Tail(s2c)
          /\ Head(s2c).cmd = "DATA" /\ (Going' => Going)
          /\ cwindow' = IF cwindow > 0 THEN cwindow - 1 ELSE cwindow
      BY <2>1, <2>6 DEF Receives, Take, Attached, Going
    <3>2. u = 1 + v /\ b = a
      BY <1>7, <1>8, <3>1 DEF Update
    <3>3. QED
      BY <1>1, <1>2, <1>9, <2>1, <3>1, <3>2
  <2>7. CASE Resumes
    <3>1. /\ UNCHANGED <<cwindow, s2c>> /\ cstate' = "Running" /\ (Going' => Going)
          /\ [cmd |-> "START"] \in ToServer /\ c2s' = Append(c2s, [cmd |-> "START"])
      BY <2>1, <2>7 DEF Resumes, SendMsg, Going, Attached
    <3>2. b = a
      BY <1>2, <1>4, <3>1 DEF Acked
    <3>3. QED
      BY <1>8, <1>9, <2>1, <3>1, <3>2
  <2>8. CASE Acknowledges
    <3>1. /\ UNCHANGED <<cstate, s2c>> /\ cstate # "Creating" /\ (Going' => Going) /\ cwindow' = cwindow + unack
          /\ [cmd |-> "ACK", nack |-> unack] \in ToServer /\ c2s' = Append(c2s, [cmd |-> "ACK", nack |-> unack])
      BY <2>1, <2>8 DEF Acknowledges, SendMsg, Going, Attached
    <3>2. b = a + unack
      BY <1>4, <3>1 DEF Acked
    <3>3. QED
      BY <1>1, <1>2, <1>8, <1>9, <2>1, <3>1, <3>2
  <2>9. CASE Pops \/ Waits
    <3>1. UNCHANGED <<cstate, c2s, s2c, cwindow>> /\ (Going' => Going)
      BY <2>1, <2>9 DEF Pops, Waits, Going
    <3>2. QED
      BY <1>8, <1>9, <2>1, <3>1
  <2>10. QED
    BY <1>12, <2>2, <2>3, <2>4, <2>5, <2>6, <2>7, <2>8, <2>9, ClientFlow
<1>13. CASE LoseLink \/ Fault
  <2>1. /\ Gone' /\ cwindow' = cwindow /\ cstate' \in {cstate, "Connecting"}
    BY <1>13 DEF LoseLink, Fault, Drop, ServerDisconnect, ClientDisconnect, Cleanup, Gone
  <2>2. ~Going'
    BY <2>1 DEF Gone, Going
  <2>3. QED
    BY <1>9, <2>1, <2>2
<1>14. CASE Reconnect \/ UNCHANGED vars
  <2>1. UNCHANGED <<cstate, sstate, swindow, cwindow, finished, c2s, s2c>>
    BY <1>14 DEF Reconnect, vars, svars, opvars, cvars
  <2>2. QED
    BY <1>8, <1>9, <2>1 DEF Going
<1>15. QED
  BY <1>11, <1>12, <1>13, <1>14 DEF Next

\* The reply to INIT
Replied == Len(s2c) = 1 /\ (s2c[1].cmd = "INITERR" \/ (s2c[1].cmd = "INIT" /\ sstate = "Idle"))
\* What is on the wire, as the client goes on
Turns ==
    /\ cstate = "Creating" => s2c = <<>> \/ Replied
    /\ Attached => /\ Only(s2c, {"DATA", "FINISH"}) /\ Only(c2s, {"START", "ACK"})
                   /\ finished \/ sstate \in {"Idle", "Executing"}
    /\ finished \/ (Only(s2c, {"INIT", "INITERR", "DATA"}) /\ NoNull(squeue))

\* Every step keeps to the order of messages on the wires.
LEMMA TurnsStep ==
    ASSUME MaxPause = 0, Types, Types', Protocol, Protocol', Joined, Scheduling, Unstopped, Turns, [Next]_vars
    PROVE  Turns'
<1> DEFINE D == {"DATA", "FINISH"}
           R == {"START", "ACK"}
           F == {"INIT", "INITERR", "DATA"}
<1>1. /\ c2s \in Seq(ToServer) /\ c2s' \in Seq(ToServer) /\ s2c \in Seq(ToClient) /\ s2c' \in Seq(ToClient)
      /\ squeue \in Seq(Posts) /\ finished \in BOOLEAN /\ finished' \in BOOLEAN
      /\ sstate \in {"None", "Creating", "Idle", "Executing", "Dead"}
      /\ cstate \in {"Connecting", "Creating", "Idle", "Running", "Done"}
      /\ cstate' \in {"Connecting", "Creating", "Idle", "Running", "Done"}
  BY DEF Types, WireTypes, ServerTypes, ClientTypes
<1>2. /\ cstate = "Creating" => s2c = <<>> \/ Replied
      /\ Attached => Only(s2c, D) /\ Only(c2s, R) /\ (finished \/ sstate \in {"Idle", "Executing"})
      /\ finished \/ (Only(s2c, F) /\ NoNull(squeue))
  BY DEF Turns
<1>3. SUFFICES /\ cstate' = "Creating" => s2c' = <<>> \/ Replied'
               /\ Attached' => Only(s2c', D) /\ Only(c2s', R) /\ (finished' \/ sstate' \in {"Idle", "Executing"})
               /\ finished' \/ (Only(s2c', F) /\ NoNull(squeue'))
  BY DEF Turns, Only, NoNull
<1>4. Only(<<>>, D) /\ Only(<<>>, R) /\ Only(<<>>, F) /\ NoNull(<<>>)
  BY DEF Only, NoNull
<1>5. "DATA" \in D /\ "FINISH" \in D /\ "DATA" \in F /\ "INIT" \in F /\ "INITERR" \in F /\ "START" \in R /\ "ACK" \in R
      /\ "DESTROY" \notin R
  OBVIOUS
<1> HIDE DEF D, R, F
<1>6. ASSUME s2c # <<>>, s2c' = Tail(s2c)
      PROVE  (Only(s2c, D) => Only(s2c', D)) /\ (Only(s2c, F) => Only(s2c', F))
  BY <1>1, <1>6, OnlyFacts
<1>7. CASE Server
  <2>1. UNCHANGED <<cstate, link>>
    BY <1>7 DEF Server, cvars
  <2>2. Attached' <=> Attached
    BY <2>1 DEF Attached
  <2>3. CASE HandleInit
    <3>1. cstate \in {"Creating", "Done"} /\ s2c' = <<>> /\ squeue' = <<>>
      BY <2>3, InitTaken
    <3>2. QED
      BY <1>4, <2>1, <2>2, <3>1 DEF Attached
  <2>4. CASE TakeStart \/ TakeAck \/ TakeDestroy
    <3>1. c2s # <<>> /\ Head(c2s).cmd # "INIT" /\ c2s' = Tail(c2s) /\ UNCHANGED <<s2c, finished, squeue>>
      BY <2>4 DEF TakeStart, TakeAck, TakeDestroy
    <3>2. cstate # "Creating"
      BY <3>1 DEF Protocol, InitSent, InitHeld, Answered
    <3>3. ASSUME Attached PROVE Only(c2s', R) /\ (finished \/ sstate' \in {"Idle", "Executing"})
      <4>1. Only(c2s', R) /\ Head(c2s).cmd \in R
        BY <1>1, <1>2, <3>1, <3>3, OnlyFacts
      <4>2. CASE TakeDestroy
        BY <1>5, <4>1, <4>2 DEF TakeDestroy
      <4>3. CASE TakeStart \/ TakeAck
        BY <1>2, <3>3, <4>1, <4>3 DEF TakeStart, TakeAck, Gone
      <4>4. QED
        BY <2>4, <4>2, <4>3
    <3>4. QED
      BY <1>2, <2>1, <2>2, <3>1, <3>2, <3>3
  <2>5. CASE AnswerInit
    <3>1. PICK m \in ToClient : s2c' = Append(s2c, m) /\ (m.cmd = "INITERR" \/ (m.cmd = "INIT" /\ sstate' = "Idle"))
      BY <2>5 DEF AnswerInit
    <3>2. sstate = "Creating" /\ UNCHANGED <<c2s, finished, squeue>>
      BY <2>5 DEF AnswerInit
    <3>3. ~Attached
      BY <3>2 DEF Attached, Protocol, Begun
    <3>4. ASSUME cstate = "Creating" PROVE Replied'
      <4>1. s2c = <<>>
        BY <3>2, <3>4 DEF Protocol, InitSent, InitHeld, Answered, Gone
      <4>2. Len(s2c') = 1 /\ s2c'[1] = m
        BY <3>1, <4>1
      <4>3. QED
        BY <3>1, <4>2 DEF Replied
    <3>5. Only(s2c, F) => Only(s2c', F)
      BY <1>1, <1>5, <3>1, OnlyFacts
    <3>6. QED
      BY <1>2, <2>1, <2>2, <3>2, <3>3, <3>4, <3>5
  <2>6. CASE SendUpdate
    <3>1. PICK m \in ToClient : s2c' = Append(s2c, m) /\ m.cmd = "DATA"
      BY <2>6 DEF SendUpdate
    <3>2. sstate = "Executing" /\ sstate' = "Executing" /\ UNCHANGED <<c2s, finished>> /\ squeue # <<>> /\ squeue' = Tail(squeue)
      BY <2>6 DEF SendUpdate
    <3>3. cstate # "Creating"
      BY <3>2 DEF Protocol, InitSent, InitHeld, Answered, Gone
    <3>4. (Only(s2c, F) => Only(s2c', F)) /\ (Only(s2c, D) => Only(s2c', D))
      BY <1>1, <1>5, <3>1, OnlyFacts
    <3>5. NoNull(squeue) => NoNull(squeue')
      BY <1>1, <3>2, NoNulls
    <3>6. QED
      BY <1>2, <2>1, <2>2, <3>2, <3>3, <3>4, <3>5
  <2>7. CASE SendFinish
    <3>1. /\ sstate = "Executing" /\ UNCHANGED <<c2s, finished>> /\ squeue # <<>> /\ Head(squeue) = Null
          /\ s2c' = Append(s2c, [cmd |-> "FINISH"]) /\ [cmd |-> "FINISH"] \in ToClient /\ [cmd |-> "FINISH"].cmd = "FINISH"
      BY <2>7, Messages DEF SendFinish
    <3>2. finished
      BY <1>1, <1>2, <3>1, NoNulls
    <3>3. cstate # "Creating"
      BY <3>1 DEF Protocol, InitSent, InitHeld, Answered, Gone
    <3>4. Only(s2c, D) => Only(s2c', D)
      BY <1>1, <1>5, <3>1, OnlyFacts
    <3>5. QED
      BY <1>2, <2>1, <2>2, <3>1, <3>2, <3>3, <3>4
  <2>8. CASE Quiet
    <3>1. /\ UNCHANGED <<sstate, c2s, s2c>> /\ (finished => finished')
          /\ (~finished' /\ NoNull(squeue) => NoNull(squeue'))
      BY <2>8 DEF Quiet
    <3>2. Replied' <=> Replied
      BY <3>1 DEF Replied
    <3>3. QED
      BY <1>2, <2>1, <2>2, <3>1, <3>2
  <2>9. QED
    BY <1>7, <2>3, <2>4, <2>5, <2>6, <2>7, <2>8, ServerFlow
<1>8. CASE Client
  <2>1. UNCHANGED <<sstate, finished, squeue, link>>
    BY <1>8, ClientFlow
  <2>2. ASSUME s2c' = s2c PROVE Replied' <=> Replied
    BY <2>1, <2>2 DEF Replied
  <2>3. CASE Opens
    <3>1. s2c' = <<>> /\ cstate' = "Creating"
      BY <2>3 DEF Opens, Protocol
    <3>2. QED
      BY <1>2, <1>4, <2>1, <3>1 DEF Attached
  <2>4. CASE Skips
    <3>1. cstate' = cstate /\ ~Attached /\ cstate # "Creating" /\ s2c # <<>> /\ s2c' = Tail(s2c)
      BY <2>4 DEF Skips, Stale, Joined, Attached
    <3>2. QED
      BY <1>2, <1>6, <2>1, <3>1 DEF Attached
  <2>5. CASE Begins
    <3>1. /\ cstate = "Creating" /\ cstate' = "Running" /\ s2c # <<>> /\ Head(s2c).cmd = "INIT" /\ s2c' = Tail(s2c)
          /\ c2s' = Append(c2s, [cmd |-> "START"]) /\ [cmd |-> "START"] \in ToServer /\ [cmd |-> "START"].cmd = "START"
      BY <2>5 DEF Begins, Take, SendMsg
    <3>2. Replied /\ c2s = <<>>
      BY <1>2, <3>1 DEF Protocol, InitSent, InitHeld, Answered
    <3>3. sstate = "Idle" /\ s2c' = <<>>
      BY <1>1, <3>1, <3>2 DEF Replied
    <3>4. Only(c2s', R)
      BY <1>1, <1>4, <1>5, <3>1, <3>2, OnlyFacts
    <3>5. QED
      BY <1>2, <1>4, <2>1, <3>1, <3>3, <3>4
  <2>6. CASE Fails \/ Ends
    <3>1. cstate' = "Done" /\ s2c # <<>> /\ s2c' = Tail(s2c)
      BY <2>6 DEF Fails, Ends, Take
    <3>2. QED
      BY <1>2, <1>6, <2>1, <3>1 DEF Attached
  <2>7. CASE Receives
    <3>1. Attached /\ cstate' = cstate /\ s2c # <<>> /\ s2c' = Tail(s2c) /\ c2s' = c2s
      BY <2>7 DEF Receives, Take
    <3>2. QED
      BY <1>2, <1>6, <2>1, <3>1 DEF Attached
  <2>8. CASE Resumes \/ Acknowledges
    <3>1. PICK m \in ToServer : c2s' = Append(c2s, m) /\ m.cmd \in R
      BY <1>5, <2>8 DEF Resumes, Acknowledges, SendMsg
    <3>2. Attached /\ Attached' /\ s2c' = s2c
      BY <2>8 DEF Resumes, Acknowledges, Attached
    <3>3. Only(c2s', R)
      BY <1>1, <1>2, <3>1, <3>2, OnlyFacts
    <3>4. QED
      BY <1>2, <2>1, <3>2, <3>3 DEF Attached
  <2>9. CASE Cancels
    <3>1. cstate' = "Done" /\ s2c' = s2c
      BY <2>9 DEF Cancels
    <3>2. QED
      BY <1>2, <2>1, <3>1 DEF Attached
  <2>10. CASE Pops \/ Waits
    <3>1. UNCHANGED <<cstate, c2s, s2c>>
      BY <2>10 DEF Pops, Waits
    <3>2. QED
      BY <1>2, <2>1, <2>2, <3>1 DEF Attached
  <2>11. QED
    BY <1>8, <2>3, <2>4, <2>5, <2>6, <2>7, <2>8, <2>9, <2>10, ClientFlow
<1>9. CASE LoseLink \/ Fault
  <2>1. link' = "down" /\ s2c' = <<>> /\ UNCHANGED <<finished, squeue>>
    BY <1>9 DEF LoseLink, Fault, Drop, ServerDisconnect
  <2>2. cstate' \in {"Connecting", "Done"}
    BY <2>1 DEF Protocol
  <2>3. QED
    BY <1>2, <1>4, <2>1, <2>2 DEF Attached
<1>10. CASE Reconnect \/ UNCHANGED vars
  <2>1. UNCHANGED <<cstate, sstate, finished, squeue, c2s, s2c>>
    BY <1>10 DEF Reconnect, vars, svars, opvars, cvars
  <2>2. QED
    BY <1>2, <2>1 DEF Attached, Replied
<1>11. QED
  BY <1>7, <1>8, <1>9, <1>10 DEF Next

-----------------------------------------------------------------------------
(* One connection, and nothing but updates in the client's queue           *)

\* No update is sent, and none will be: nothing starts the subscription.
Silent ==
    /\ Updates = 0 /\ Len(cqueue) <= 1
    /\ sstate \in {"None", "Idle", "Dead"} /\ Only(c2s, {"DESTROY"})
\* What the client has, has popped, and may be sent, is queueSize.
BoundInv ==
    /\ cstate \in {"Connecting", "Creating"} \/ InitSent => cqueue = <<>> /\ unack = 0
    /\ cstate \in {"Creating", "Idle", "Running"} /\ ~finished => Len(cqueue) + unack + cwindow = QueueSize
    /\ cstate = "Done" => InitSent \/ finished \/ Silent \/ Len(cqueue) + unack + Outstanding <= QueueSize

\* The reply to INIT is no update.
LEMMA NoUpdates ==
    ASSUME Types, Turns, cstate = "Creating"
    PROVE  UpdatesIn(s2c) = 0 /\ (s2c # <<>> => Tail(s2c) = <<>> /\ Update(Head(s2c)) = 0)
<1>1. s2c \in Seq(ToClient)
  BY DEF Types, WireTypes
<1>2. CASE s2c = <<>>
  BY <1>2, UpdatesFacts
<1>3. CASE Replied
  <2>1. s2c # <<>> /\ Head(s2c) = s2c[1] /\ Tail(s2c) \in Seq(ToClient) /\ Len(Tail(s2c)) = 0
    <3>1. Len(s2c) = 1
      BY <1>3 DEF Replied
    <3>2. s2c # <<>>
      BY <1>1, <3>1, EmptySeq
    <3>3. Head(s2c) = s2c[1] /\ Tail(s2c) \in Seq(ToClient) /\ Len(Tail(s2c)) = Len(s2c) - 1
      BY <1>1, <3>2, HeadTailProperties
    <3>4. QED
      BY <3>1, <3>2, <3>3
  <2>2. Update(Head(s2c)) = 0
    BY <1>3, <2>1 DEF Replied, Update
  <2>3. Tail(s2c) = <<>>
    BY <2>1, EmptySeq
  <2>4. UpdatesIn(s2c) = Update(Head(s2c)) + UpdatesIn(Tail(s2c)) /\ UpdatesIn(<<>>) = 0
    BY <1>1, <2>1, UpdatesFacts
  <2>5. UpdatesIn(s2c) = 0 + 0
    BY <2>2, <2>3, <2>4
  <2>6. QED
    BY <2>2, <2>3, <2>5
<1>4. QED
  BY <1>2, <1>3 DEF Turns

\* The client disconnects a server which sends something else only if the
\* subscription has been cancelled.
LEMMA FaultDone ==
    ASSUME Types, Protocol, Turns, Fault
    PROVE  cstate = "Done"
<1>1. /\ s2c \in Seq(ToClient) /\ s2c # <<>> /\ Unexpected(Head(s2c))
      /\ cstate \in {"Connecting", "Creating", "Idle", "Running", "Done"}
  BY DEF Types, WireTypes, ClientTypes, Fault
<1>2. cstate # "Connecting"
  BY <1>1 DEF Protocol
<1>3. CASE cstate = "Creating"
  <2>1. Replied /\ Head(s2c) = s2c[1]
    BY <1>1, <1>3 DEF Turns
  <2>2. QED
    BY <1>1, <1>3, <2>1 DEF Replied, Unexpected
<1>4. CASE Attached
  <2>1. Only(s2c, {"DATA", "FINISH"})
    BY <1>4 DEF Turns
  <2>2. Head(s2c).cmd \in {"DATA", "FINISH"}
    BY <1>1, <2>1, OnlyFacts
  <2>3. QED
    BY <1>1, <1>4, <2>2 DEF Attached, Unexpected
<1>5. QED
  BY <1>1, <1>2, <1>3, <1>4 DEF Attached

\* Every step keeps what the client has, has popped and may be sent within queueSize.
LEMMA BoundStep ==
    ASSUME Pipeline, MaxPause = 0, MaxLoss = 0, MaskConn, Types, Types', Protocol, Protocol', Joined, Scheduling, Unstopped,
           Turns, WindowInv, BoundInv, [Next]_vars
    PROVE  BoundInv'
<1> DEFINE u == UpdatesIn(s2c)
           v == UpdatesIn(s2c')
           a == AcksIn(c2s)
           b == AcksIn(c2s')
           k == Len(cqueue) + unack
           l == Len(cqueue') + unack'
           X == {"DESTROY"}
           Sil == u = 0 /\ Len(cqueue) <= 1 /\ sstate \in {"None", "Idle", "Dead"} /\ Only(c2s, X)
           Sil2 == v = 0 /\ Len(cqueue') <= 1 /\ sstate' \in {"None", "Idle", "Dead"} /\ Only(c2s', X)
<1>1. /\ c2s \in Seq(ToServer) /\ c2s' \in Seq(ToServer) /\ s2c \in Seq(ToClient) /\ s2c' \in Seq(ToClient)
      /\ cqueue \in Seq(Entries) /\ cqueue' \in Seq(Entries) /\ unack' \in Nat
      /\ swindow \in Nat /\ swindow' \in Nat /\ cwindow \in Nat /\ cwindow' \in Nat /\ unack \in Nat
      /\ finished \in BOOLEAN /\ finished' \in BOOLEAN
      /\ sstate \in {"None", "Creating", "Idle", "Executing", "Dead"}
      /\ cstate \in {"Connecting", "Creating", "Idle", "Running", "Done"}
      /\ Len(cqueue) \in Nat /\ Len(cqueue') \in Nat /\ losses = 0 /\ QueueSize \in Nat /\ QueueSize >= 2
  BY LenProperties, QueueSizeAssumption DEF Types, WireTypes, ServerTypes, ClientTypes
<1>2. u \in Nat /\ v \in Nat /\ a \in Nat /\ b \in Nat /\ k \in Nat /\ l \in Nat
  BY <1>1, UpdatesFacts, AcksFacts
<1>3. Outstanding = swindow + u + a /\ Outstanding' = swindow' + v + b
  BY UpdatesFacts, AcksFacts DEF Outstanding
<1>4. ASSUME NEW m \in ToServer, c2s' = Append(c2s, m) PROVE b = a + Acked(m)
  BY <1>1, <1>4, AcksFacts
<1>5. ASSUME NEW m \in ToClient, s2c' = Append(s2c, m) PROVE v = u + Update(m)
  BY <1>1, <1>5, UpdatesFacts
<1>6. ASSUME c2s # <<>>, c2s' = Tail(c2s) PROVE a = Acked(Head(c2s)) + b
  BY <1>1, <1>6, AcksFacts
<1>7. ASSUME s2c # <<>>, s2c' = Tail(s2c) PROVE u = Update(Head(s2c)) + v
  BY <1>1, <1>7, UpdatesFacts
<1>8. (c2s' = c2s => b = a) /\ (s2c' = s2c => v = u) /\ (c2s' = <<>> => b = 0) /\ (s2c' = <<>> => v = 0)
  BY UpdatesFacts, AcksFacts
<1>9. (Silent <=> Sil) /\ (Silent' <=> Sil2)
  BY UpdatesFacts DEF Silent, Only
<1>10. /\ cstate \in {"Connecting", "Creating"} \/ InitSent => cqueue = <<>> /\ unack = 0
       /\ cstate \in {"Creating", "Idle", "Running"} /\ ~finished => k + cwindow = QueueSize
       /\ cstate = "Done" => InitSent \/ finished \/ Sil \/ k + (swindow + u + a) <= QueueSize
  BY <1>3, <1>9 DEF BoundInv
<1>11. /\ cstate = "Creating" => cwindow = QueueSize
       /\ Going /\ ~finished => cwindow = swindow + u + a
  BY <1>3 DEF WindowInv
<1>12. SUFFICES /\ cstate' \in {"Connecting", "Creating"} \/ InitSent' => cqueue' = <<>> /\ unack' = 0
                /\ cstate' \in {"Creating", "Idle", "Running"} /\ ~finished' => l + cwindow' = QueueSize
                /\ cstate' = "Done" => InitSent' \/ finished' \/ Sil2 \/ l + (swindow' + v + b) <= QueueSize
  BY <1>3, <1>9 DEF BoundInv
<1>13. cqueue = <<>> /\ unack = 0 => k = 0
  BY <1>1
<1>14. s2c = <<>> => u = 0
  BY UpdatesFacts
<1>15. cstate = "Creating" => u = 0
  BY NoUpdates
<1>16. Only(<<>>, X)
  BY DEF Only
<1>17. InitSent => c2s # <<>> /\ s2c = <<>> /\ Gone /\ Head(c2s).cmd = "INIT" /\ link = "up"
  BY DEF InitSent
<1>18. /\ UNCHANGED <<cqueue, unack>> => l = k
       /\ UNCHANGED <<cqueue, sstate, c2s, s2c>> /\ Sil => Sil2
  BY <1>8
<1>19. Sil => u = 0 /\ Len(cqueue) <= 1 /\ sstate \in {"None", "Idle", "Dead"} /\ Only(c2s, X)
  OBVIOUS
<1>20. v = 0 /\ Len(cqueue') <= 1 /\ sstate' \in {"None", "Idle", "Dead"} /\ Only(c2s', X) => Sil2
  OBVIOUS
<1>21. ASSUME NEW x \in Nat, NEW y \in Nat, x <= y, k + y <= QueueSize PROVE k + x <= QueueSize
  BY <1>1, <1>2, <1>21
<1> HIDE DEF u, v, a, b, k, l, Sil, Sil2
<1>22. CASE Server
  <2>1. UNCHANGED <<cstate, cwindow, cqueue, unack, link>>
    BY <1>22 DEF Server, cvars
  <2>2. l = k
    BY <1>18, <2>1
  <2>3. CASE HandleInit
    <3>1. /\ InitSent /\ cstate \in {"Creating", "Done"} /\ c2s' = <<>> /\ s2c' = <<>> /\ swindow' = QueueSize
      BY <2>3, InitTaken
    <3>2. k = 0 /\ v = 0 /\ b = 0
      BY <1>8, <1>10, <1>13, <3>1
    <3>3. ~InitSent'
      BY <3>1 DEF InitSent
    <3>4. 0 + (QueueSize + 0 + 0) <= QueueSize /\ 0 + QueueSize = QueueSize
      BY <1>1
    <3>5. QED
      BY <1>10, <1>11, <2>1, <2>2, <3>1, <3>2, <3>3, <3>4
  <2>4. CASE ~HandleInit
    <3>1. /\ \/ c2s' = c2s
             \/ c2s # <<>> /\ Head(c2s).cmd # "INIT" /\ c2s' = Tail(c2s)
          /\ finished => finished'
      BY <1>22, <2>4, ServerFlow
      DEF TakeStart, TakeAck, TakeDestroy, AnswerInit, SendUpdate, SendFinish, Quiet
    <3>2. InitSent' => InitSent
      BY <3>1, InitStays
    <3>3. ASSUME InitSent PROVE InitSent'
      <4>1. Quiet
        BY <1>17, <1>22, <2>4, <3>3, ServerFlow
        DEF TakeStart, TakeAck, TakeDestroy, AnswerInit, SendUpdate, SendFinish, Gone
      <4>2. QED
        BY <2>1, <3>3, <4>1 DEF Quiet, InitSent, Gone
    <3>4. ASSUME Sil, ~InitSent PROVE Sil2
      <4>1. u = 0 /\ Len(cqueue) <= 1 /\ sstate \in {"None", "Idle", "Dead"} /\ Only(c2s, X)
        BY <1>19, <3>4
      <4>2. CASE Quiet
        BY <1>18, <2>1, <3>4, <4>2 DEF Quiet
      <4>3. CASE TakeStart \/ TakeAck \/ TakeDestroy
        <5>1. c2s # <<>> /\ c2s' = Tail(c2s) /\ s2c' = s2c
          BY <4>3 DEF TakeStart, TakeAck, TakeDestroy
        <5>2. Head(c2s).cmd \in X /\ Only(c2s', X)
          BY <1>1, <4>1, <5>1, OnlyFacts
        <5>3. sstate' \in {"None", "Idle", "Dead"}
          BY <4>1, <4>3, <5>2 DEF TakeStart, TakeAck, TakeDestroy, Gone
        <5>4. QED
          BY <1>8, <1>20, <2>1, <4>1, <5>1, <5>2, <5>3
      <4>4. ~(AnswerInit \/ SendUpdate \/ SendFinish)
        BY <4>1 DEF AnswerInit, SendUpdate, SendFinish
      <4>5. QED
        BY <1>22, <2>4, <4>2, <4>3, <4>4, ServerFlow
    <3>5. ASSUME ~finished' PROVE swindow' + v + b <= swindow + u + a
      <4>1. CASE TakeStart \/ TakeDestroy
        <5>1. c2s # <<>> /\ c2s' = Tail(c2s) /\ UNCHANGED <<s2c, swindow>>
          BY <4>1 DEF TakeStart, TakeDestroy
        <5>2. a = b
          BY <1>2, <1>6, <4>1, <5>1 DEF TakeStart, TakeDestroy, Acked
        <5>3. QED
          BY <1>1, <1>2, <1>8, <5>1, <5>2
      <4>2. CASE TakeAck
        <5>1. /\ c2s # <<>> /\ c2s' = Tail(c2s) /\ s2c' = s2c /\ Head(c2s) \in ToServer /\ Head(c2s).cmd = "ACK"
              /\ swindow' \in {swindow, swindow + Head(c2s).nack}
          BY <1>1, <4>2 DEF TakeAck
        <5>2. PICK n \in Nat : n = Head(c2s).nack
          BY <5>1, Members
        <5>3. a = n + b /\ v = u /\ swindow' \in {swindow, swindow + n}
          BY <1>6, <1>8, <5>1, <5>2 DEF Acked
        <5>4. CASE swindow' = swindow
          BY <1>1, <1>2, <5>3, <5>4
        <5>5. CASE swindow' = swindow + n
          BY <1>1, <1>2, <5>3, <5>5
        <5>6. QED
          BY <5>3, <5>4, <5>5
      <4>3. CASE AnswerInit
        <5>1. PICK m \in ToClient : s2c' = Append(s2c, m) /\ m.cmd # "DATA"
          BY <4>3 DEF AnswerInit
        <5>2. v = u /\ b = a /\ swindow' = swindow
          BY <1>2, <1>5, <1>8, <4>3, <5>1 DEF AnswerInit, Update
        <5>3. QED
          BY <1>1, <1>2, <5>2
      <4>4. CASE SendUpdate
        <5>1. PICK m \in ToClient : s2c' = Append(s2c, m) /\ m.cmd = "DATA"
          BY <4>4 DEF SendUpdate
        <5>2. v = u + 1 /\ b = a
          BY <1>5, <1>8, <4>4, <5>1 DEF SendUpdate, Update
        <5>3. swindow > 0 /\ swindow' = swindow - 1
          BY <3>5, <4>4 DEF SendUpdate
        <5>4. QED
          BY <1>1, <1>2, <5>2, <5>3
      <4>5. CASE SendFinish
        <5>1. s2c' = Append(s2c, [cmd |-> "FINISH"]) /\ [cmd |-> "FINISH"] \in ToClient
          BY <4>5, Messages DEF SendFinish
        <5>2. v = u /\ b = a /\ swindow' = swindow
          BY <1>2, <1>5, <1>8, <4>5, <5>1 DEF SendFinish, Update
        <5>3. QED
          BY <1>1, <1>2, <5>2
      <4>6. CASE Quiet
        <5>1. v = u /\ b = a /\ swindow' = swindow
          BY <1>8, <4>6 DEF Quiet
        <5>2. QED
          BY <1>1, <1>2, <5>1
      <4>7. QED
        BY <1>22, <2>4, <4>1, <4>2, <4>3, <4>4, <4>5, <4>6, ServerFlow
    <3>6. ASSUME cstate = "Done", ~InitSent, ~finished', ~Sil2 PROVE k + (swindow' + v + b) <= QueueSize
      <4>1. k + (swindow + u + a) <= QueueSize
        BY <1>10, <3>1, <3>4, <3>6
      <4>2. swindow' + v + b \in Nat /\ swindow + u + a \in Nat
        <5>1. \A x, y, z \in Nat : x + y + z \in Nat
          OBVIOUS
        <5>2. QED
          BY <1>1, <1>2, <5>1
      <4>3. QED
        BY <1>21, <3>5, <3>6, <4>1, <4>2
    <3>7. cstate' = "Done" => InitSent' \/ finished' \/ Sil2 \/ l + (swindow' + v + b) <= QueueSize
      BY <2>1, <2>2, <3>3, <3>6
    <3>8. QED
      BY <1>10, <2>1, <2>2, <3>1, <3>2, <3>7
  <2>5. QED
    BY <2>3, <2>4
<1>23. CASE Client
  <2>1. UNCHANGED <<sstate, swindow, finished, link>>
    BY <1>23, ClientFlow
  <2>2. ASSUME c2s' = c2s \/ \E m \in ToServer : m.cmd # "INIT" /\ c2s' = Append(c2s, m), s2c # <<>>
        PROVE  ~InitSent'
    BY <1>17, <2>2, InitStays
  <2>3. CASE Opens
    <3>1. /\ cqueue = <<>> /\ unack = 0 /\ cqueue' = cqueue /\ unack' = unack /\ cwindow' = QueueSize /\ cstate' = "Creating"
      BY <1>10, <2>3 DEF Opens
    <3>2. l = 0 /\ 0 + QueueSize = QueueSize
      BY <1>1, <1>13, <1>18, <3>1
    <3>3. QED
      BY <3>1, <3>2
  <2>4. CASE Skips
    <3>1. /\ cstate \notin {"Creating", "Idle", "Running"} /\ s2c # <<>> /\ s2c' = Tail(s2c)
          /\ UNCHANGED <<cstate, c2s, cqueue, unack>>
      BY <2>4 DEF Skips, Stale, Joined
    <3>2. cstate = "Done"
      BY <1>1, <3>1 DEF Protocol
    <3>3. ~InitSent /\ ~InitSent' /\ l = k /\ b = a
      BY <1>8, <1>17, <1>18, <2>2, <3>1
    <3>4. v <= u
      <4>1. u = Update(Head(s2c)) + v /\ Update(Head(s2c)) \in {0, 1}
        BY <1>7, <3>1 DEF Update
      <4>2. QED
        BY <1>2, <4>1
    <3>5. Sil => Sil2
      BY <1>2, <1>19, <1>20, <2>1, <3>1, <3>4
    <3>6. swindow + v + a <= swindow + u + a /\ swindow + v + a \in Nat /\ swindow + u + a \in Nat
      BY <1>1, <1>2, <3>4
    <3>7. k + (swindow + u + a) <= QueueSize => k + (swindow + v + a) <= QueueSize
      BY <1>21, <3>6
    <3>8. QED
      BY <1>10, <2>1, <3>1, <3>2, <3>3, <3>5, <3>7
  <2>5. CASE Begins
    <3>1. /\ cstate = "Creating" /\ cstate' = "Running" /\ s2c # <<>> /\ UNCHANGED <<cwindow, cqueue, unack>>
          /\ c2s' = Append(c2s, [cmd |-> "START"]) /\ [cmd |-> "START"] \in ToServer /\ [cmd |-> "START"].cmd # "INIT"
      BY <2>5 DEF Begins, Take, SendMsg
    <3>2. ~InitSent' /\ l = k
      BY <1>18, <2>2, <3>1
    <3>3. QED
      BY <1>10, <2>1, <3>1, <3>2
  <2>6. CASE Fails
    <3>1. /\ cstate = "Creating" /\ cstate' = "Done" /\ s2c # <<>> /\ s2c' = Tail(s2c) /\ Len(cqueue') = Len(cqueue) + 1
          /\ c2s' = Append(c2s, [cmd |-> "DESTROY"]) /\ [cmd |-> "DESTROY"] \in ToServer
          /\ [cmd |-> "DESTROY"].cmd # "INIT" /\ [cmd |-> "DESTROY"].cmd \in X
      BY <2>6 DEF Fails, Take, SendMsg
    <3>2. ~InitSent'
      BY <2>2, <3>1
    <3>3. Answered
      BY <3>1 DEF Protocol, InitSent, InitHeld
    <3>4. v = 0
      BY <1>8, <3>1, NoUpdates
    <3>5. Len(cqueue') <= 1
      BY <1>10, <3>1
    <3>6. c2s = <<>> /\ sstate' \in {"None", "Idle", "Dead"}
      BY <2>1, <3>3 DEF Answered
    <3>7. Only(c2s', X)
      BY <1>1, <1>16, <3>1, <3>6, OnlyFacts
    <3>8. QED
      BY <1>20, <3>1, <3>2, <3>4, <3>5, <3>6, <3>7
  <2>7. CASE Receives
    <3>1. /\ Attached /\ cstate' = cstate /\ c2s' = c2s /\ s2c # <<>> /\ s2c' = Tail(s2c) /\ Head(s2c).cmd = "DATA"
          /\ cwindow' = IF cwindow > 0 THEN cwindow - 1 ELSE cwindow
          /\ Len(cqueue') = Len(cqueue) + 1 /\ unack' = unack
      BY <2>7 DEF Receives, Take
    <3>2. ~InitSent' /\ cstate \in {"Idle", "Running"}
      BY <2>2, <3>1 DEF Attached
    <3>3. u = 1 + v
      BY <1>7, <3>1 DEF Update
    <3>4. ASSUME ~finished PROVE l + cwindow' = QueueSize
      <4>1. Going
        BY <3>1, <3>2, <3>4 DEF Turns, Going
      <4>2. cwindow = swindow + (1 + v) + a /\ k + cwindow = QueueSize
        BY <1>10, <1>11, <3>2, <3>3, <3>4, <4>1
      <4>3. cwindow > 0
        BY <1>1, <1>2, <4>2
      <4>4. l = k + 1
        BY <1>1, <3>1 DEF k, l
      <4>5. cwindow' = cwindow - 1
        BY <3>1, <4>3
      <4>6. QED
        BY <1>1, <1>2, <4>2, <4>4, <4>5
    <3>5. QED
      BY <2>1, <3>1, <3>2, <3>4
  <2>8. CASE Ends
    <3>1. cstate' = "Done" /\ c2s' = c2s /\ s2c # <<>> /\ Head(s2c).cmd = "FINISH"
      BY <2>8 DEF Ends, Take
    <3>2. finished
      <4>1. ~Only(s2c, {"INIT", "INITERR", "DATA"})
        BY <1>1, <3>1, OnlyFacts
      <4>2. QED
        BY <4>1 DEF Turns
    <3>3. QED
      BY <2>1, <2>2, <3>1, <3>2
  <2>9. CASE Resumes
    <3>1. /\ cstate \in {"Idle", "Running"} /\ cstate' = "Running" /\ UNCHANGED <<cwindow, cqueue, unack>>
          /\ c2s' = Append(c2s, [cmd |-> "START"]) /\ [cmd |-> "START"] \in ToServer /\ [cmd |-> "START"].cmd # "INIT"
      BY <2>9 DEF Resumes, SendMsg, Attached
    <3>2. (InitSent' => InitSent) /\ l = k
      BY <1>18, <3>1, InitStays
    <3>3. QED
      BY <1>10, <2>1, <3>1, <3>2
  <2>10. CASE Acknowledges
    <3>1. /\ cstate \in {"Idle", "Running"} /\ cstate' = cstate /\ cqueue' = cqueue /\ unack' = 0 /\ cwindow' = cwindow + unack
          /\ c2s' = Append(c2s, [cmd |-> "ACK", nack |-> unack]) /\ [cmd |-> "ACK", nack |-> unack] \in ToServer
          /\ [cmd |-> "ACK", nack |-> unack].cmd # "INIT"
      BY <2>10 DEF Acknowledges, SendMsg, Attached
    <3>2. InitSent' => InitSent
      BY <3>1, InitStays
    <3>3. l + cwindow' = k + cwindow
      BY <1>1, <3>1 DEF k, l
    <3>4. QED
      BY <1>10, <2>1, <3>1, <3>2, <3>3
  <2>11. CASE Pops
    <3>1. cqueue # <<>> /\ cqueue' = Tail(cqueue) /\ unack' = unack + 1 /\ UNCHANGED <<cstate, c2s, s2c, cwindow>>
      BY <2>11 DEF Pops
    <3>2. ~InitSent /\ ~InitSent' /\ cstate \notin {"Connecting", "Creating"}
      BY <1>10, <3>1, InitStays
    <3>3. Len(cqueue') = Len(cqueue) - 1 /\ Len(cqueue) > 0
      BY <1>1, <3>1
    <3>4. l = k
      BY <1>1, <3>1, <3>3 DEF k, l
    <3>5. v = u /\ b = a
      BY <1>8, <3>1
    <3>6. Sil => Sil2
      <4>1. Len(cqueue) <= 1 => Len(cqueue') <= 1
        BY <1>1, <3>3
      <4>2. QED
        BY <1>19, <1>20, <2>1, <3>1, <3>5, <4>1
    <3>7. QED
      BY <1>10, <2>1, <3>1, <3>2, <3>4, <3>5, <3>6
  <2>12. CASE Waits
    <3>1. UNCHANGED <<cstate, c2s, s2c, cwindow, cqueue, unack>>
      BY <2>12 DEF Waits
    <3>2. (InitSent' <=> InitSent) /\ l = k /\ v = u /\ b = a /\ (Sil => Sil2)
      BY <1>8, <1>18, <2>1, <3>1 DEF InitSent, Gone
    <3>3. QED
      BY <1>10, <2>1, <3>1, <3>2
  <2>13. CASE Cancels
    <3>1. cstate' = "Done" /\ UNCHANGED <<s2c, cwindow, cqueue, unack>> /\ l = k /\ v = u
      BY <1>8, <1>18, <2>13 DEF Cancels
    <3>2. CASE Attached
      <4>1. /\ c2s' = Append(c2s, [cmd |-> "DESTROY"]) /\ [cmd |-> "DESTROY"] \in ToServer
            /\ [cmd |-> "DESTROY"].cmd # "INIT" /\ cstate \in {"Idle", "Running"}
        BY <2>13, <3>2 DEF Cancels, SendMsg, Attached
      <4>2. b = a
        BY <1>2, <1>4, <4>1 DEF Acked
      <4>3. InitSent' => InitSent
        BY <4>1, InitStays
      <4>4. ASSUME ~finished PROVE k + (swindow + u + a) <= QueueSize
        <5>1. Going
          BY <3>2, <4>1, <4>4 DEF Turns, Going
        <5>2. k + (swindow + u + a) = QueueSize
          BY <1>10, <1>11, <4>1, <4>4, <5>1
        <5>3. QED
          BY <1>1, <5>2
      <4>5. QED
        BY <1>10, <2>1, <3>1, <4>2, <4>3, <4>4
    <3>3. CASE ~Attached
      <4>1. c2s' = c2s
        BY <2>13, <3>3 DEF Cancels
      <4>2. (InitSent' <=> InitSent) /\ b = a /\ (Sil => Sil2)
        BY <1>8, <1>18, <2>1, <3>1, <4>1 DEF InitSent, Gone
      <4>3. CASE cstate = "Connecting" \/ (cstate = "Creating" /\ Answered)
        <5>1. c2s = <<>> /\ u = 0 /\ sstate \in {"None", "Idle", "Dead"}
          BY <1>14, <1>15, <4>3 DEF Protocol, Answered, Gone
        <5>2. Len(cqueue) <= 1
          BY <1>10, <4>3
        <5>3. Sil2
          BY <1>16, <1>20, <2>1, <3>1, <4>1, <5>1, <5>2
        <5>4. QED
          BY <1>10, <3>1, <4>2, <5>3
      <4>4. CASE cstate = "Creating" /\ InitHeld
        <5>1. Going
          BY <4>4 DEF Going, InitHeld
        <5>2. ~finished => k + (swindow + u + a) = QueueSize
          BY <1>10, <1>11, <4>4, <5>1
        <5>3. ~finished => k + (swindow + u + a) <= QueueSize
          BY <1>1, <5>2
        <5>4. QED
          BY <1>10, <2>1, <3>1, <4>2, <5>3
      <4>5. CASE cstate = "Creating" /\ InitSent
        BY <1>10, <3>1, <4>2, <4>5
      <4>6. CASE cstate = "Done"
        BY <1>10, <2>1, <3>1, <4>2, <4>6
      <4>7. QED
        BY <1>1, <3>3, <4>3, <4>4, <4>5, <4>6 DEF Protocol, Attached
    <3>4. QED
      BY <3>2, <3>3
  <2>14. QED
    BY <1>23, <2>3, <2>4, <2>5, <2>6, <2>7, <2>8, <2>9, <2>10, <2>11, <2>12, <2>13, ClientFlow
<1>24. CASE LoseLink
  BY <1>1, <1>24 DEF LoseLink
<1>25. CASE Fault
  <2>1. cstate = "Done" /\ s2c # <<>>
    BY <1>25, FaultDone DEF Fault
  <2>2. /\ c2s' = <<>> /\ s2c' = <<>> /\ UNCHANGED <<swindow, finished, unack>> /\ Gone'
    BY <1>25 DEF Fault, Drop, ServerDisconnect, ClientDisconnect, Cleanup, Gone
  <2>3. cstate' = "Done" /\ cqueue' = cqueue
    BY <1>25, <2>1 DEF Fault, Drop, ClientDisconnect, NoPush
  <2>4. ~InitSent /\ ~InitSent' /\ v = 0 /\ b = 0 /\ l = k
    BY <1>8, <1>17, <1>18, <2>1, <2>2, <2>3 DEF InitSent
  <2>5. Sil => Sil2
    BY <1>16, <1>19, <1>20, <2>2, <2>3, <2>4 DEF Gone
  <2>6. k + (swindow + u + a) <= QueueSize => k + (swindow + 0 + 0) <= QueueSize
    BY <1>1, <1>2
  <2>7. QED
    BY <1>10, <2>1, <2>2, <2>3, <2>4, <2>5, <2>6
<1>26. CASE Reconnect
  <2>1. UNCHANGED <<cstate, sstate, swindow, cwindow, finished, cqueue, unack, c2s, s2c>> /\ link = "down"
    BY <1>26 DEF Reconnect, svars, opvars, cvars
  <2>2. c2s = <<>>
    BY <2>1 DEF Protocol
  <2>3. ~InitSent /\ ~InitSent' /\ v = u /\ b = a /\ l = k /\ (Sil => Sil2)
    BY <1>8, <1>17, <1>18, <2>1, <2>2 DEF InitSent
  <2>4. QED
    BY <1>10, <2>1, <2>3
<1>27. CASE UNCHANGED vars
  <2>1. UNCHANGED <<cstate, sstate, swindow, cwindow, finished, cqueue, unack, c2s, s2c, link>>
    BY <1>27 DEF vars, svars, opvars, cvars
  <2>2. (InitSent' <=> InitSent) /\ v = u /\ b = a /\ l = k /\ (Sil => Sil2)
    BY <1>8, <1>18, <2>1 DEF InitSent, Gone
  <2>3. QED
    BY <1>10, <2>1, <2>2
<1>28. QED
  BY <1>22, <1>23, <1>24, <1>25, <1>26, <1>27 DEF Next

-----------------------------------------------------------------------------
\* Both ends agree on the window of a subscription which is never paused: what the
\* client takes it to be is what the server may send, has sent, or is told of by
\* the acks. on their way.  Losing the connection and cancelling do no harm to it.
THEOREM WindowAlwaysAgreed ==
    ASSUME MaxPause = 0, "Creating" \notin CongestStates
    PROVE  Spec => []WindowAgreed
<1>1. CASE Pipeline
  <2>1. Init => Unstopped /\ WindowInv
    BY DEF Init, InitOp, InitClient, Unstopped, WindowInv, Only, Going
  <2>2. Types /\ Types' /\ Protocol /\ DeliveryInv /\ Scheduling /\ Unstopped /\ WindowInv /\ [Next]_vars
        => Unstopped' /\ WindowInv'
    <3> SUFFICES ASSUME Types, Types', Protocol, Joined, Scheduling, Unstopped, WindowInv, [Next]_vars
                 PROVE  Unstopped' /\ WindowInv'
      BY DEF DeliveryInv
    <3>1. Unstopped'
      BY UnstoppedStep
    <3>2. WindowInv'
      BY <1>1, WindowStep
    <3>3. QED
      BY <3>1, <3>2
  <2>3. Unstopped /\ WindowInv => WindowAgreed
    BY DEF WindowInv, WindowAgreed, Live, Going, Outstanding
  <2>4. QED
    BY <2>1, <2>2, <2>3, TypesInvariant, ProtocolInvariant, DeliveryInvariant, SchedulingInvariant, PTL DEF Spec
<1>2. CASE ~Pipeline
  <2>1. WindowAgreed
    BY <1>2 DEF WindowAgreed
  <2>2. QED
    BY <2>1, PTL
<1>3. QED
  BY <1>1, <1>2

\* A pipelined subscription is flow controlled: both ends agree on the window, and
\* the client never holds more than queueSize entries, the updates on their way to
\* it included.  For one connection, without pause() and without the Connected
\* event, which pop() acknowledges like an update (clientmon.cpp:180).
THEOREM FlowAlwaysControlled ==
    ASSUME MaxPause = 0, MaxLoss = 0, MaskConn, "Creating" \notin CongestStates
    PROVE  Spec => []FlowControlled
<1>1. CASE Pipeline
  <2> DEFINE Inv == Unstopped /\ WindowInv /\ Turns /\ BoundInv
  <2>1. Init => Inv
    BY DEF Init, InitOp, InitClient, Unstopped, WindowInv, Turns, BoundInv, Only, NoNull, Going, Attached, InitSent
  <2>2. Types /\ Types' /\ Protocol /\ Protocol' /\ DeliveryInv /\ Scheduling /\ Inv /\ [Next]_vars
        => Inv'
    <3> SUFFICES ASSUME Types, Types', Protocol, Protocol', Joined, Scheduling,
                        Unstopped, WindowInv, Turns, BoundInv, [Next]_vars
                 PROVE  Unstopped' /\ WindowInv' /\ Turns' /\ BoundInv'
      BY DEF DeliveryInv
    <3>1. Unstopped'
      BY UnstoppedStep
    <3>2. WindowInv'
      BY <1>1, WindowStep
    <3>3. Turns'
      BY TurnsStep
    <3>4. BoundInv'
      BY <1>1, BoundStep
    <3>5. QED
      BY <3>1, <3>2, <3>3, <3>4
  <2>3. Types /\ Protocol /\ Inv => FlowControlled
    <3> SUFFICES ASSUME Types, Protocol, Inv PROVE FlowControlled
      OBVIOUS
    <3>1. WindowAgreed
      BY <1>1 DEF WindowInv, WindowAgreed, Live, Going, Outstanding
    <3>2. /\ Updates \in Nat /\ AckSum \in Nat /\ swindow \in Nat /\ unack \in Nat /\ Len(cqueue) \in Nat
          /\ QueueSize \in Nat /\ QueueSize >= 2
          /\ cstate \in {"Connecting", "Creating", "Idle", "Running", "Done"}
          /\ c2s \in Seq(ToServer) /\ s2c \in Seq(ToClient)
      <4>1. c2s \in Seq(ToServer) /\ s2c \in Seq(ToClient) /\ cqueue \in Seq(Entries)
        BY DEF Types, WireTypes, ClientTypes
      <4>2. Updates \in Nat /\ AckSum \in Nat
        BY <4>1, UpdatesFacts, AcksFacts
      <4>3. QED
        BY <4>1, <4>2, QueueSizeAssumption, LenProperties DEF Types, ServerTypes, ClientTypes
    <3>3. ASSUME ~finished PROVE Len(cqueue) + Updates <= QueueSize
      <4>1. CASE cstate \in {"Connecting", "Creating"} \/ InitSent
        <5>1. Len(cqueue) = 0
          BY <4>1 DEF BoundInv
        <5>2. Updates = 0
          <6>1. s2c = <<>> \/ cstate = "Creating"
            BY <4>1 DEF Protocol, InitSent
          <6>2. QED
            BY <6>1, UpdatesFacts, NoUpdates
        <5>3. QED
          BY <3>2, <5>1, <5>2
      <4>2. CASE Attached
        <5>1. Going
          BY <3>3, <4>2 DEF Turns, Going, Attached
        <5>2. Len(cqueue) + unack + (swindow + Updates + AckSum) = QueueSize
          BY <3>3, <4>2, <5>1 DEF BoundInv, WindowInv, Outstanding, Attached
        <5>3. QED
          BY <3>2, <5>2
      <4>3. CASE cstate = "Done" /\ ~InitSent
        <5>1. Silent \/ Len(cqueue) + unack + (swindow + Updates + AckSum) <= QueueSize
          BY <3>3, <4>3 DEF BoundInv, Outstanding
        <5>2. CASE Silent
          BY <3>2, <5>2 DEF Silent
        <5>3. CASE Len(cqueue) + unack + (swindow + Updates + AckSum) <= QueueSize
          BY <3>2, <5>3
        <5>4. QED
          BY <5>1, <5>2, <5>3
      <4>4. QED
        BY <3>2, <4>1, <4>2, <4>3 DEF Attached
    <3>4. QED
      BY <3>1, <3>3 DEF FlowControlled, ClientBounded
  <2>4. QED
    BY <2>1, <2>2, <2>3, TypesInvariant, ProtocolInvariant, DeliveryInvariant, SchedulingInvariant, PTL DEF Spec
<1>2. CASE ~Pipeline
  <2>1. FlowControlled
    BY <1>2 DEF FlowControlled, WindowAgreed, ClientBounded
  <2>2. QED
    BY <2>1, PTL
<1>3. QED
  BY <1>1, <1>2

=============================================================================
