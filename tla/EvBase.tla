------------------------------- MODULE EvBase -------------------------------
(***************************************************************************)
(* The worker thread of evhelper.cpp: evbase::_dispatch(), evbase::_call(),*)
(* Pvt::doWork() and Pvt::join().  Every handler of the client and of the  *)
(* server runs on such a worker, so "on the worker" is the only            *)
(* synchronisation most of the library has.                                *)
(*                                                                         *)
(* _dispatch() and _call() append to "actions" under the lock, and then,   *)
(* after the lock is released, only the thread which found the queue empty *)
(* arms the "dowork" event.                                                *)
(***************************************************************************)
EXTENDS Naturals, Sequences

CONSTANTS Threads,      \* threads holding a handle to the loop
          Worker,       \* the loop's own thread, may dispatch() to itself
          Nobody,       \* no thread: the nullptr "notify" of dispatch()ed Work
          MaxWork       \* bound: number of functions handed over

ASSUME WorkerAssumption == Worker \in Threads
ASSUME NobodyAssumption == Nobody \notin Threads
ASSUME MaxWorkAssumption == MaxWork \in Nat

VARIABLES actions,      \* Pvt::actions, queue of Work
          running,      \* Pvt::running
          dowork,       \* the dowork event is pending in the loop
          loop,         \* where the worker is: see LoopStates
          todo,         \* doWork()'s local queue
          pc,           \* where each thread is in _dispatch() or _call()
          signal,       \* per thread epicsEvent "done"
          mine,         \* per thread, serial of the Work call() waits for
          joiner,       \* progress of join()
          accepted, executed   \* serial of the last Work queued and executed

vars == <<actions, running, dowork, loop, todo, pc, signal, mine, joiner,
          accepted, executed>>

\* "poll": in event_base_loop(); "take": doWork() entered, lock not yet
\* taken; "run": in doWork()'s for loop; "exited": event_base_loop() returned.
LoopStates == {"poll", "take", "run", "exited"}
PCs == {"idle", "armDispatch", "armCall", "wait"}
Arming(t) == pc[t] \in {"armDispatch", "armCall"}

\* struct Work.  notify: the thread to signal, or Nobody for dispatch().
Work == [serial : Nat, notify : Threads \cup {Nobody}]

Init ==
    /\ actions = <<>> /\ todo = <<>>
    /\ running = TRUE
    /\ dowork = FALSE
    /\ loop = "poll"
    /\ pc = [t \in Threads |-> "idle"]
    /\ signal = [t \in Threads |-> FALSE]
    /\ mine = [t \in Threads |-> 0]
    /\ joiner = "none"
    /\ accepted = 0 /\ executed = 0

\* The worker thread runs user code only inside of a function being executed.
MayCall(t) ==
    /\ pc[t] = "idle"
    /\ t = Worker => loop = "run" /\ todo # <<>>

\* The part of _dispatch() and _call() under the lock.  Work is refused
\* (exception, or false from try*()) once join() has cleared "running".
Queue(notify) ==
    /\ running
    /\ accepted < MaxWork
    /\ actions' = Append(actions, [serial |-> accepted + 1, notify |-> notify])
    /\ accepted' = accepted + 1

\* Mutant: the test for an empty queue is made after the append.
DispatchUnarmed(t) ==
    /\ MayCall(t)
    /\ Queue(Nobody)
    /\ UNCHANGED <<running, dowork, loop, todo, pc, signal, mine, joiner, executed>>

Dispatch(t) ==
    /\ MayCall(t)
    /\ Queue(Nobody)
    /\ pc' = [pc EXCEPT ![t] = IF actions = <<>> THEN "armDispatch" ELSE "idle"]
    /\ UNCHANGED <<running, dowork, loop, todo, signal, mine, joiner, executed>>

\* On the worker itself call() executes its function directly.
Call(t) ==
    /\ MayCall(t) /\ t # Worker
    /\ Queue(t)
    /\ mine' = [mine EXCEPT ![t] = accepted + 1]
    /\ pc' = [pc EXCEPT ![t] = IF actions = <<>> THEN "armCall" ELSE "wait"]
    /\ UNCHANGED <<running, dowork, loop, todo, signal, joiner, executed>>

\* event_add(dowork), after the lock is released
Arm(t) ==
    /\ Arming(t)
    /\ dowork' = TRUE
    /\ pc' = [pc EXCEPT ![t] = IF pc[t] = "armCall" THEN "wait" ELSE "idle"]
    /\ UNCHANGED <<actions, running, loop, todo, signal, mine, joiner,
                   accepted, executed>>

\* Mutant: the signal is left set for the next call().
ReturnSignalled(t) ==
    /\ pc[t] = "wait" /\ signal[t]
    /\ pc' = [pc EXCEPT ![t] = "idle"]
    /\ mine' = [mine EXCEPT ![t] = 0]
    /\ UNCHANGED <<actions, running, dowork, loop, todo, signal, joiner,
                   accepted, executed>>

\* done->wait() returns
Return(t) ==
    /\ pc[t] = "wait" /\ signal[t]
    /\ pc' = [pc EXCEPT ![t] = "idle"]
    /\ signal' = [signal EXCEPT ![t] = FALSE]
    /\ mine' = [mine EXCEPT ![t] = 0]
    /\ UNCHANGED <<actions, running, dowork, loop, todo, joiner,
                   accepted, executed>>

\* The loop runs the dowork event, which is not persistent.
Fire ==
    /\ loop = "poll" /\ dowork
    /\ dowork' = FALSE
    /\ loop' = "take"
    /\ UNCHANGED <<actions, running, todo, pc, signal, mine, joiner,
                   accepted, executed>>

\* todo = std::move(actions), under the lock
Take ==
    /\ loop = "take"
    /\ todo' = actions
    /\ actions' = <<>>
    /\ loop' = "run"
    /\ UNCHANGED <<running, dowork, pc, signal, mine, joiner,
                   accepted, executed>>

\* Mutant: call() is not woken.
SignalledNone(notify) == signal

\* if(work.notify) work.notify->signal()
Signalled(notify) == [t \in Threads |-> signal[t] \/ t = notify]

\* The function of the next Work returns, or throws, and the caller is woken.
RunOne ==
    /\ loop = "run" /\ todo # <<>>
    /\ pc[Worker] = "idle"
    /\ executed' = Head(todo).serial
    /\ signal' = Signalled(Head(todo).notify)
    /\ todo' = Tail(todo)
    /\ UNCHANGED <<actions, running, dowork, loop, pc, mine, joiner, accepted>>

\* Mutant: the queue is cleared when its work is done, not when it is taken.
EndWorkClear ==
    /\ loop = "run" /\ todo = <<>>
    /\ loop' = "poll"
    /\ actions' = <<>>
    /\ UNCHANGED <<running, dowork, todo, pc, signal, mine, joiner, accepted, executed>>

EndWork ==
    /\ loop = "run" /\ todo = <<>>
    /\ loop' = "poll"
    /\ UNCHANGED <<actions, running, dowork, todo, pc, signal, mine, joiner,
                   accepted, executed>>

\* join(): no more work is accepted ...
JoinStop ==
    /\ joiner = "none"
    /\ running' = FALSE
    /\ joiner' = "stopped"
    /\ UNCHANGED <<actions, dowork, loop, todo, pc, signal, mine,
                   accepted, executed>>

\* ... event_base_loopexit() ...
JoinExit ==
    /\ joiner = "stopped"
    /\ joiner' = "exiting"
    /\ UNCHANGED <<actions, running, dowork, loop, todo, pc, signal, mine,
                   accepted, executed>>

\* ... the loop ends once the events pending before it have been run ...
LoopExit ==
    /\ joiner = "exiting"
    /\ loop = "poll" /\ ~dowork
    /\ loop' = "exited"
    /\ UNCHANGED <<actions, running, dowork, todo, pc, signal, mine, joiner,
                   accepted, executed>>

\* ... and worker.exitWait() returns.
JoinReturn ==
    /\ joiner = "exiting" /\ loop = "exited"
    /\ joiner' = "joined"
    /\ UNCHANGED <<actions, running, dowork, loop, todo, pc, signal, mine,
                   accepted, executed>>

LoopNext == Fire \/ Take \/ RunOne \/ EndWork \/ LoopExit
JoinNext == JoinStop \/ JoinExit \/ JoinReturn

Next ==
    \/ \E t \in Threads : Dispatch(t) \/ Call(t) \/ Arm(t) \/ Return(t)
    \/ LoopNext
    \/ JoinNext

Spec == Init /\ [][Next]_vars

\* Every thread is scheduled, and the loop does not starve a pending event.
Fairness ==
    /\ \A t \in Threads : WF_vars(Arm(t)) /\ WF_vars(Return(t))
    /\ WF_vars(LoopNext)
    /\ WF_vars(JoinExit) /\ WF_vars(JoinReturn)

FairSpec == Spec /\ Fairness
-----------------------------------------------------------------------------
TypeOK ==
    /\ actions \in Seq(Work) /\ todo \in Seq(Work)
    /\ running \in BOOLEAN /\ dowork \in BOOLEAN
    /\ loop \in LoopStates
    /\ pc \in [Threads -> PCs]
    /\ signal \in [Threads -> BOOLEAN]
    /\ mine \in [Threads -> Nat]
    /\ joiner \in {"none", "stopped", "exiting", "joined"}
    /\ accepted \in Nat /\ executed \in Nat

\* Queued work always has a wakeup on its way: the dowork event is pending, or
\* is being handled, or the thread which found the queue empty has still to arm
\* it.  Arming after the lock is released (evhelper.cpp:323) loses no wakeup.
NoLostWakeup ==
    actions # <<>> => dowork \/ loop = "take" \/ \E t \in Threads : Arming(t)

\* The queue and doWork()'s local copy together hold exactly the accepted work
\* which is not yet executed, oldest first: moving the queue under the lock
\* while other threads append loses, repeats and reorders nothing.
Outstanding == todo \o actions
InOrder ==
    /\ Len(Outstanding) = accepted - executed
    /\ \A i \in 1..Len(Outstanding) : Outstanding[i].serial = executed + i

\* The epicsEvent used by call() belongs to the thread and is used again by its
\* next call(): a signal found there always is the one of the current call.
SignalIsMine ==
    \A t \in Threads : signal[t] => pc[t] \in {"armCall", "wait"} /\ mine[t] <= executed

\* evbase is an executor (see module Executor): in order, once, and call()
\* returns after its function has run.
Abstract == INSTANCE Executor WITH blocked <- mine
Implements == Abstract!Spec

\* "queue request to execute in event loop.  return after executed."
\* (evhelper.h:174): every call() which was accepted returns, as long as join()
\* is not called.
CallReturnsRunning == \A t \in Threads : mine[t] # 0 ~> mine[t] = 0 \/ ~running

\* All work accepted is executed, unless join() stops the loop.
WorkExecuted == \A n \in 1..MaxWork : accepted >= n ~> executed >= n \/ ~running

\* No caller waits and no work stays queued forever (evhelper.cpp:323,356).
Progress == CallReturnsRunning /\ WorkExecuted
=============================================================================
