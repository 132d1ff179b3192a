---------------------------- MODULE EvBaseProofs ----------------------------
(***************************************************************************)
(* Proofs about the worker queue of evhelper.cpp for any set of threads    *)
(* and any amount of work: types, no lost wakeup, order of execution,      *)
(* ownership of the per thread event, and that EvBase implements Executor. *)
(***************************************************************************)
EXTENDS EvBase, TLAPS

\* The two halves of the queue, numbered from the work executed last.
TodoNumbered == \A i \in 1..Len(todo) : todo[i].serial = executed + i
ActionsNumbered ==
    \A i \in 1..Len(actions) : actions[i].serial = executed + Len(todo) + i
AllCounted == accepted = executed + Len(todo) + Len(actions)

\* A thread inside of call() is waiting for the work "mine".
InCall(t) == pc[t] \in {"armCall", "wait"}
MineInCall == \A t \in Threads : (mine[t] # 0) <=> InCall(t)
Owns(w) == \A t \in Threads : w.notify = t => InCall(t) /\ mine[t] = w.serial
TodoOwned == \A i \in 1..Len(todo) : Owns(todo[i])
ActionsOwned == \A i \in 1..Len(actions) : Owns(actions[i])

\* doWork()'s local queue is empty outside of its for loop.
TodoLocal == todo # <<>> => loop = "run"

IInv ==
    /\ TypeOK
    /\ TodoLocal
    /\ NoLostWakeup
    /\ AllCounted /\ TodoNumbered /\ ActionsNumbered
    /\ MineInCall /\ TodoOwned /\ ActionsOwned
    /\ SignalIsMine

\* What appending to the queue does to each of its elements.
LEMMA AppendFacts ==
    ASSUME NEW S, NEW s \in Seq(S), NEW e \in S
    PROVE  /\ Append(s, e) \in Seq(S)
           /\ Len(Append(s, e)) = Len(s) + 1
           /\ Append(s, e) # <<>>
           /\ \A i \in 1..Len(s) : Append(s, e)[i] = s[i]
           /\ Append(s, e)[Len(s) + 1] = e
  OBVIOUS

\* What taking the head off doWork()'s local queue does to its elements.
LEMMA TailFacts ==
    ASSUME NEW S, NEW s \in Seq(S), s # <<>>
    PROVE  /\ Len(s) \in Nat \ {0}
           /\ Tail(s) \in Seq(S)
           /\ Len(Tail(s)) = Len(s) - 1
           /\ Head(s) = s[1]
           /\ Head(s) \in S
           /\ \A i \in 1..Len(Tail(s)) : Tail(s)[i] = s[i + 1]
  OBVIOUS

\* The initial state satisfies the inductive invariant.
LEMMA InitIInv == Init => IInv
<1> SUFFICES ASSUME Init PROVE IInv
  OBVIOUS
<1>1. TypeOK
  <2>1. actions \in Seq(Work) /\ todo \in Seq(Work)
    BY DEF Init
  <2>2. pc \in [Threads -> PCs] /\ signal \in [Threads -> BOOLEAN] /\ mine \in [Threads -> Nat]
    BY DEF Init, PCs
  <2> QED BY <2>1, <2>2 DEF Init, TypeOK, LoopStates
<1>2. Len(todo) = 0 /\ Len(actions) = 0
  BY DEF Init
<1>3. AllCounted /\ TodoNumbered /\ ActionsNumbered
  BY <1>2 DEF Init, AllCounted, TodoNumbered, ActionsNumbered
<1>4. TodoOwned /\ ActionsOwned
  BY <1>2 DEF Init, TodoOwned, ActionsOwned
<1>5. MineInCall /\ SignalIsMine
  BY DEF Init, MineInCall, InCall, SignalIsMine
<1>6. TodoLocal /\ NoLostWakeup
  BY DEF Init, TodoLocal, NoLostWakeup
<1> QED
  BY <1>1, <1>3, <1>4, <1>5, <1>6 DEF IInv

\* Types are preserved by every step.
LEMMA TypeStep == IInv /\ [Next]_vars => TypeOK'
<1> SUFFICES ASSUME IInv, [Next]_vars PROVE TypeOK'
  OBVIOUS
<1> USE DEF IInv, TypeOK, LoopStates, PCs
<1>1. ASSUME NEW t \in Threads, Dispatch(t) PROVE TypeOK'
  <2> DEFINE e == [serial |-> accepted + 1, notify |-> Nobody]
  <2>1. e \in Work
    BY DEF Work
  <2>2. actions' \in Seq(Work) /\ accepted' \in Nat
    BY <1>1, <2>1 DEF Dispatch, Queue
  <2> QED BY <1>1, <2>2 DEF Dispatch
<1>2. ASSUME NEW t \in Threads, Call(t) PROVE TypeOK'
  <2> DEFINE e == [serial |-> accepted + 1, notify |-> t]
  <2>1. e \in Work
    BY DEF Work
  <2>2. actions' \in Seq(Work) /\ accepted' \in Nat
    BY <1>2, <2>1 DEF Call, Queue
  <2> QED BY <1>2, <2>2 DEF Call
<1>3. ASSUME NEW t \in Threads, Arm(t) PROVE TypeOK'
  BY <1>3 DEF Arm
<1>4. ASSUME NEW t \in Threads, Return(t) PROVE TypeOK'
  BY <1>4 DEF Return
<1>5. CASE Fire
  BY <1>5 DEF Fire
<1>6. CASE Take
  BY <1>6 DEF Take
<1>7. CASE RunOne
  <2>1. Head(todo).serial \in Nat /\ Tail(todo) \in Seq(Work)
    <3>1. Head(todo) \in Work /\ Tail(todo) \in Seq(Work)
      BY <1>7, TailFacts DEF RunOne, Signalled
    <3> QED BY <3>1 DEF Work
  <2>2. signal' \in [Threads -> BOOLEAN]
    BY <1>7 DEF RunOne, Signalled
  <2> QED BY <1>7, <2>1, <2>2 DEF RunOne, Signalled
<1>8. CASE EndWork
  BY <1>8 DEF EndWork
<1>9. CASE LoopExit
  BY <1>9 DEF LoopExit
<1>10. CASE JoinStop
  BY <1>10 DEF JoinStop
<1>11. CASE JoinExit
  BY <1>11 DEF JoinExit
<1>12. CASE JoinReturn
  BY <1>12 DEF JoinReturn
<1>13. CASE UNCHANGED vars
  BY <1>13 DEF vars
<1> QED
  BY <1>1, <1>2, <1>3, <1>4, <1>5, <1>6, <1>7, <1>8, <1>9, <1>10, <1>11,
     <1>12, <1>13 DEF Next, LoopNext, JoinNext

\* No step leaves queued work without a wakeup on its way.
LEMMA WakeupStep == IInv /\ [Next]_vars => NoLostWakeup' /\ TodoLocal'
<1> SUFFICES ASSUME IInv, [Next]_vars PROVE NoLostWakeup' /\ TodoLocal'
  OBVIOUS
<1> USE DEF IInv, NoLostWakeup, TodoLocal, Arming
<1>t. pc \in [Threads -> PCs]
  BY DEF TypeOK
<1>1. ASSUME NEW t \in Threads, Dispatch(t) PROVE NoLostWakeup' /\ TodoLocal'
  BY <1>1, <1>t DEF Dispatch, MayCall
<1>2. ASSUME NEW t \in Threads, Call(t) PROVE NoLostWakeup' /\ TodoLocal'
  BY <1>2, <1>t DEF Call, MayCall
<1>3. ASSUME NEW t \in Threads, Arm(t) PROVE NoLostWakeup' /\ TodoLocal'
  BY <1>3 DEF Arm
<1>4. ASSUME NEW t \in Threads, Return(t) PROVE NoLostWakeup' /\ TodoLocal'
  BY <1>4, <1>t DEF Return
<1>5. CASE LoopNext
  BY <1>5 DEF LoopNext, Fire, Take, RunOne, Signalled, EndWork, LoopExit
<1>6. CASE JoinNext
  BY <1>6 DEF JoinNext, JoinStop, JoinExit, JoinReturn
<1>7. CASE UNCHANGED vars
  BY <1>7 DEF vars
<1> QED
  BY <1>1, <1>2, <1>3, <1>4, <1>5, <1>6, <1>7 DEF Next

\* The numbering of the queue is preserved by every step.
LEMMA OrderStep ==
    IInv /\ [Next]_vars => AllCounted' /\ TodoNumbered' /\ ActionsNumbered'
<1> SUFFICES ASSUME IInv, [Next]_vars
             PROVE AllCounted' /\ TodoNumbered' /\ ActionsNumbered'
  OBVIOUS
<1> USE DEF IInv, AllCounted, TodoNumbered, ActionsNumbered
<1>t. /\ actions \in Seq(Work) /\ todo \in Seq(Work)
      /\ accepted \in Nat /\ executed \in Nat
      /\ Len(actions) \in Nat /\ Len(todo) \in Nat
  BY DEF TypeOK
<1>1. ASSUME NEW n \in Threads \cup {Nobody}, Queue(n), UNCHANGED <<todo, executed>>
      PROVE AllCounted' /\ TodoNumbered' /\ ActionsNumbered'
  <2> DEFINE e == [serial |-> accepted + 1, notify |-> n]
  <2>1. e \in Work /\ e.serial = accepted + 1
    BY <1>t DEF Work
  <2>2. actions' = Append(actions, e) /\ accepted' = accepted + 1
    BY <1>1 DEF Queue
  <2> HIDE DEF e
  <2>3. /\ Len(actions') = Len(actions) + 1 /\ actions'[Len(actions) + 1] = e
        /\ \A i \in 1..Len(actions) : actions'[i] = actions[i]
    BY <1>t, <2>1, <2>2, AppendFacts
  <2>4. AllCounted' /\ TodoNumbered'
    BY <1>1, <1>t, <2>2, <2>3
  <2>5. ASSUME NEW i \in 1..Len(actions') PROVE actions'[i].serial = executed + Len(todo) + i
    <3>1. CASE i \in 1..Len(actions)
      BY <3>1, <2>3
    <3>2. CASE i = Len(actions) + 1
      BY <3>2, <1>t, <2>1, <2>3
    <3>3. i \in 1..Len(actions) \/ i = Len(actions) + 1
      BY <1>t, <2>3
    <3> QED BY <3>1, <3>2, <3>3
  <2> QED BY <1>1, <2>4, <2>5
<1>2. ASSUME NEW t \in Threads, Dispatch(t) \/ Call(t)
      PROVE AllCounted' /\ TodoNumbered' /\ ActionsNumbered'
  BY <1>2, <1>1 DEF Dispatch, Call
<1>3. CASE Take
  <2>1. Len(todo) = 0
    BY <1>3 DEF Take, TodoLocal
  <2>2. Len(actions') = 0
    BY <1>3 DEF Take
  <2> QED BY <1>3, <1>t, <2>1, <2>2 DEF Take
<1>4. CASE RunOne
  <2>1. /\ todo # <<>> /\ todo' = Tail(todo) /\ executed' = Head(todo).serial
        /\ UNCHANGED <<actions, accepted>>
    BY <1>4 DEF RunOne, Signalled
  <2>2. Head(todo) = todo[1] /\ 1 \in 1..Len(todo)
    BY <1>t, <2>1, TailFacts
  <2>3. executed' = executed + 1
    BY <2>1, <2>2
  <2>4. Len(todo') = Len(todo) - 1 /\ \A i \in 1..Len(todo') : todo'[i] = todo[i + 1]
    BY <1>t, <2>1, TailFacts
  <2>5. Len(todo) \in Nat \ {0}
    BY <1>t, <2>1, TailFacts
  <2>6. AllCounted' /\ ActionsNumbered'
    <3>1. executed' + Len(todo') = executed + Len(todo)
      BY <1>t, <2>3, <2>4, <2>5
    <3>2. AllCounted'
      BY <1>t, <2>1, <3>1
    <3>3. ASSUME NEW i \in 1..Len(actions) PROVE actions[i].serial = executed' + Len(todo') + i
      BY <1>t, <3>1
    <3> QED BY <2>1, <3>2, <3>3
  <2>7. ASSUME NEW i \in 1..Len(todo') PROVE todo'[i].serial = executed' + i
    <3>1. i + 1 \in 1..Len(todo)
      BY <2>4, <2>5
    <3>2. todo[i + 1].serial = executed + (i + 1)
      BY <3>1
    <3> QED BY <1>t, <2>3, <2>4, <3>2
  <2> QED BY <2>6, <2>7
<1>5. ASSUME UNCHANGED <<actions, todo, accepted, executed>>
      PROVE AllCounted' /\ TodoNumbered' /\ ActionsNumbered'
  BY <1>5
<1> QED
  BY <1>2, <1>3, <1>4, <1>5
  DEF Next, LoopNext, JoinNext, Arm, Return, Fire, EndWork, LoopExit, JoinStop,
      JoinExit, JoinReturn, vars

\* Who is to be signalled for which work, and by whom the event is owned.
LEMMA OwnerStep ==
    IInv /\ [Next]_vars => MineInCall' /\ TodoOwned' /\ ActionsOwned' /\ SignalIsMine'
<1> DEFINE Goal == MineInCall /\ TodoOwned /\ ActionsOwned /\ SignalIsMine
<1> SUFFICES ASSUME IInv, [Next]_vars PROVE Goal'
  OBVIOUS
<1> USE DEF MineInCall, TodoOwned, ActionsOwned, SignalIsMine, InCall, Owns
<1>t. /\ actions \in Seq(Work) /\ todo \in Seq(Work)
      /\ accepted \in Nat /\ executed \in Nat
      /\ Len(actions) \in Nat /\ Len(todo) \in Nat
      /\ pc \in [Threads -> PCs] /\ mine \in [Threads -> Nat]
      /\ signal \in [Threads -> BOOLEAN]
  BY DEF IInv, TypeOK
<1>g. Goal
  BY DEF IInv
<1>n. TodoNumbered /\ ActionsNumbered /\ AllCounted
  BY DEF IInv
<1>1. ASSUME NEW t \in Threads, Dispatch(t) PROVE Goal'
  <2> DEFINE e == [serial |-> accepted + 1, notify |-> Nobody]
  <2>1. e \in Work /\ e.notify \notin Threads
    BY <1>t, NobodyAssumption DEF Work
  <2>2. actions' = Append(actions, e) /\ UNCHANGED <<todo, mine, signal, executed>>
    BY <1>1 DEF Dispatch, Queue
  <2>3. \A u \in Threads : InCall(u)' <=> InCall(u)
    BY <1>1, <1>t DEF Dispatch, MayCall
  <2> HIDE DEF e
  <2>a. /\ Len(actions') = Len(actions) + 1 /\ actions'[Len(actions) + 1] = e
        /\ \A i \in 1..Len(actions) : actions'[i] = actions[i]
    BY <1>t, <2>1, <2>2, AppendFacts
  <2>b. \A i \in 1..Len(actions') : i \in 1..Len(actions) \/ i = Len(actions) + 1
    BY <1>t, <2>a
  <2>4. ActionsOwned'
    BY <1>g, <2>1, <2>2, <2>3, <2>a, <2>b
  <2> QED BY <1>g, <2>2, <2>3, <2>4
<1>2. ASSUME NEW t \in Threads, Call(t) PROVE Goal'
  <2> DEFINE e == [serial |-> accepted + 1, notify |-> t]
  <2>1. e \in Work /\ e.notify = t /\ e.serial = accepted + 1
    BY <1>t DEF Work
  <2>2. /\ actions' = Append(actions, e) /\ UNCHANGED <<todo, signal, executed>>
        /\ ~InCall(t) /\ InCall(t)' /\ mine'[t] = accepted + 1
        /\ \A u \in Threads \ {t} : (InCall(u)' <=> InCall(u)) /\ mine'[u] = mine[u]
    BY <1>2, <1>t DEF Call, MayCall, Queue
  <2> HIDE DEF e
  <2>3. /\ \A i \in 1..Len(todo) : todo[i].notify # t
        /\ \A i \in 1..Len(actions) : actions[i].notify # t
        /\ ~signal[t]
    BY <1>g, <2>2
  <2>a. /\ Len(actions') = Len(actions) + 1 /\ actions'[Len(actions) + 1] = e
        /\ \A i \in 1..Len(actions) : actions'[i] = actions[i]
    BY <1>t, <2>1, <2>2, AppendFacts
  <2>b. \A i \in 1..Len(actions') : i \in 1..Len(actions) \/ i = Len(actions) + 1
    BY <1>t, <2>a
  <2>4. ActionsOwned'
    <3> SUFFICES ASSUME NEW i \in 1..Len(actions'), NEW u \in Threads,
                        actions'[i].notify = u
                 PROVE  InCall(u)' /\ mine'[u] = actions'[i].serial
      OBVIOUS
    <3>1. CASE i \in 1..Len(actions)
      <4>1. u # t /\ InCall(u) /\ mine[u] = actions[i].serial
        BY <3>1, <1>g, <2>3, <2>a
      <4> QED BY <3>1, <4>1, <2>2, <2>a
    <3>2. CASE i = Len(actions) + 1
      BY <3>2, <2>1, <2>2, <2>a
    <3> QED BY <3>1, <3>2, <2>b
  <2>5. MineInCall'
    BY <1>t, <1>g, <2>2
  <2>6. TodoOwned' /\ SignalIsMine'
    BY <1>t, <1>g, <2>2, <2>3
  <2> QED BY <2>4, <2>5, <2>6
<1>3. ASSUME NEW t \in Threads, Arm(t) PROVE Goal'
  <2>1. \A u \in Threads : InCall(u)' <=> InCall(u)
    BY <1>3, <1>t DEF Arm, Arming
  <2> QED BY <1>3, <1>g, <2>1 DEF Arm
<1>4. ASSUME NEW t \in Threads, Return(t) PROVE Goal'
  <2>1. /\ UNCHANGED <<todo, actions, executed>>
        /\ InCall(t) /\ ~InCall(t)' /\ mine'[t] = 0 /\ ~signal'[t] /\ signal[t]
        /\ \A u \in Threads \ {t} :
              (InCall(u)' <=> InCall(u)) /\ mine'[u] = mine[u] /\ signal'[u] = signal[u]
    BY <1>4, <1>t DEF Return
  <2>2. mine[t] <= executed
    BY <1>g, <2>1
  <2>3. \A i \in 1..Len(todo) : todo[i].notify # t
    BY <1>t, <1>g, <1>n, <2>2 DEF TodoNumbered
  <2>4. \A i \in 1..Len(actions) : actions[i].notify # t
    <3> SUFFICES ASSUME NEW i \in 1..Len(actions), actions[i].notify = t PROVE FALSE
      OBVIOUS
    <3>1. mine[t] = actions[i].serial
      BY <1>g
    <3>2. actions[i].serial = executed + Len(todo) + i
      BY <1>n DEF ActionsNumbered
    <3>3. Len(todo) \in Nat /\ i \in Nat /\ i > 0 /\ executed \in Nat
      BY <1>t
    <3>4. executed + Len(todo) + i > executed
      BY <3>3
    <3> QED BY <2>2, <3>1, <3>2, <3>3, <3>4
  <2> QED BY <1>g, <2>1, <2>3, <2>4
<1>5. CASE Take
  <2>1. Len(actions') = 0 /\ todo' = actions /\ UNCHANGED <<pc, mine, signal, executed>>
    BY <1>5 DEF Take
  <2> QED BY <1>g, <2>1
<1>6. CASE RunOne
  <2>1. /\ todo # <<>> /\ todo' = Tail(todo) /\ UNCHANGED <<actions, pc, mine>>
        /\ executed' = Head(todo).serial
        /\ \A u \in Threads : signal'[u] = (signal[u] \/ u = Head(todo).notify)
    BY <1>6 DEF RunOne, Signalled
  <2>2. Head(todo) = todo[1] /\ 1 \in 1..Len(todo)
    BY <1>t, <2>1, TailFacts
  <2>3. executed' = executed + 1
    BY <1>n, <2>1, <2>2 DEF TodoNumbered
  <2>4. Len(todo') = Len(todo) - 1 /\ \A i \in 1..Len(todo') : todo'[i] = todo[i + 1]
    BY <1>t, <2>1, TailFacts
  <2>5. TodoOwned'
    <3>1. \A i \in 1..Len(todo') : i + 1 \in 1..Len(todo)
      BY <1>t, <2>2, <2>4
    <3> QED BY <1>g, <2>1, <2>4, <3>1
  <2>6. SignalIsMine'
    BY <1>t, <1>g, <2>1, <2>2, <2>3
  <2> QED BY <1>g, <2>1, <2>5, <2>6
<1>7. ASSUME UNCHANGED <<actions, todo, pc, mine, signal, executed>> PROVE Goal'
  BY <1>7, <1>g
<1> QED
  BY <1>1, <1>2, <1>3, <1>4, <1>5, <1>6, <1>7
  DEF Next, LoopNext, JoinNext, Fire, EndWork, LoopExit, JoinStop,
      JoinExit, JoinReturn, vars

\* The invariant is inductive.
THEOREM Invariance == Spec => []IInv
<1>1. IInv /\ [Next]_vars => IInv'
  BY TypeStep, WakeupStep, OrderStep, OwnerStep DEF IInv
<1> QED
  BY InitIInv, <1>1, PTL DEF Spec

\* Every variable of the worker queue keeps its type.
THEOREM TypeCorrect == Spec => []TypeOK
<1>1. IInv => TypeOK
  BY DEF IInv
<1> QED BY <1>1, Invariance, PTL

\* Queued work always has a wakeup on its way (evhelper.cpp:323, 352), for any
\* number of threads, also while join() stops the loop.
THEOREM WakeupNotLost == Spec => []NoLostWakeup
<1>1. IInv => NoLostWakeup
  BY DEF IInv
<1> QED BY <1>1, Invariance, PTL

\* Accepted work is neither lost, nor repeated, nor reordered.
THEOREM ExecutedInOrder == Spec => []InOrder
<1>1. IInv => InOrder
  <2> SUFFICES ASSUME IInv PROVE InOrder
    OBVIOUS
  <2>1. /\ actions \in Seq(Work) /\ todo \in Seq(Work)
        /\ accepted \in Nat /\ executed \in Nat
        /\ Len(actions) \in Nat /\ Len(todo) \in Nat
    BY DEF IInv, TypeOK
  <2>2. Len(Outstanding) = Len(todo) + Len(actions)
    BY <2>1 DEF Outstanding
  <2>3. \A i \in 1..Len(Outstanding) :
           Outstanding[i] = IF i <= Len(todo) THEN todo[i] ELSE actions[i - Len(todo)]
    BY <2>1 DEF Outstanding
  <2>4. Len(Outstanding) = accepted - executed
    BY <2>1, <2>2 DEF IInv, AllCounted
  <2>5. ASSUME NEW i \in 1..Len(Outstanding) PROVE Outstanding[i].serial = executed + i
    <3>1. CASE i <= Len(todo)
      <4>1. i \in 1..Len(todo) /\ Outstanding[i] = todo[i]
        BY <2>1, <2>3, <3>1
      <4> QED BY <4>1 DEF IInv, TodoNumbered
    <3>2. CASE ~(i <= Len(todo))
      <4>1. i - Len(todo) \in 1..Len(actions) /\ Outstanding[i] = actions[i - Len(todo)]
        BY <2>1, <2>2, <2>3, <3>2
      <4>2. actions[i - Len(todo)].serial = executed + Len(todo) + (i - Len(todo))
        BY <4>1 DEF IInv, ActionsNumbered
      <4> QED BY <2>1, <4>1, <4>2
    <3> QED BY <3>1, <3>2
  <2> QED BY <2>4, <2>5 DEF InOrder
<1> QED BY <1>1, Invariance, PTL

\* call() is only ever woken by the completion of its own function.
THEOREM SignalOwned == Spec => []SignalIsMine
<1>1. IInv => SignalIsMine
  BY DEF IInv
<1> QED BY <1>1, Invariance, PTL

\* The worker queue implements the executor promised by evhelper.h: in order,
\* once each, and call() returns only after its function was executed.
THEOREM Refinement == Spec => Implements
<1>1. Init => Abstract!Init
  BY DEF Init, Abstract!Init
<1>2. IInv /\ [Next]_vars => [Abstract!Next]_(Abstract!vars)
  <2> SUFFICES ASSUME IInv, [Next]_vars PROVE [Abstract!Next]_(Abstract!vars)
    OBVIOUS
  <2> USE DEF Abstract!Next, Abstract!vars
  <2>t. /\ actions \in Seq(Work) /\ todo \in Seq(Work)
        /\ accepted \in Nat /\ executed \in Nat
        /\ Len(actions) \in Nat /\ Len(todo) \in Nat
        /\ mine \in [Threads -> Nat]
    BY DEF IInv, TypeOK
  <2>1. ASSUME NEW t \in Threads, Dispatch(t) PROVE Abstract!Submit
    BY <2>1 DEF Dispatch, Queue, Abstract!Submit
  <2>2. ASSUME NEW t \in Threads, Call(t) PROVE Abstract!SubmitAndWait(t)
    BY <2>2 DEF Call, Queue, Abstract!SubmitAndWait, MayCall, IInv, MineInCall, InCall
  <2>3. ASSUME NEW t \in Threads, Return(t) PROVE Abstract!Return(t)
    BY <2>3 DEF Return, Abstract!Return, IInv, MineInCall, InCall, SignalIsMine
  <2>4. ASSUME RunOne PROVE Abstract!Execute
    <3>1. todo # <<>> /\ executed' = Head(todo).serial /\ UNCHANGED <<accepted, mine>>
      BY <2>4 DEF RunOne, Signalled
    <3>2. Head(todo) = todo[1] /\ 1 \in 1..Len(todo)
      BY <2>t, <3>1, TailFacts
    <3> QED BY <2>t, <3>1, <3>2 DEF IInv, TodoNumbered, AllCounted, Abstract!Execute
  <2>5. ASSUME UNCHANGED <<accepted, executed, mine>> PROVE UNCHANGED Abstract!vars
    BY <2>5
  <2> QED
    BY <2>1, <2>2, <2>3, <2>4, <2>5
    DEF Next, LoopNext, JoinNext, Arm, Fire, Take, EndWork, LoopExit, JoinStop,
        JoinExit, JoinReturn, vars
<1> QED
  BY <1>1, <1>2, Invariance, PTL DEF Spec, Implements, Abstract!Spec
=============================================================================
