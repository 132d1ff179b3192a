------------------------------ MODULE Executor ------------------------------
(***************************************************************************)
(* What pvxs::impl::evbase (evhelper.h) promises to its users: functions   *)
(* handed over by any thread are executed one at a time, in the order in   *)
(* which they were accepted, and call() returns only after its function    *)
(* has been executed.  Functions are named by the order of acceptance.     *)
(***************************************************************************)
EXTENDS Naturals

CONSTANT Threads        \* threads which may use the executor

VARIABLES accepted,     \* number of functions accepted so far
          executed,     \* number of functions executed so far
          blocked       \* per thread, the function call() waits for, or 0

vars == <<accepted, executed, blocked>>

Init ==
    /\ accepted = 0
    /\ executed = 0
    /\ blocked = [t \in Threads |-> 0]

\* dispatch(): hand over a function and go on.
Submit ==
    /\ accepted' = accepted + 1
    /\ UNCHANGED <<executed, blocked>>

\* call(): hand over a function and wait for it.
SubmitAndWait(t) ==
    /\ blocked[t] = 0
    /\ accepted' = accepted + 1
    /\ blocked' = [blocked EXCEPT ![t] = accepted + 1]
    /\ UNCHANGED executed

Execute ==
    /\ executed < accepted
    /\ executed' = executed + 1
    /\ UNCHANGED <<accepted, blocked>>

\* "queue request to execute in event loop.  return after executed."
Return(t) ==
    /\ blocked[t] # 0
    /\ blocked[t] <= executed
    /\ blocked' = [blocked EXCEPT ![t] = 0]
    /\ UNCHANGED <<accepted, executed>>

Next ==
    \/ Submit
    \/ Execute
    \/ \E t \in Threads : SubmitAndWait(t) \/ Return(t)

Spec == Init /\ [][Next]_vars
=============================================================================
