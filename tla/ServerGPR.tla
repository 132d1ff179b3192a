----------------------------- MODULE ServerGPR -----------------------------
(***************************************************************************)
(* A Get, Put or RPC operation on the server: ServerGPR, ServerGPRConnect  *)
(* and ServerGPRExec (serverget.cpp).                                      *)
(*                                                                         *)
(* Handlers and dispatched functions ("jobs") run on the acceptor loop,    *)
(* one at a time.  The data source answers a ConnectOp or an ExecOp from   *)
(* any thread, once, and may keep it longer than the operation, or the     *)
(* connection, lasts.                                                      *)
(*                                                                         *)
(* Not modelled: CANCEL_REQUEST and the "last request" flag, which this    *)
(* client does not send; a source which replies twice or never, or with a  *)
(* value of the wrong type.                                                *)
(***************************************************************************)
EXTENDS GPRWire

VARIABLES
    sstate,         \* ServerOp::state, "None" before INIT
    epoch,          \* which ServerGPR it is: each INIT makes one
    sget,           \* ServerGPR::subcmd has 0x40
    setups,         \* ConnectOps held by the source, by epoch
    jobs,           \* functions dispatched to the acceptor loop
    execs,          \* ExecOps held by the source
    ran             \* history: how often each put or RPC was executed

svars == <<sstate, epoch, sget, setups, jobs, execs, ran>>

InitServer ==
    /\ sstate = "None" /\ epoch = 0 /\ sget = FALSE
    /\ setups = {} /\ jobs = <<>> /\ execs = {}
    /\ ran = [n \in Serials |-> 0]

\* Not in opByIOID, or in state Dead
Gone == sstate \in {"None", "Dead"}

\* "reuses existing sid ... ioid" and "Gets invalid IOID", which close the
\* connection; "Get exec in incorrect state", which is left without a reply.
Refused(m) ==
    \/ m.cmd = "INIT" /\ ~Gone
    \/ m.cmd = "EXEC" /\ sstate \in {"Creating", "Executing"}

ServerRecv(cmd) ==
    /\ c2s # <<>> /\ Head(c2s).cmd = cmd
    /\ ~Refused(Head(c2s))
    /\ c2s' = Tail(c2s)

\* What connect() or error(), and then error() from ~ServerGPRConnect(), dispatch
ConnectJobs(e, ok) ==
    <<[do |-> "connect", epoch |-> e, ok |-> ok],
      [do |-> "connect", epoch |-> e, ok |-> FALSE]>>

\* handle_GPR() INIT: onOp() gets a ConnectOp.  An RPC is connected at once.
HandleInit ==
    /\ ServerRecv("INIT")
    /\ sstate' = "Creating"
    /\ epoch' = epoch + 1
    /\ IF kind.op = "RPC"
       THEN jobs' = jobs \o ConnectJobs(epoch', TRUE) /\ UNCHANGED setups
       ELSE setups' = setups \cup {epoch'} /\ UNCHANGED jobs
    /\ UNCHANGED <<sget, execs, ran, s2c>>

\* handle_GPR() EXEC: onGet(), onPut() or onRPC() gets an ExecOp.
HandleExec ==
    /\ ServerRecv("EXEC")
    /\ IF Gone THEN UNCHANGED <<sstate, sget, execs, ran>>
       ELSE LET m == Head(c2s)
            IN  /\ sstate' = "Executing"
                /\ sget' = m.get
                /\ execs' = execs \cup {[epoch |-> epoch, serial |-> m.serial]}
                /\ ran' = IF m.get \/ kind.op = "Get" THEN ran
                          ELSE [ran EXCEPT ![m.serial] = @ + 1]
    /\ UNCHANGED <<epoch, setups, jobs, s2c>>

\* handle_DESTROY_REQUEST()
HandleDestroy ==
    /\ ServerRecv("DESTROY")
    /\ sstate' = IF Gone THEN sstate ELSE "Dead"
    /\ UNCHANGED <<epoch, sget, setups, jobs, execs, ran, s2c>>

\* The source answers a ConnectOp and drops it.  ok: with connect(), and the
\* pvRequest can be applied to the type.
Connect(e, ok) ==
    /\ e \in setups
    /\ setups' = setups \ {e}
    /\ jobs' = jobs \o ConnectJobs(e, ok)
    /\ UNCHANGED <<sstate, epoch, sget, execs, ran, c2s, s2c>>

\* ExecOp::reply() or error()
Reply(e, ok) ==
    /\ e \in execs
    /\ execs' = execs \ {e}
    /\ jobs' = Append(jobs, [do |-> "reply", epoch |-> e.epoch, ok |-> ok, serial |-> e.serial])
    /\ UNCHANGED <<sstate, epoch, sget, setups, ran, c2s, s2c>>

\* Mutant: an answer to an operation which has ended is taken for one to its
\* successor.
ForMeAny(j) == TRUE

\* The weak_ptr of the dispatched function still leads to an operation which is
\* on the current connection.
ForMe(j) == j.epoch = epoch

\* doReply() is ignored in states Idle and Dead; the functions of a ConnectOp
\* look for Creating.
WaitedFor(s) == sstate = s

\* doReply() while Creating
JobConnect ==
    /\ jobs # <<>> /\ Head(jobs).do = "connect"
    /\ jobs' = Tail(jobs)
    /\ IF ForMe(Head(jobs)) /\ WaitedFor("Creating")
       THEN /\ s2c' = Append(s2c, [cmd |-> "INIT", ok |-> Head(jobs).ok])
            /\ sstate' = IF Head(jobs).ok THEN "Idle" ELSE "Dead"
       ELSE UNCHANGED <<s2c, sstate>>
    /\ UNCHANGED <<epoch, sget, setups, execs, ran, c2s>>

\* doReply() while Executing
JobReply ==
    /\ jobs # <<>> /\ Head(jobs).do = "reply"
    /\ jobs' = Tail(jobs)
    /\ IF ForMe(Head(jobs)) /\ WaitedFor("Executing")
       THEN /\ s2c' = Append(s2c, [cmd |-> "REPLY", ok |-> Head(jobs).ok,
                                   get |-> sget, serial |-> Head(jobs).serial])
            /\ sstate' = "Idle"
       ELSE UNCHANGED <<s2c, sstate>>
    /\ UNCHANGED <<epoch, sget, setups, execs, ran, c2s>>

\* ServerConn::cleanup()
ServerDisconnect ==
    /\ sstate' = IF Gone THEN sstate ELSE "Dead"
    /\ UNCHANGED <<epoch, sget, setups, jobs, execs, ran>>

ServerHandle == HandleInit \/ HandleExec \/ HandleDestroy
ServerJob == JobConnect \/ JobReply
ServerUser ==
    \E ok \in BOOLEAN :
        \/ \E e \in setups : Connect(e, ok)
        \/ \E e \in execs : Reply(e, ok)
ServerNext == ServerHandle \/ ServerJob \/ ServerUser

ServerTypeOK ==
    /\ sstate \in {"None", "Creating", "Idle", "Executing", "Dead"}
    /\ epoch \in Nat /\ sget \in BOOLEAN
    /\ setups \subseteq 1..epoch
    /\ execs \subseteq [epoch : 1..epoch, serial : Serials]
    /\ ran \in [Serials -> Nat]
=============================================================================
