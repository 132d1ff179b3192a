----------------------------- MODULE ClientGPR -----------------------------
(***************************************************************************)
(* A get(), put() or rpc() on the client: GPROp and Connection::handle_GPR *)
(* (clientget.cpp).                                                        *)
(*                                                                         *)
(* All of it runs on the client's worker, one action at a time; the user's *)
(* cancel(), reExec*() and the release of the handle are executed there.   *)
(*                                                                         *)
(* Not modelled: callbacks which call cancel(), and Channel::build()       *)
(* failing before the operation is created.                                *)
(***************************************************************************)
EXTENDS GPRWire

CONSTANT MayCancel      \* the user may cancel() or release the operation

ASSUME MayCancelAssumption == MayCancel \in BOOLEAN

VARIABLES
    cstate,         \* GPROp::state.  BuildPut is left in the step which enters it
    known,          \* in Connection::opByIOID of the current connection
    held,           \* the user has a reference to the Operation
    done,           \* GPROp::done is set
    serial,         \* the user's current request
    puts,           \* history: requests which have side effects on the server
    results,        \* history: how often each request was given its result
    good,           \* history: requests whose result was not an error
    cancelled,      \* history: cancel() was called, or the handle released
    abandoned       \* history: the operation ended without DESTROY

cvars == <<kind, cstate, known, held, done, serial, puts, results, good,
           cancelled, abandoned>>

InitClient ==
    /\ kind \in Kinds
    /\ cstate = "Connecting" /\ known = FALSE /\ held = TRUE /\ done = TRUE
    /\ serial = 0
    /\ puts = IF kind.autoExec /\ kind.op # "Get" THEN {0} ELSE {}
    /\ results = [n \in Serials |-> 0] /\ good = {}
    /\ cancelled = FALSE /\ abandoned = FALSE

Keep == UNCHANGED <<kind, held, done, serial, puts, cancelled>>

\* GPROp::notify()
Notify(ok) ==
    /\ results' = IF done THEN [results EXCEPT ![serial] = @ + 1] ELSE results
    /\ good' = IF done /\ ok THEN good \cup {serial} ELSE good
Silent == UNCHANGED <<results, good>>

Post(m) == c2s' = Append(c2s, m)
Destroy == [cmd |-> "DESTROY"]

\* sendReply() of a request: only GetOPut has the flag "get".
Execute(s, n) ==
    /\ cstate' = s
    /\ Post([cmd |-> "EXEC", get |-> s = "GetOPut", serial |-> n])
    /\ Silent /\ UNCHANGED <<known, abandoned>>

\* sendReply() in state Done
Complete(ok) ==
    /\ cstate' = "Done" /\ known' = FALSE
    /\ Post(Destroy)
    /\ Notify(ok)
    /\ UNCHANGED abandoned

\* sendReply() in state BuildPut: the user's builder() gives a value or throws.
BuildPut == Execute("Exec", serial) \/ Complete(FALSE)

\* Channel::createOperations() and createOp()
CreateOp ==
    /\ cstate = "Connecting" /\ link = "up"
    /\ Post([cmd |-> "INIT"])
    /\ cstate' = "Creating" /\ known' = TRUE
    /\ Silent /\ Keep
    /\ UNCHANGED <<abandoned, s2c>>

\* handle_GPR(): "uses non-existent IOID" or "ignoring stale"
Stale == ~known \/ (cstate = "Done" /\ ~held)

\* handle_GPR(): "sends invalid op.  Disconnecting..."
Unexpected(m) ==
    /\ ~Stale
    /\ \/ m.cmd = "INIT" /\ cstate # "Creating"
       \/ m.cmd = "REPLY" /\ cstate # (IF m.get THEN "GetOPut" ELSE "Exec")

ClientRecv(cmd) ==
    /\ s2c # <<>> /\ Head(s2c).cmd = cmd
    /\ ~Stale /\ ~Unexpected(Head(s2c))
    /\ s2c' = Tail(s2c)

HandleStale ==
    /\ s2c # <<>> /\ Stale
    /\ s2c' = Tail(s2c)
    /\ UNCHANGED <<cvars, c2s>>

\* Mutant: an operation which is set up again repeats its last request.
ExecAfterInitAny == TRUE

\* handle_GPR() after the reply to INIT
ExecAfterInit == kind.autoExec

\* handle_GPR() after the reply to GetOPut
PutFollows(m) == cstate = "GetOPut" /\ m.ok /\ kind.autoExec

\* handle_GPR() of INIT: onInit(), which an RPC does not have, may throw.
HandleInitReply ==
    /\ ClientRecv("INIT")
    /\ \/ ~Head(s2c).ok /\ Complete(FALSE)
       \/ /\ Head(s2c).ok /\ ExecAfterInit
          /\ IF kind.getOput THEN Execute("GetOPut", serial)
             ELSE IF kind.op = "Put" THEN BuildPut
             ELSE Execute("Exec", serial)
       \/ /\ Head(s2c).ok /\ ~ExecAfterInit
          /\ cstate' = "Idle"
          /\ Silent /\ UNCHANGED <<known, c2s, abandoned>>
       \/ /\ Head(s2c).ok /\ kind.op # "RPC"
          /\ cstate' = "Done" /\ abandoned' = TRUE
          /\ Notify(FALSE)
          /\ UNCHANGED <<known, c2s>>
    /\ Keep

\* handle_GPR() of a reply to EXEC.  An error in reply to reExecGet() of a put
\* ends the operation.
HandleReply ==
    /\ ClientRecv("REPLY")
    /\ LET m == Head(s2c)
       IN  IF PutFollows(m) THEN BuildPut
           ELSE IF ~kind.autoExec /\ (m.ok \/ cstate = "Exec")
           THEN /\ cstate' = "Idle"
                /\ Notify(m.ok)
                /\ UNCHANGED <<known, c2s, abandoned>>
           ELSE Complete(m.ok)
    /\ Keep

\* _reExecImpl(): in another state nothing happens.
MayExec == cstate = "Idle"

\* reExecGet() and reExecPut()
ReExec(put) ==
    /\ held /\ ~kind.autoExec /\ MayExec /\ serial < MaxExec
    /\ put => kind.op = "Put"
    /\ Execute(IF kind.op = "Put" /\ ~put THEN "GetOPut" ELSE "Exec", serial + 1)
    /\ serial' = serial + 1
    /\ puts' = IF put THEN puts \cup {serial + 1} ELSE puts
    /\ done' = TRUE
    /\ UNCHANGED <<kind, held, cancelled, s2c>>

\* Mutants: cancel() does not end the operation; a put which reads the value is
\* not destroyed on the server.
AfterCancelSame == cstate
EstablishedPart == {"Idle", "Exec"}

AfterCancel == "Done"

\* The server has replied to INIT.
Established == {"Idle", "GetOPut", "Exec"}

\* _cancel()
CancelEffect ==
    /\ IF cstate \in Established THEN Post(Destroy) ELSE UNCHANGED c2s
    /\ known' = (known /\ cstate = "Done")
    /\ abandoned' = (abandoned \/ cstate = "Creating")
    /\ cstate' = AfterCancel
    /\ cancelled' = TRUE
    /\ Silent
    /\ UNCHANGED <<kind, serial, puts, s2c>>

Cancel ==
    /\ MayCancel /\ held
    /\ CancelEffect
    /\ done' = FALSE
    /\ UNCHANGED held

\* The deleter of gpr_setup()
Release ==
    /\ MayCancel /\ held
    /\ CancelEffect
    /\ held' = FALSE
    /\ UNCHANGED done

\* Mutant: a put whose reply is lost waits for another request.
MayRestartAny == TRUE

\* Whether an operation goes back to Connecting
MayRestart == ~(cstate = "Exec" /\ kind.op # "Get" /\ ~kind.autoExec)

Over == cstate = "Done"
KnownAfterLoss == FALSE

\* Channel::disconnect() and GPROp::disconnected()
ClientDisconnect ==
    /\ known' = KnownAfterLoss
    /\ IF ~known \/ Over
       THEN Silent /\ UNCHANGED cstate
       ELSE IF MayRestart
       THEN Silent /\ cstate' = "Connecting"
       ELSE cstate' = "Done" /\ Notify(FALSE)
    /\ Keep /\ UNCHANGED abandoned

ClientWorker == CreateOp \/ HandleStale \/ HandleInitReply \/ HandleReply
ClientUser == Cancel \/ Release \/ \E put \in BOOLEAN : ReExec(put)
ClientNext == ClientWorker \/ ClientUser

\* A type invariant.  An operation has an entry in opByIOID only once INIT is
\* sent on that connection.
ClientTypeOK ==
    /\ kind \in Kinds
    /\ cstate \in {"Connecting", "Creating", "Idle", "GetOPut", "Exec", "Done"}
    /\ {known, held, done, cancelled, abandoned} \subseteq BOOLEAN
    /\ known => cstate # "Connecting" /\ link = "up"
    /\ serial \in Serials
    /\ puts \subseteq Serials /\ good \subseteq Serials
    /\ results \in [Serials -> Nat]
=============================================================================
