----------------------------- MODULE GPRSystem -----------------------------
(***************************************************************************)
(* A get, put or RPC from end to end: the client's GPROp and the server's  *)
(* ServerGPR, joined by a TCP connection which may be lost.                *)
(***************************************************************************)
EXTENDS ServerGPR, ClientGPR

CONSTANT MaxLoss        \* bound: number of times the connection is lost

ASSUME MaxLossAssumption == MaxLoss \in Nat

VARIABLE losses

vars == <<svars, cvars, link, c2s, s2c, losses>>

Init ==
    /\ InitServer /\ InitClient
    /\ link = "up" /\ c2s = <<>> /\ s2c = <<>>
    /\ losses = 0

\* Both ends clean up.  They share nothing but the connection, so that the two
\* need not be told apart in time.
LoseLink ==
    /\ link = "up" /\ losses < MaxLoss
    /\ link' = "down" /\ c2s' = <<>> /\ s2c' = <<>>
    /\ ServerDisconnect
    /\ ClientDisconnect
    /\ losses' = losses + 1

\* The Channel is found again and becomes Active.
Reconnect ==
    /\ link = "down"
    /\ link' = "up"
    /\ UNCHANGED <<svars, cvars, c2s, s2c, losses>>

Server == ServerNext /\ UNCHANGED <<cvars, link, losses>>
Client == ClientNext /\ UNCHANGED <<svars, link, losses>>

Next == Server \/ Client \/ LoseLink \/ Reconnect

Spec == Init /\ [][Next]_vars

\* The event loops run what is pending; a data source answers each ConnectOp
\* and each ExecOp; the connection is found again.
Fairness ==
    /\ WF_vars(ServerHandle /\ UNCHANGED <<cvars, link, losses>>)
    /\ WF_vars(ServerJob /\ UNCHANGED <<cvars, link, losses>>)
    /\ WF_vars(ServerUser /\ UNCHANGED <<cvars, link, losses>>)
    /\ WF_vars(ClientWorker /\ UNCHANGED <<svars, link, losses>>)
    /\ WF_vars(Reconnect)

FairSpec == Spec /\ Fairness
-----------------------------------------------------------------------------
\* The types of both ends, see ServerTypeOK and ClientTypeOK.
TypeOK == ServerTypeOK /\ ClientTypeOK /\ losses \in 0..MaxLoss

\* Neither end takes the other for faulty, however cancel, reconnect and late
\* answers cross: the server refuses no request for the state its operation is in
\* (serverget.cpp:395,533), the client takes no reply for a violation of the protocol
\* (clientget.cpp:509), and a reply which it takes is the one to the request the
\* user waits for, not to an earlier one.
RepliesExpected ==
    /\ c2s # <<>> => ~Refused(Head(c2s))
    /\ s2c # <<>> => LET m == Head(s2c)
                     IN  /\ ~Unexpected(m)
                         /\ m.cmd = "REPLY" /\ ~Stale => m.serial = serial

\* The result callback is called at most once for a request, however often the
\* operation is set up again.  One exception: the callback of the last
\* reExecGet() or reExecPut() is called a second time, with the error, when the
\* operation later ends because it cannot be set up again.
ResultOnce ==
    \A n \in Serials :
        \/ results[n] <= 1
        \/ results[n] = 2 /\ ~kind.autoExec /\ n = serial /\ cstate = "Done"

\* A value given to reExecPut() is not put twice: "can't restart as server
\* side-effects may occur" (clientget.cpp:388).  The put of an autoExec
\* operation is repeated after a reconnect, and may be executed twice.
PutOnce == \A n \in Serials : ~kind.autoExec => ran[n] <= 1

\* A put or RPC which the user was told has succeeded has been executed.
SuccessIsReal == \A n \in good \cap puts : ran[n] > 0

\* What the user is told and what the server has done belong together, through
\* cancels and reconnects (GPROp::disconnected(), notify()).
ResultRight == TypeOK /\ ResultOnce /\ PutOnce /\ SuccessIsReal

\* An operation which the client has ended has ended on the server, or is about
\* to: "assume op has already sent CMD_DESTROY_REQUEST" (clientget.cpp:483).
Released ==
    cstate = "Done" => Gone \/ \E i \in DOMAIN c2s : c2s[i].cmd = "DESTROY"

\* So it is, unless it ends while INIT waits for its reply (_cancel()), or
\* onInit() throws.
ReleasedUnlessAbandoned == ~abandoned => Released

\* No result is delivered after cancel(), or after the handle is released.
QuietAfterCancel == [][cancelled => results' = results]_vars

\* A request with autoExec, and one with side effects, is given its result,
\* though the connection is lost on the way.
ResultComes ==
    \A n \in Serials :
        (serial = n /\ (kind.autoExec \/ n \in puts)) ~> (results[n] > 0 \/ cancelled)
=============================================================================
