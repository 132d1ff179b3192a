--------------------------- MODULE MonitorSystem ---------------------------
(***************************************************************************)
(* A subscription from end to end: the client's SubscriptionImpl and the   *)
(* server's MonitorOp, joined by a TCP connection which may be lost.       *)
(***************************************************************************)
EXTENDS ServerMonitor, ClientMonitor, SequencesExt

CONSTANT MaxLoss        \* bound: number of times the connection is lost

ASSUME MaxLossAssumption == MaxLoss \in Nat

VARIABLE losses

vars == <<svars, cvars, link, c2s, s2c, losses>>

Init ==
    /\ InitOp /\ InitClient
    /\ link = "up" /\ c2s = <<>> /\ s2c = <<>>
    /\ losses = 0

\* Both ends clean up.  They share nothing but the connection, so that the two
\* need not be told apart in time.
Drop ==
    /\ link' = "down" /\ c2s' = <<>> /\ s2c' = <<>>
    /\ ServerDisconnect
    /\ ClientDisconnect

LoseLink ==
    /\ link = "up" /\ losses < MaxLoss
    /\ losses' = losses + 1
    /\ Drop

\* "Server %s sends invalid MONITOR.  Disconnecting..."
Fault ==
    /\ link = "up" /\ s2c # <<>> /\ Unexpected(Head(s2c))
    /\ Drop
    /\ UNCHANGED losses

\* The Channel is found again and becomes Active.
Reconnect ==
    /\ link = "down"
    /\ link' = "up"
    /\ UNCHANGED <<svars, cvars, c2s, s2c, losses>>

Server == ServerNext /\ UNCHANGED <<cvars, link, losses>>
Client == ClientNext /\ UNCHANGED <<svars, link, losses>>

Next == Server \/ Client \/ LoseLink \/ Fault \/ Reconnect

Spec == Init /\ [][Next]_vars

\* libevent runs active events in turn, so that neither messages nor dispatched
\* functions nor the TX buffer starve the others; the connection is found again;
\* a data source completes its callbacks; the user drains its queue and does not
\* stay paused.
Fairness ==
    /\ SF_vars(ServerHandle /\ UNCHANGED <<cvars, link, losses>>)
    /\ SF_vars(ServerJob /\ UNCHANGED <<cvars, link, losses>>)
    /\ WF_vars(ServerWrite /\ UNCHANGED <<cvars, link, losses>>)
    /\ WF_vars((Connect \/ DropSetup \/ PushInitial) /\ UNCHANGED <<cvars, link, losses>>)
    /\ WF_vars(ClientWorker /\ UNCHANGED <<svars, link, losses>>)
    /\ WF_vars((Pop \/ PopEmpty) /\ UNCHANGED <<svars, link, losses>>)
    /\ WF_vars(Resume /\ UNCHANGED <<svars, link, losses>>)
    /\ WF_vars(Fault) /\ WF_vars(Reconnect)

FairSpec == Spec /\ Fairness
-----------------------------------------------------------------------------
\* The types of both ends, see ServerTypeOK and ClientTypeOK.
TypeOK == ServerTypeOK /\ ClientTypeOK /\ losses \in 0..MaxLoss

\* Values on their way, in the order in which the user will see them; Null for
\* what carries none.
Received == [i \in 1..Len(cqueue) |-> IF IsData(cqueue[i]) THEN cqueue[i].val ELSE Null]
Sent == [i \in 1..Len(s2c) |-> IF s2c[i].cmd = "DATA" THEN s2c[i].val ELSE Null]
InTransit == Received \o Sent \o squeue

\* Updates reach the user in the order of the posts, each post at most once:
\* squashing on either side and reconnecting reorder and repeat nothing.
InOrder ==
    LET all == popped \o InTransit
    IN  \A i, j \in 1..Len(all) : i < j => \A m \in all[i], n \in all[j] : m < n

\* Each post of a live subscription has been popped, is on its way, or was
\* refused by tryPost().
Live == known /\ cstate \in {"Idle", "Running"} /\ sstate \in {"Idle", "Executing"}
NothingLost ==
    Live => \A n \in (base + 1)..posted :
               \/ n \in dropped
               \/ \E i \in 1..Len(popped) : n \in popped[i]
               \/ \E i \in 1..Len(InTransit) : n \in InTransit[i]

\* Types, order and completeness together, at every moment and at both ends: what
\* doPost(), doReply(), handle_MONITOR() and pop() do to the two queues.
Delivered == TypeOK /\ InOrder /\ NothingLost

\* A user who pops until the queue is empty and then waits for an event is
\* never left waiting with an update in the queue.
NoMissedEvent == cqueue # <<>> => user = "draining" /\ ~needNotify

\* Exactly one doReply() is dispatched or deferred while "scheduled" is set,
\* and none otherwise: "assert(!self->scheduled)" (servermon.cpp:214).
HasReply(js) == \E i \in 1..Len(js) : js[i] = "reply"
OneReply(js) ==
    \E i \in 1..Len(js) : js[i] = "reply" /\ \A k \in 1..Len(js) : js[k] = "reply" => k = i
ScheduledOnce ==
    sstate \in {"Idle", "Executing"} =>
        IF scheduled
        THEN (OneReply(jobs) /\ backlog = 0) \/ (~HasReply(jobs) /\ backlog = 1)
        ELSE ~HasReply(jobs) /\ backlog = 0

\* A running subscription with something to send, which it may send, has
\* doReply() dispatched to the loop or waiting for bevWrite(): post() and start
\* racing with doReply() and with a full TX buffer strand no update.
ReplyComing == HasReply(jobs) \/ (backlog > 0 /\ (txFull \/ inWrite))
NoStall ==
    sstate = "Executing" /\ squeue # <<>> /\ (~Pipeline \/ swindow > 0) => ReplyComing

\* The source is told to stop whenever it was told to start.
StopFollowsStart == started <=> sstate = "Executing"

\* The sum of a sequence of numbers
Total(s) ==
    LET sum[i \in 0..Len(s)] == IF i = 0 THEN 0 ELSE sum[i - 1] + s[i]
    IN  sum[Len(s)]

\* The number of updates which the server may still send, is sending, or for
\* which the ack. is on its way, is what the client takes its window to be.
Updates == Total([i \in 1..Len(s2c) |-> IF s2c[i].cmd = "DATA" THEN 1 ELSE 0])
AckSum == Total([i \in 1..Len(c2s) |-> IF c2s[i].cmd = "ACK" THEN c2s[i].nack ELSE 0])
WindowAgreed ==
    Pipeline /\ Live /\ ~finished => cwindow = swindow + Updates + AckSum

\* A pipelined subscription never holds more than queueSize entries on the
\* client, with the updates in flight towards it, until finish().
ClientBounded == Pipeline /\ ~finished => Len(cqueue) + Updates <= QueueSize

\* Flow control: the two ends agree on the window (servermon.cpp:661,
\* clientmon.cpp:431), and it does bound what the client has to hold.
FlowControlled == WindowAgreed /\ ClientBounded

\* The client never sends what the server takes for a violation of the protocol,
\* which would cost all subscriptions of the connection (servermon.cpp:509,629).
RequestsAccepted == c2s # <<>> => ~Refused(Head(c2s))

\* The server's own checks never fail, neither the assertion on "scheduled" in
\* doReply() nor the ones on requests in handle_MONITOR().
ServerChecksHold == ScheduledOnce /\ RequestsAccepted

\* Everything posted to a subscription which neither is cancelled nor loses its
\* connection is popped by the user.  With "pipeline" too: the window is "the
\* number of updates which may be sent before a client ack. must be received"
\* (source.h:135), so the ack. lets the server go on.
Covered == UNION Range(popped) \cup dropped
EveryPostPopped ==
    \A n \in 1..MaxPost : (posted >= n) ~> (n \in Covered)

\* finish(): "Signal to subscriber that this subscription will not yield any
\* further events." (source.h:121): the client gets to know.
FinishSeen == finished ~> (cstate = "Done")

\* A source which is paced by onHighMark() is never left asleep with updates to
\* post (servermon.cpp:663): all of them arrive, and the end of them.
AllArrives == EveryPostPopped /\ FinishSeen
=============================================================================
