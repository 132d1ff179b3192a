--------------------------- MODULE ChannelServer ---------------------------
(***************************************************************************)
(* What a server keeps for each connection: ServerConn, ServerChan         *)
(* (serverconn.cpp, serverchan.cpp) and the reply to GET_FIELD             *)
(* (serverintrospect.cpp).  Handlers run on the acceptor loop.  The data   *)
(* source accepts or refuses Channels, closes them, and answers GET_FIELD  *)
(* whenever it likes.                                                      *)
(***************************************************************************)
EXTENDS Integers, Sequences, FiniteSets

CONSTANTS Links     \* TCP connections at a time

VARIABLE sv

\* ServerConn::ServerConn() queues CONNECTION_VALIDATION.
NoPeer == [chans |-> {}, nextSID |-> 1, ops |-> {}, tx |-> <<>>]
NewPeer == [NoPeer EXCEPT !.tx = <<[cmd |-> "VALIDATION"]>>]

InitServer == sv = [k \in Links |-> NoPeer]

Sent(p, m) == [p EXCEPT !.tx = Append(@, m)]
ChanOf(p, sid) == {x \in p.chans : x.sid = sid}

\* ServerChan::cleanup() of the operations of a Channel
WithoutOps(p, sid) == {x \in p.ops : x.sid # sid}

\* handle_CONNECTION_VALIDATION(): any credentials will do.
OnValidation(p) == Sent(p, [cmd |-> "VALIDATED"])

\* handle_CREATE_CHANNEL(), of a name some Source accepts or none does.
OnCreate(p, m, ok) ==
    LET q == [p EXCEPT !.nextSID = @ + 1,
                       !.chans = IF ok THEN @ \cup {[sid |-> p.nextSID, cid |-> m.cid, name |-> m.name, open |-> TRUE]}
                                 ELSE @]
    IN  Sent(q, [cmd |-> "CREATED", cid |-> m.cid, ok |-> ok,
                 sid |-> IF ok THEN p.nextSID ELSE 0])

\* handle_DESTROY_CHANNEL(): a Channel which is not known is no error.
OnDestroy(p, m) ==
    IF ChanOf(p, m.sid) = {} THEN p
    ELSE LET x == CHOOSE y \in ChanOf(p, m.sid) : TRUE
         IN  Sent([p EXCEPT !.chans = @ \ {x},
                            !.ops = IF x.open THEN WithoutOps(p, m.sid) ELSE @],
                  [cmd |-> "DESTROYED", sid |-> m.sid, cid |-> m.cid])

\* handle_GET_FIELD(); a closed Channel is still found.
OnGetField(p, m) ==
    IF ChanOf(p, m.sid) = {} \/ \E x \in p.ops : x.ioid = m.ioid THEN p
    ELSE [p EXCEPT !.ops = @ \cup {[ioid |-> m.ioid, sid |-> m.sid]}]

\* handle_DESTROY_REQUEST()
OnDestroyRequest(p, m) == [p EXCEPT !.ops = {x \in @ : x.ioid # m.ioid}]

\* handle_SEARCH() on TCP; found: those a Source claims
OnSearch(p, found) ==
    IF found = {} THEN p ELSE Sent(p, [cmd |-> "SEARCH_RESPONSE", cids |-> found])

\* ConnBase::bevRead(): a complete message is handed to its handler.
OnMessage(p, m, hosted) ==
    CASE m.cmd = "VALIDATION" -> OnValidation(p)
      [] m.cmd = "CREATE" -> OnCreate(p, m, m.name \in hosted)
      [] m.cmd = "DESTROY" -> OnDestroy(p, m)
      [] m.cmd = "GET_FIELD" -> OnGetField(p, m)
      [] m.cmd = "DESTROY_REQUEST" -> OnDestroyRequest(p, m)
      [] m.cmd = "SEARCH" -> OnSearch(p, {x.cid : x \in {y \in m.asks : y.name \in hosted}})

\* ServerIntrospect::doReply(): connect() or error() of the source, or its
\* destruction without either
Reply(k) ==
    \E x \in sv[k].ops :
        sv' = [sv EXCEPT ![k] = Sent([@ EXCEPT !.ops = @ \ {x}],
                                     [cmd |-> "GET_FIELD", ioid |-> x.ioid])]

\* ServerChannelControl::close() by the source.  The Channel stays in chanBySID
\* until the client answers.
CloseChannel(k) ==
    \E x \in sv[k].chans :
        /\ x.open
        /\ sv' = [sv EXCEPT ![k] =
             Sent([@ EXCEPT !.chans = (@ \ {x}) \cup {[x EXCEPT !.open = FALSE]},
                            !.ops = WithoutOps(sv[k], x.sid)],
                  [cmd |-> "DESTROYED", sid |-> x.sid, cid |-> x.cid])]
=============================================================================
