----------------------------- MODULE ValueFlow ------------------------------
(***************************************************************************)
(* Data of a subscription, end to end: SharedPV::post() (sharedpv.cpp),    *)
(* the server's queues (servermon.cpp), the encoding, and the client's     *)
(* cache and queue (clientmon.cpp).  post() queues ONE copy of the update  *)
(* for all subscribers: heap holds the copies, a server queue their        *)
(* indices.  A message is decoded as it is sent: the connection keeps      *)
(* their order and nothing else depends on when it arrives.                *)
(***************************************************************************)
EXTENDS PVRequest

CONSTANTS Subs,         \* subscriptions
          Limit,        \* of a server queue
          QueueSize     \* of a client queue

VARIABLES current,      \* SharedPV::Impl::current
          heap,         \* updates that were queued
          sub           \* for each subscription: see Idle

flowVars == <<current, heap, sub>>

\* connected; mask: pvMask; first; queue: indices in heap; proto: the client's
\* cache; cqueue: the client's queue; seen: what the marked fields of the popped
\* values say; last: the last popped value
Idle(descs, mask) ==
    [up |-> FALSE, mask |-> mask, first |-> TRUE, queue |-> <<>>, proto |-> Create(descs),
     cqueue |-> <<>>, seen |-> Create(descs), last |-> Create(descs)]

FlowInit(descs, initial, masks) ==
    /\ current = Clone(initial).val
    /\ heap = <<>>
    /\ sub = [s \in Subs |-> Idle(descs, masks[s])]

\* doPost() of update obj to one subscription: [s, heap].  A full queue is
\* squashed: its last entry is assigned, whoever else has it queued.
DoPost(h, s, obj) ==
    LET real == s.first \/ TestMask(h[obj], s.mask)
        t == [s EXCEPT !.first = FALSE]
        back == s.queue[Len(s.queue)]
    IN  CASE ~real -> [s |-> t, heap |-> h]
          [] Len(s.queue) < Limit -> [s |-> [t EXCEPT !.queue = Append(@, obj)], heap |-> h]
          [] OTHER -> [s |-> t, heap |-> [h EXCEPT ![back] = Assign(@, h[obj]).val]]

RECURSIVE PostAll(_, _, _, _)
PostAll(h, subs, todo, obj) ==
    IF todo = {} THEN [subs |-> subs, heap |-> h]
    ELSE LET s == CHOOSE x \in todo : TRUE
             Rest(r) == PostAll(r.heap, [subs EXCEPT ![s] = r.s], todo \ {s}, obj)
         IN  Rest(DoPost(h, subs[s], obj))

\* Entries no queue refers to any more are freed.
Freed(h, subs) ==
    [k \in DOMAIN h |-> IF \E s \in Subs : Contains(subs[s].queue, k) THEN h[k] ELSE <<>>]

\* SharedPV::post()
Post(delta) ==
    LET Posted(r) == heap' = Freed(r.heap, r.subs) /\ sub' = r.subs
    IN  /\ current' = Assign(current, delta).val
        /\ Posted(PostAll(Append(heap, Clone(delta).val), sub, {s \in Subs : sub[s].up}, Len(heap) + 1))

\* Impl::connectSub(): the subscription begins with a copy of current
Connect(s) ==
    /\ ~sub[s].up
    /\ LET Posted(r) == sub' = [sub EXCEPT ![s] = r.s] /\ heap' = r.heap
       IN  Posted(DoPost(Append(heap, Clone(current).val), [sub[s] EXCEPT !.up = TRUE], Len(heap) + 1))
    /\ UNCHANGED current

\* doReply() of the oldest entry, and handle_MONITOR(): decoded, completed from
\* the cache, and queued or squashed
Squashed(q, val) == [q EXCEPT ![Len(q)] = Assign(@, val).val]
Received(s, sync) ==
    [s EXCEPT !.queue = Tail(@), !.proto = sync.cache,
              !.cqueue = IF Len(@) >= QueueSize THEN Squashed(@, sync.dlt) ELSE Append(@, sync.dlt)]
Reply(s) ==
    /\ sub[s].queue # <<>>
    /\ LET wire == ValidToWire(heap[Head(sub[s].queue)], sub[s].mask)
           delta == ValidFromWire(Create(current.d), wire, <<>>).val
       IN  sub' = [sub EXCEPT ![s] = Received(@, CacheSync(@.proto, delta))]
    /\ heap' = Freed(heap, sub')
    /\ UNCHANGED current

\* Subscription::pop(): the user applies the marked fields to its own copy
Pop(s) ==
    /\ sub[s].cqueue # <<>>
    /\ LET val == Head(sub[s].cqueue)
       IN  sub' = [sub EXCEPT ![s].cqueue = Tail(@), ![s].last = val,
                              ![s].seen.s = [i \in DOMAIN @ |-> IF IsMarked(val, i, TRUE, FALSE)
                                                                THEN [@[i] EXCEPT !.v = val.s[i].v] ELSE @[i]]]
    /\ UNCHANGED <<current, heap>>

FlowNext(deltas, maxPosts) ==
    \/ Len(heap) < maxPosts /\ \E d \in deltas : Post(d)
    \/ \E s \in Subs : Connect(s) \/ Reply(s) \/ Pop(s)
=============================================================================
