--------------------------- MODULE ClientBeacons ---------------------------
(***************************************************************************)
(* The servers a client context knows of by their beacons: onBeacon() on   *)
(* the UDP loop, tickBeaconClean(), and the discover() operations which    *)
(* are told (client.cpp, clientdiscover.cpp).  pokeLock makes each of them *)
(* one step.                                                               *)
(***************************************************************************)
EXTENDS Integers, FiniteSets

CONSTANTS
    Origins,        \* servers, by address and protocol
    Discs,          \* discover() operations
    TrackLimit,     \* beaconTrackLimit
    MaxAge          \* age limit, 2*beaconCleanInterval, in the units of age

ASSUME TrackAssumption == TrackLimit \in Nat /\ MaxAge \in Nat

VARIABLES
    track,          \* beaconTrack
    disc,           \* of each operation: running, and the last event of each server
    poked           \* the search was told to hurry up

bvars == <<track, disc, poked>>

None == [known |-> FALSE, guid |-> 0, change |-> 0, age |-> 0]
NoEvent == [ev |-> "none", guid |-> 0]
NewDisc == [st |-> "new", last |-> [p \in Origins |-> NoEvent]]

InitBeacons ==
    /\ track = [p \in Origins |-> None]
    /\ disc = [d \in Discs |-> NewDisc]
    /\ poked = FALSE

\* ContextImpl::serverEvent()
ServerEvent(ds, p, ev, guid) ==
    [d \in Discs |-> IF ds[d].st = "running"
                     THEN [ds[d] EXCEPT !.last[p] = [ev |-> ev, guid |-> guid]] ELSE ds[d]]

Tracked == {p \in Origins : track[p].known}

\* does a known server announce something new?
Changed(cur, guid, change) == cur.guid # guid \/ cur.change # change

\* "Tracking too many beacons".
TrackFull == Cardinality(Tracked) >= TrackLimit

\* ContextImpl::onBeacon()
OnBeacon(p, guid, change) ==
    LET new == ~track[p].known
        upd == track[p].known /\ Changed(track[p], guid, change)
        lost == IF upd THEN ServerEvent(disc, p, "Timeout", track[p].guid) ELSE disc
    IN  IF new /\ TrackFull THEN UNCHANGED bvars
        ELSE /\ track' = [track EXCEPT ![p] = [known |-> TRUE, guid |-> guid,
                                               change |-> change, age |-> 0]]
             /\ disc' = IF new \/ upd THEN ServerEvent(lost, p, "Online", guid) ELSE disc
             /\ poked' = (poked \/ new \/ upd)

\* Time passes; how much beyond the limit makes no difference.  The system clock is
\* not set back (a negative age).
Older(cur) == IF cur.known /\ cur.age <= MaxAge THEN [cur EXCEPT !.age = @ + 1] ELSE cur
Aging ==
    /\ track' = [p \in Origins |-> Older(track[p])]
    /\ UNCHANGED <<disc, poked>>

\* ContextImpl::tickBeaconClean(): those not heard of for too long.  Mutant: the
\* limit is one interval, not two.
TooOldEarly(cur) == cur.age > MaxAge \div 2
TooOld(cur) == cur.age > MaxAge
CleanEvents(old) ==
    [d \in Discs |-> IF disc[d].st # "running" THEN disc[d]
                     ELSE [disc[d] EXCEPT !.last = [p \in Origins |->
                              IF p \in old THEN [ev |-> "Timeout", guid |-> track[p].guid] ELSE @[p]]]]
CleanTick ==
    LET old == {p \in Tracked : TooOld(track[p])}
    IN  /\ track' = [p \in Origins |-> IF p \in old THEN None ELSE track[p]]
        /\ disc' = CleanEvents(old)
        /\ UNCHANGED poked

\* DiscoverBuilder::exec(), on the worker
Discover(d) ==
    /\ disc[d].st = "new"
    /\ disc' = [disc EXCEPT ![d].st = "running"]
    /\ UNCHANGED <<track, poked>>
\* only the first of them asks all servers for a reply
Pings(d) == \A e \in Discs : disc[e].st # "running"

\* cancel() or release of the handle
Cancel(d) ==
    /\ disc[d].st = "running"
    /\ disc' = [disc EXCEPT ![d].st = "done"]
    /\ UNCHANGED <<track, poked>>

\* procSearchReply() of a discovery pong: a beacon without change count
OnPong(p, guid) ==
    IF \E d \in Discs : disc[d].st = "running" THEN OnBeacon(p, guid, 0) ELSE UNCHANGED bvars
=============================================================================
