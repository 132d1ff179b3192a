---------------------------- MODULE MCDiscovery ----------------------------
EXTENDS DiscoverySystem

CONSTANTS p1, p2, t1, t2, n1

\* p1 is bound to an interface, p2 to the wildcard address
MCListeners == [p \in Procs |-> IF p = p1 THEN {"Ucast", "Bcast"} ELSE {"any"}]
MCHosted == [p \in Procs |-> {n1}]

Pkt(dst, reply, tcp, must, names) ==
    [cmd |-> "SEARCH", dst |-> dst, tag |-> FALSE, reply |-> reply, tcp |-> tcp,
     must |-> must, names |-> names, to |-> "all", id |-> 0]
MCRequests ==
    {Pkt(dst, reply, TRUE, FALSE, {n1}) : dst \in {"Ucast", "Ucast6", "Bcast"}, reply \in {"any", "client"}}
    \cup {Pkt(dst, "any", FALSE, TRUE, {}) : dst \in {"Ucast", "Bcast"}}

Case(procs, threads, calls, n, k, c) ==
    [procs |-> procs, threads |-> threads, calls |-> calls, requests |-> n, lost |-> k, changes |-> c]
MCScenarios == {
    Case({p1}, {t1, t2}, {"stop", "conn"}, 0, 0, 3),
    Case({p2}, {t1, t2}, {"run", "stop"}, 0, 0, 4),
    Case({p1, p2}, {t1}, {}, 1, 0, 2),
    Case({p1}, {t1}, {"stop"}, 2, 0, 2),
    Case({p1}, {t1}, {"clean", "crash", "discover"}, 1, 0, 3),
    Case({p1}, {t1}, {"clean", "discover", "source"}, 1, 0, 2),
    Case({p1}, {t1}, {"clean", "stop", "discover"}, 0, 3, 2),
    Case({p1, p2}, {t1}, {"clean"}, 0, 1, 2)}
=============================================================================
