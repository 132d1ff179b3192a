----------------------------- MODULE MCChannel -----------------------------
EXTENDS ChannelSystem

CONSTANTS n1, n2, n3, s1, s2,
          i1, j1, i2, i3,   \* info() of n1, twice, n2 and n3
          c1, c2            \* connect() to n1 and n2

MCOpName == [o \in Ops |-> IF o \in {i2, c2} THEN n2 ELSE IF o = i3 THEN n3 ELSE n1]
\* n3 is found on two servers
MCHosts == [n \in Names |-> IF n = n3 THEN {s1, s2} ELSE {s1}]
MCForced == [n \in Names |-> IF n = n2 THEN s1 ELSE NoServer]

Case(ops, clear, may, n) == [ops |-> ops, clear |-> clear, may |-> may, faults |-> n]
MCScenarios == {
    Case({i1}, {}, {"Refuse", "Lose"}, 2),
    Case({i1, c1}, {}, {"Refuse"}, 1),
    Case({i1, j1}, {"Clean"}, {}, 0),
    Case({i2, c2}, {}, {"Refuse"}, 1),
    Case({i1, i2}, {}, {}, 0),
    Case({i3}, {"Clean"}, {}, 1),
    Case({i1}, {"Drop", "Disconnect"}, {}, 1),
    Case({c1}, {"Drop", "Disconnect"}, {}, 1),
    Case({i1, c1}, {"Drop"}, {}, 0),
    Case({i2, c2}, {"Drop"}, {}, 1),
    Case({i1, c2}, {"Drop"}, {}, 0),
    Case({c1, c2}, {"Clean"}, {"NS"}, 0),
    Case({i1}, {}, {"NS"}, 1),
    Case({i1}, {}, {"Poke"}, 1),
    Case({i1, c1}, {}, {"Close"}, 1),
    Case({i1}, {}, {"Close", "NS"}, 0)}
=============================================================================
