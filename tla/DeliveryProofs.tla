-------------------------- MODULE DeliveryProofs --------------------------
(***************************************************************************)
(* A subscription delivers what is posted to it, in order and completely   *)
(* (AllDelivered), the client keeps to the protocol                        *)
(* (RequestsAlwaysAccepted), and the server's own checks hold              *)
(* (ChecksAlwaysHold), for any queue size, any number of posts and any     *)
(* number of lost connections.                                             *)
(*                                                                         *)
(* A Value may be in one of four places: popped, in the client's queue, on *)
(* the wire, in the server's queue.  Flow says that each of them holds     *)
(* posts in order, and all posts of one place precede those of the next.   *)
(* Each action moves the front of one place to the end of another, adds to *)
(* one end or drops from the other: the lemmas about Flow are about these  *)
(* moves, and the steps of the system are reduced to them.                 *)
(***************************************************************************)
EXTENDS MonitorSystem, SequenceTheorems, TLAPS

-----------------------------------------------------------------------------
(* Sequences of Values, a Value being the set of the posts it carries      *)

Values == Seq(SUBSET Nat)

Holds(s) == UNION {s[i] : i \in 1..Len(s)}
Before(u, v) == \A m \in u, n \in v : m < n
Ordered(s) == \A i, j \in 1..Len(s) : i < j => Before(s[i], s[j])
Squashed(s, v) == [s EXCEPT ![Len(s)] = s[Len(s)] \cup v]

\* Nothing
LEMMA NoValues == Holds(<<>>) = {} /\ Ordered(<<>>) /\ <<>> \in Values
BY DEF Holds, Ordered, Values

\* One more
LEMMA AppendValue ==
    ASSUME NEW s \in Values, NEW v \in SUBSET Nat
    PROVE  /\ Append(s, v) \in Values
           /\ Holds(Append(s, v)) = Holds(s) \cup v
           /\ Ordered(s) /\ Before(Holds(s), v) => Ordered(Append(s, v))
<1> DEFINE a == Append(s, v)
<1>1. /\ a \in Values /\ Len(s) \in Nat /\ Len(a) = Len(s) + 1 /\ a[Len(s) + 1] = v
      /\ \A i \in 1..Len(s) : a[i] = s[i]
  BY DEF Values
<1> HIDE DEF a
<1>2. 1..Len(a) = 1..Len(s) \cup {Len(s) + 1}
  BY <1>1
<1>3. Holds(a) = Holds(s) \cup v
  BY <1>1, <1>2 DEF Holds
<1>4. ASSUME Ordered(s), Before(Holds(s), v), NEW i \in 1..Len(a), NEW j \in 1..Len(a), i < j
      PROVE  Before(a[i], a[j])
  <2>1. i \in 1..Len(s) /\ a[i] = s[i]
    BY <1>1, <1>4
  <2>2. CASE j \in 1..Len(s)
    BY <1>1, <1>4, <2>1, <2>2 DEF Ordered
  <2>3. CASE j = Len(s) + 1
    <3>1. s[i] \subseteq Holds(s)
      BY <2>1 DEF Holds
    <3>2. QED
      BY <1>1, <1>4, <2>1, <2>3, <3>1 DEF Before
  <2>4. QED
    BY <1>2, <2>2, <2>3
<1>5. QED
  BY <1>1, <1>3, <1>4 DEF Ordered, a

\* One less
LEMMA TailValue ==
    ASSUME NEW s \in Values, s # <<>>
    PROVE  /\ Tail(s) \in Values /\ Head(s) \in SUBSET Nat
           /\ Holds(s) = Head(s) \cup Holds(Tail(s))
           /\ Ordered(s) => Ordered(Tail(s)) /\ Before(Head(s), Holds(Tail(s)))
<1> DEFINE t == Tail(s)
<1>1. /\ t \in Values /\ Len(s) \in Nat \ {0} /\ Len(t) = Len(s) - 1 /\ Head(s) = s[1] /\ s[1] \in SUBSET Nat
      /\ \A i \in 1..Len(t) : t[i] = s[i + 1]
  BY DEF Values
<1> HIDE DEF t
<1>2. /\ \A i \in 1..Len(s) : i = 1 \/ (i - 1 \in 1..Len(t) /\ t[i - 1] = s[i])
      /\ \A i \in 1..Len(t) : i + 1 \in 1..Len(s) /\ t[i] = s[i + 1]
      /\ 1 \in 1..Len(s)
  <2>1. \A i \in 1..Len(s) : i = 1 \/ (i - 1 \in 1..Len(t) /\ (i - 1) + 1 = i)
    BY <1>1
  <2>2. QED
    BY <1>1, <2>1
<1>3. Holds(s) = s[1] \cup Holds(t)
  BY <1>2 DEF Holds
<1>4. ASSUME Ordered(s) PROVE Ordered(t) /\ Before(s[1], Holds(t))
  <2>1. \A i \in 1..Len(t) : Before(s[1], t[i])
    BY <1>1, <1>2, <1>4 DEF Ordered
  <2>2. \A i, j \in 1..Len(t) : i < j => Before(t[i], t[j])
    BY <1>1, <1>2, <1>4 DEF Ordered
  <2>3. QED
    BY <2>1, <2>2 DEF Ordered, Before, Holds
<1>5. QED
  BY <1>1, <1>3, <1>4 DEF t

\* The last one squashed with another
LEMMA SquashValue ==
    ASSUME NEW s \in Values, s # <<>>, NEW v \in SUBSET Nat
    PROVE  /\ Squashed(s, v) \in Values
           /\ Holds(Squashed(s, v)) = Holds(s) \cup v
           /\ Ordered(s) /\ Before(Holds(s), v) => Ordered(Squashed(s, v))
<1> DEFINE a == Squashed(s, v)
<1>1. Len(s) \in Nat \ {0} /\ Len(s) \in 1..Len(s)
  BY EmptySeq, LenProperties DEF Values
<1>2. s[Len(s)] \cup v \in SUBSET Nat
  <2>1. s[Len(s)] \in SUBSET Nat
    BY <1>1, ElementOfSeq DEF Values
  <2>2. QED
    BY <2>1
<1>3. /\ a \in Values /\ Len(a) = Len(s)
      /\ \A i \in 1..Len(s) : a[i] = IF i = Len(s) THEN s[Len(s)] \cup v ELSE s[i]
  BY <1>1, <1>2, ExceptSeq DEF Values, Squashed
<1> HIDE DEF a
<1>4. Holds(a) = Holds(s) \cup v
  <2>1. a[Len(s)] = s[Len(s)] \cup v
    BY <1>1, <1>3
  <2>2. \A i \in 1..Len(s) : s[i] \subseteq a[i] /\ a[i] \subseteq s[i] \cup v
    BY <1>3
  <2>3. QED
    BY <1>1, <1>3, <2>1, <2>2 DEF Holds
<1>5. ASSUME Ordered(s), Before(Holds(s), v), NEW i \in 1..Len(a), NEW j \in 1..Len(a), i < j
      PROVE  Before(a[i], a[j])
  <2>1. i # Len(s) /\ i \in 1..Len(s) /\ j \in 1..Len(s)
    BY <1>1, <1>3, <1>5
  <2>2. Before(s[i], s[j]) /\ s[i] \subseteq Holds(s) /\ a[i] = s[i]
    BY <1>3, <1>5, <2>1 DEF Ordered, Holds
  <2>3. a[j] \subseteq s[j] \cup v
    BY <1>3, <2>1
  <2>4. QED
    BY <1>5, <2>2, <2>3 DEF Before
<1>6. QED
  BY <1>3, <1>4, <1>5 DEF Ordered, a

\* Several more
LEMMA ConcatValues ==
    ASSUME NEW s \in Values, NEW t \in Values
    PROVE  /\ s \o t \in Values
           /\ Holds(s \o t) = Holds(s) \cup Holds(t)
           /\ Ordered(s) /\ Ordered(t) /\ Before(Holds(s), Holds(t)) => Ordered(s \o t)
<1> DEFINE a == s \o t
<1>1. /\ a \in Values /\ Len(s) \in Nat /\ Len(t) \in Nat /\ Len(a) = Len(s) + Len(t)
      /\ \A i \in 1..Len(a) : a[i] = IF i <= Len(s) THEN s[i] ELSE t[i - Len(s)]
  BY ConcatProperties DEF Values
<1> HIDE DEF a
<1>2. /\ \A i \in 1..Len(s) : i \in 1..Len(a) /\ a[i] = s[i]
      /\ \A i \in 1..Len(t) : i + Len(s) \in 1..Len(a) /\ a[i + Len(s)] = t[i]
      /\ \A i \in 1..Len(a) : i \in 1..Len(s) \/ (i - Len(s) \in 1..Len(t) /\ ~(i <= Len(s)))
  <2>1. \A i \in 1..Len(t) : i + Len(s) \in 1..Len(a) /\ ~(i + Len(s) <= Len(s)) /\ (i + Len(s)) - Len(s) = i
    BY <1>1
  <2>2. \A i \in 1..Len(s) : i \in 1..Len(a) /\ i <= Len(s)
    BY <1>1
  <2>3. \A i \in 1..Len(a) : i \in 1..Len(s) \/ (i - Len(s) \in 1..Len(t) /\ ~(i <= Len(s)))
    BY <1>1
  <2>4. QED
    BY <1>1, <2>1, <2>2, <2>3
<1>3. Holds(a) = Holds(s) \cup Holds(t)
  <2>1. ASSUME NEW n \in Holds(a) PROVE n \in Holds(s) \cup Holds(t)
    <3>1. PICK i \in 1..Len(a) : n \in a[i]
      BY <2>1 DEF Holds
    <3>2. CASE i \in 1..Len(s)
      BY <1>2, <3>1, <3>2 DEF Holds
    <3>3. CASE i - Len(s) \in 1..Len(t) /\ ~(i <= Len(s))
      <4>1. n \in t[i - Len(s)]
        BY <1>1, <3>1, <3>3
      <4>2. QED
        BY <3>3, <4>1 DEF Holds
    <3>4. QED
      BY <1>2, <3>2, <3>3
  <2>2. ASSUME NEW n \in Holds(s) PROVE n \in Holds(a)
    BY <1>2, <2>2 DEF Holds
  <2>3. ASSUME NEW n \in Holds(t) PROVE n \in Holds(a)
    BY <1>2, <2>3 DEF Holds
  <2>4. QED
    BY <2>1, <2>2, <2>3
<1>4. ASSUME Ordered(s), Ordered(t), Before(Holds(s), Holds(t)),
             NEW i \in 1..Len(a), NEW j \in 1..Len(a), i < j
      PROVE  Before(a[i], a[j])
  <2>1. CASE j \in 1..Len(s)
    <3>1. i \in 1..Len(s)
      BY <1>1, <1>4, <2>1
    <3>2. QED
      BY <1>2, <1>4, <2>1, <3>1 DEF Ordered
  <2>2. CASE i \in 1..Len(s) /\ j - Len(s) \in 1..Len(t) /\ ~(j <= Len(s))
    <3>1. a[i] = s[i] /\ a[j] = t[j - Len(s)]
      BY <1>1, <1>2, <2>2
    <3>2. s[i] \subseteq Holds(s) /\ t[j - Len(s)] \subseteq Holds(t)
      BY <2>2 DEF Holds
    <3>3. QED
      BY <1>4, <3>1, <3>2 DEF Before
  <2>3. CASE ~(i <= Len(s)) /\ i - Len(s) \in 1..Len(t) /\ j - Len(s) \in 1..Len(t) /\ ~(j <= Len(s))
    <3>1. a[i] = t[i - Len(s)] /\ a[j] = t[j - Len(s)] /\ i - Len(s) < j - Len(s)
      BY <1>1, <1>4, <2>3
    <3>2. QED
      BY <1>4, <2>3, <3>1 DEF Ordered
  <2>4. QED
    BY <1>1, <1>2, <2>1, <2>2, <2>3
<1>5. QED
  BY <1>1, <1>3, <1>4 DEF Ordered, a

-----------------------------------------------------------------------------
(* Values on their way: popped, in the client's queue, on the wire and in  *)
(* the server's queue, the last post being the n-th                        *)

UpTo(v, n) == \A m \in v : m <= n
Flow(p, c, s, q, n) ==
    /\ p \in Values /\ c \in Values /\ s \in Values /\ q \in Values
    /\ Ordered(p) /\ Ordered(c) /\ Ordered(s) /\ Ordered(q)
    /\ Before(Holds(p), Holds(c)) /\ Before(Holds(p), Holds(s)) /\ Before(Holds(p), Holds(q))
    /\ Before(Holds(c), Holds(s)) /\ Before(Holds(c), Holds(q)) /\ Before(Holds(s), Holds(q))
    /\ UpTo(Holds(p), n) /\ UpTo(Holds(c), n) /\ UpTo(Holds(s), n) /\ UpTo(Holds(q), n)
AllHeld(p, c, s, q) == Holds(p) \cup Holds(c) \cup Holds(s) \cup Holds(q)

\* pop() of an update
LEMMA PopFlow ==
    ASSUME NEW p, NEW c, NEW s, NEW q, NEW n \in Nat, Flow(p, c, s, q, n), c # <<>>
    PROVE  /\ Flow(Append(p, Head(c)), Tail(c), s, q, n)
           /\ AllHeld(Append(p, Head(c)), Tail(c), s, q) = AllHeld(p, c, s, q)
<1>1. p \in Values /\ c \in Values /\ s \in Values /\ q \in Values
  BY DEF Flow
<1>2. /\ Tail(c) \in Values /\ Head(c) \in SUBSET Nat /\ Holds(c) = Head(c) \cup Holds(Tail(c))
      /\ Ordered(Tail(c)) /\ Before(Head(c), Holds(Tail(c)))
  BY <1>1, TailValue DEF Flow
<1>3. Before(Holds(p), Head(c))
  BY <1>2 DEF Flow, Before
<1>4. Append(p, Head(c)) \in Values /\ Holds(Append(p, Head(c))) = Holds(p) \cup Head(c) /\ Ordered(Append(p, Head(c)))
  BY <1>1, <1>2, <1>3, AppendValue DEF Flow
<1>5. QED
  BY <1>1, <1>2, <1>4 DEF Flow, Before, UpTo, AllHeld

\* An update is received.
LEMMA ReceiveFlow ==
    ASSUME NEW p, NEW c, NEW s, NEW q, NEW n \in Nat, Flow(p, c, s, q, n), s # <<>>
    PROVE  /\ Flow(p, Append(c, Head(s)), Tail(s), q, n)
           /\ AllHeld(p, Append(c, Head(s)), Tail(s), q) = AllHeld(p, c, s, q)
<1>1. p \in Values /\ c \in Values /\ s \in Values /\ q \in Values
  BY DEF Flow
<1>2. /\ Tail(s) \in Values /\ Head(s) \in SUBSET Nat /\ Holds(s) = Head(s) \cup Holds(Tail(s))
      /\ Ordered(Tail(s)) /\ Before(Head(s), Holds(Tail(s)))
  BY <1>1, TailValue DEF Flow
<1>3. Before(Holds(c), Head(s))
  BY <1>2 DEF Flow, Before
<1>4. Append(c, Head(s)) \in Values /\ Holds(Append(c, Head(s))) = Holds(c) \cup Head(s) /\ Ordered(Append(c, Head(s)))
  BY <1>1, <1>2, <1>3, AppendValue DEF Flow
<1>5. QED
  BY <1>1, <1>2, <1>4 DEF Flow, Before, UpTo, AllHeld

\* An update is received and squashed with the last one.
LEMMA SquashFlow ==
    ASSUME NEW p, NEW c, NEW s, NEW q, NEW n \in Nat, Flow(p, c, s, q, n), s # <<>>, c # <<>>
    PROVE  /\ Flow(p, Squashed(c, Head(s)), Tail(s), q, n)
           /\ AllHeld(p, Squashed(c, Head(s)), Tail(s), q) = AllHeld(p, c, s, q)
<1> DEFINE a == Squashed(c, Head(s))
<1>1. p \in Values /\ c \in Values /\ s \in Values /\ q \in Values
  BY DEF Flow
<1>2. /\ Tail(s) \in Values /\ Head(s) \in SUBSET Nat /\ Holds(s) = Head(s) \cup Holds(Tail(s))
      /\ Ordered(Tail(s)) /\ Before(Head(s), Holds(Tail(s)))
  BY <1>1, TailValue DEF Flow
<1>3. Before(Holds(c), Head(s))
  BY <1>2 DEF Flow, Before
<1>4. a \in Values /\ Holds(a) = Holds(c) \cup Head(s) /\ Ordered(a)
  BY <1>1, <1>2, <1>3, SquashValue DEF Flow
<1> HIDE DEF a
<1>5. Flow(p, a, Tail(s), q, n) /\ AllHeld(p, a, Tail(s), q) = AllHeld(p, c, s, q)
  BY <1>1, <1>2, <1>4 DEF Flow, Before, UpTo, AllHeld
<1>6. QED
  BY <1>5 DEF a

\* An update is sent.
LEMMA SendFlow ==
    ASSUME NEW p, NEW c, NEW s, NEW q, NEW n \in Nat, Flow(p, c, s, q, n), q # <<>>
    PROVE  /\ Flow(p, c, Append(s, Head(q)), Tail(q), n)
           /\ AllHeld(p, c, Append(s, Head(q)), Tail(q)) = AllHeld(p, c, s, q)
<1>1. p \in Values /\ c \in Values /\ s \in Values /\ q \in Values
  BY DEF Flow
<1>2. /\ Tail(q) \in Values /\ Head(q) \in SUBSET Nat /\ Holds(q) = Head(q) \cup Holds(Tail(q))
      /\ Ordered(Tail(q)) /\ Before(Head(q), Holds(Tail(q)))
  BY <1>1, TailValue DEF Flow
<1>3. Before(Holds(s), Head(q))
  BY <1>2 DEF Flow, Before
<1>4. Append(s, Head(q)) \in Values /\ Holds(Append(s, Head(q))) = Holds(s) \cup Head(q) /\ Ordered(Append(s, Head(q)))
  BY <1>1, <1>2, <1>3, AppendValue DEF Flow
<1>5. QED
  BY <1>1, <1>2, <1>4 DEF Flow, Before, UpTo, AllHeld

\* What is at the front of a queue is dropped.
LEMMA SkipFlow ==
    ASSUME NEW p, NEW c, NEW s, NEW q, NEW n \in Nat, Flow(p, c, s, q, n)
    PROVE  /\ c # <<>> => Flow(p, Tail(c), s, q, n)
           /\ c # <<>> /\ Head(c) = {} => AllHeld(p, Tail(c), s, q) = AllHeld(p, c, s, q)
           /\ s # <<>> => Flow(p, c, Tail(s), q, n)
           /\ s # <<>> /\ Head(s) = {} => AllHeld(p, c, Tail(s), q) = AllHeld(p, c, s, q)
           /\ q # <<>> => Flow(p, c, s, Tail(q), n)
           /\ q # <<>> /\ Head(q) = {} => AllHeld(p, c, s, Tail(q)) = AllHeld(p, c, s, q)
<1>1. p \in Values /\ c \in Values /\ s \in Values /\ q \in Values
  BY DEF Flow
<1>2. ASSUME c # <<>>
      PROVE  Flow(p, Tail(c), s, q, n) /\ (Head(c) = {} => AllHeld(p, Tail(c), s, q) = AllHeld(p, c, s, q))
  <2>1. Tail(c) \in Values /\ Holds(c) = Head(c) \cup Holds(Tail(c)) /\ Ordered(Tail(c))
    BY <1>1, <1>2, TailValue DEF Flow
  <2>2. QED
    BY <1>1, <2>1 DEF Flow, Before, UpTo, AllHeld
<1>3. ASSUME s # <<>>
      PROVE  Flow(p, c, Tail(s), q, n) /\ (Head(s) = {} => AllHeld(p, c, Tail(s), q) = AllHeld(p, c, s, q))
  <2>1. Tail(s) \in Values /\ Holds(s) = Head(s) \cup Holds(Tail(s)) /\ Ordered(Tail(s))
    BY <1>1, <1>3, TailValue DEF Flow
  <2>2. QED
    BY <1>1, <2>1 DEF Flow, Before, UpTo, AllHeld
<1>4. ASSUME q # <<>>
      PROVE  Flow(p, c, s, Tail(q), n) /\ (Head(q) = {} => AllHeld(p, c, s, Tail(q)) = AllHeld(p, c, s, q))
  <2>1. Tail(q) \in Values /\ Holds(q) = Head(q) \cup Holds(Tail(q)) /\ Ordered(Tail(q))
    BY <1>1, <1>4, TailValue DEF Flow
  <2>2. QED
    BY <1>1, <2>1 DEF Flow, Before, UpTo, AllHeld
<1>5. QED
  BY <1>2, <1>3, <1>4

\* The wire, or the queue of the server, is emptied.
LEMMA EmptyFlow ==
    ASSUME NEW p, NEW c, NEW s, NEW q, NEW n \in Nat, Flow(p, c, s, q, n)
    PROVE  Flow(p, c, <<>>, q, n) /\ Flow(p, c, s, <<>>, n)
<1>1. p \in Values /\ c \in Values /\ s \in Values /\ q \in Values
  BY DEF Flow
<1>2. QED
  BY <1>1, NoValues DEF Flow, Before, UpTo

\* Something without a Value is added.
LEMMA EventFlow ==
    ASSUME NEW p, NEW c, NEW s, NEW q, NEW n \in Nat, Flow(p, c, s, q, n)
    PROVE  /\ Flow(p, Append(c, {}), s, q, n) /\ AllHeld(p, Append(c, {}), s, q) = AllHeld(p, c, s, q)
           /\ Flow(p, c, Append(s, {}), q, n) /\ AllHeld(p, c, Append(s, {}), q) = AllHeld(p, c, s, q)
           /\ Flow(p, c, s, Append(q, {}), n) /\ AllHeld(p, c, s, Append(q, {})) = AllHeld(p, c, s, q)
<1>1. p \in Values /\ c \in Values /\ s \in Values /\ q \in Values
  BY DEF Flow
<1>2. \A v \in Values : Ordered(v) =>
        Append(v, {}) \in Values /\ Holds(Append(v, {})) = Holds(v) /\ Ordered(Append(v, {}))
  <2>1. ASSUME NEW v \in Values, Ordered(v)
        PROVE  Append(v, {}) \in Values /\ Holds(Append(v, {})) = Holds(v) /\ Ordered(Append(v, {}))
    <3>1. {} \in SUBSET Nat /\ Before(Holds(v), {})
      BY DEF Before
    <3>2. QED
      BY <2>1, <3>1, AppendValue
  <2>2. QED
    BY <2>1
<1>3. /\ Append(c, {}) \in Values /\ Holds(Append(c, {})) = Holds(c) /\ Ordered(Append(c, {}))
      /\ Append(s, {}) \in Values /\ Holds(Append(s, {})) = Holds(s) /\ Ordered(Append(s, {}))
      /\ Append(q, {}) \in Values /\ Holds(Append(q, {})) = Holds(q) /\ Ordered(Append(q, {}))
  BY <1>1, <1>2 DEF Flow
<1>4. QED
  BY <1>1, <1>3 DEF Flow, AllHeld

\* Another post, which is queued or refused
LEMMA PostFlow ==
    ASSUME NEW p, NEW c, NEW s, NEW q, NEW n \in Nat, Flow(p, c, s, q, n), NEW m \in Nat, m = n + 1
    PROVE  /\ Flow(p, c, s, Append(q, {m}), m)
           /\ AllHeld(p, c, s, Append(q, {m})) = AllHeld(p, c, s, q) \cup {m}
           /\ Flow(p, c, s, q, m)
<1>1. p \in Values /\ c \in Values /\ s \in Values /\ q \in Values
  BY DEF Flow
<1>2. {m} \in SUBSET Nat /\ Before(Holds(q), {m}) /\ Holds(p) \subseteq Nat /\ Holds(c) \subseteq Nat
      /\ Holds(s) \subseteq Nat /\ Holds(q) \subseteq Nat
  <2>1. \A v \in Values : Holds(v) \subseteq Nat
    BY DEF Values, Holds
  <2>2. QED
    BY <1>1, <2>1 DEF Before, Flow, UpTo
<1>3. Append(q, {m}) \in Values /\ Holds(Append(q, {m})) = Holds(q) \cup {m} /\ Ordered(Append(q, {m}))
  BY <1>1, <1>2, AppendValue DEF Flow
<1>4. Flow(p, c, s, Append(q, {m}), m) /\ Flow(p, c, s, q, m)
  <2>1. /\ UpTo(Holds(p), m) /\ UpTo(Holds(c), m) /\ UpTo(Holds(s), m) /\ UpTo(Holds(q), m)
        /\ Before(Holds(p), {m}) /\ Before(Holds(c), {m}) /\ Before(Holds(s), {m}) /\ UpTo({m}, m)
    BY <1>2 DEF Flow, UpTo, Before
  <2>2. QED
    BY <1>1, <1>3, <2>1 DEF Flow, Before, UpTo
<1>5. AllHeld(p, c, s, Append(q, {m})) = AllHeld(p, c, s, q) \cup {m}
  BY <1>3 DEF AllHeld
<1>6. QED
  BY <1>4, <1>5

\* Another post, which is squashed with the last one
LEMMA SquashPostFlow ==
    ASSUME NEW p, NEW c, NEW s, NEW q, NEW n \in Nat, Flow(p, c, s, q, n), NEW m \in Nat, m = n + 1,
           q # <<>>
    PROVE  /\ Flow(p, c, s, Squashed(q, {m}), m)
           /\ AllHeld(p, c, s, Squashed(q, {m})) = AllHeld(p, c, s, q) \cup {m}
<1> DEFINE a == Squashed(q, {m})
<1>1. q \in Values /\ Ordered(q) /\ UpTo(Holds(q), n)
  BY DEF Flow
<1>2. {m} \in SUBSET Nat /\ Before(Holds(q), {m})
  <2>1. Holds(q) \subseteq Nat
    BY <1>1 DEF Values, Holds
  <2>2. QED
    BY <1>1, <2>1 DEF Before, UpTo
<1>3. a \in Values /\ Holds(a) = Holds(q) \cup {m} /\ Ordered(a)
  BY <1>1, <1>2, SquashValue
<1>4. Flow(p, c, s, Append(q, {m}), m) /\ Holds(a) = Holds(Append(q, {m}))
  BY <1>1, <1>2, <1>3, PostFlow, AppendValue
<1> HIDE DEF a
<1>5. Flow(p, c, s, a, m) /\ AllHeld(p, c, s, a) = AllHeld(p, c, s, q) \cup {m}
  BY <1>3, <1>4 DEF Flow, AllHeld
<1>6. QED
  BY <1>5 DEF a

\* All of them together are in order.
LEMMA FlowInOrder ==
    ASSUME NEW p, NEW c, NEW s, NEW q, NEW n \in Nat, Flow(p, c, s, q, n)
    PROVE  /\ Ordered(p \o (c \o s \o q)) /\ Holds(c \o s \o q) = Holds(c) \cup Holds(s) \cup Holds(q)
           /\ c \o s \o q \in Values
<1>1. p \in Values /\ c \in Values /\ s \in Values /\ q \in Values
  BY DEF Flow
<1>2. c \o s \in Values /\ Holds(c \o s) = Holds(c) \cup Holds(s) /\ Ordered(c \o s)
  BY <1>1, ConcatValues DEF Flow
<1>3. Before(Holds(c \o s), Holds(q))
  BY <1>2 DEF Flow, Before
<1>4. c \o s \o q \in Values /\ Holds(c \o s \o q) = Holds(c \o s) \cup Holds(q) /\ Ordered(c \o s \o q)
  BY <1>1, <1>2, <1>3, ConcatValues DEF Flow
<1>5. Before(Holds(p), Holds(c \o s \o q))
  BY <1>2, <1>4 DEF Flow, Before
<1>6. Ordered(p \o (c \o s \o q))
  BY <1>1, <1>4, <1>5, ConcatValues DEF Flow
<1>7. QED
  BY <1>2, <1>4, <1>6

-----------------------------------------------------------------------------
(* Types                                                                   *)

Posts == SUBSET (1..MaxPost)
Jobs == {"reply", "error", "high"}
Entries == [kind : {"Connected", "Disconnect", "Finished", "RemoteError"}] \cup [kind : {"data"}, val : Posts]
ToClient == [cmd : {"INIT", "INITERR", "FINISH", "MALFORMED"}] \cup [cmd : {"DATA"}, val : Posts]
ToServer == [cmd : {"START", "STOP", "DESTROY"}] \cup [cmd : {"INIT", "ACK"}, nack : Nat]

ServerTypes ==
    /\ sstate \in {"None", "Creating", "Idle", "Executing", "Dead"}
    /\ hasType \in BOOLEAN /\ msg \in BOOLEAN /\ scheduled \in BOOLEAN /\ finished \in BOOLEAN
    /\ highPending \in BOOLEAN /\ ctrl \in BOOLEAN /\ started \in BOOLEAN /\ inWrite \in BOOLEAN
    /\ txFull \in BOOLEAN
    /\ squeue \in Seq(Posts)
    /\ swindow \in Nat /\ backlog \in Nat
    /\ setup \in {"none", "held", "dropped"}
    /\ jobs \in Seq(Jobs)
    /\ posted \in 0..MaxPost /\ base \in 0..MaxPost
    /\ dropped \subseteq 1..MaxPost
ClientTypes ==
    /\ cstate \in {"Connecting", "Creating", "Idle", "Running", "Done"}
    /\ known \in BOOLEAN /\ needNotify \in BOOLEAN /\ ackPending \in BOOLEAN /\ ackTimer \in BOOLEAN
    /\ held \in BOOLEAN
    /\ cqueue \in Seq(Entries) /\ popped \in Seq(Posts)
    /\ cwindow \in Nat /\ unack \in Nat /\ paused \in Nat
    /\ user \in {"waiting", "draining"}
WireTypes ==
    /\ link \in {"up", "down"} /\ losses \in 0..MaxLoss
    /\ c2s \in Seq(ToServer) /\ s2c \in Seq(ToClient)
Types == ServerTypes /\ ClientTypes /\ WireTypes

\* These are the types of both ends, and what their queues hold.
LEMMA TypesImply == Types => TypeOK
<1> SUFFICES ASSUME Types PROVE TypeOK
  OBVIOUS
<1>1. {hasType, msg, scheduled, finished, highPending, ctrl, started, inWrite, txFull} \subseteq BOOLEAN
  BY Zenon DEF Types, ServerTypes
<1>2. {known, needNotify, ackPending, ackTimer, held} \subseteq BOOLEAN
  BY Zenon DEF Types, ClientTypes
<1>3. {cwindow, unack, paused} \subseteq Nat
  BY DEF Types, ClientTypes
<1>4. \A i \in 1..Len(cqueue) : cqueue[i].kind \in {"data", "Connected", "Disconnect", "Finished", "RemoteError"}
  <2>1. \A i \in 1..Len(cqueue) : cqueue[i] \in Entries
    BY ElementOfSeq DEF Types, ClientTypes
  <2>2. QED
    BY <2>1 DEF Entries
<1>5. ServerTypeOK
  BY <1>1 DEF ServerTypeOK, Types, ServerTypes, Jobs, Posts
<1>6. ClientTypeOK
  BY <1>2, <1>3, <1>4 DEF ClientTypeOK, Types, ClientTypes, WireTypes
<1>7. QED
  BY <1>5, <1>6 DEF TypeOK, Types, WireTypes

\* Messages and entries of the queues
LEMMA Messages ==
    /\ \A b \in BOOLEAN : [cmd |-> IF b THEN "INITERR" ELSE "INIT"] \in ToClient
    /\ [cmd |-> "FINISH"] \in ToClient /\ [cmd |-> "MALFORMED"] \in ToClient
    /\ \A v \in Posts : [cmd |-> "DATA", val |-> v] \in ToClient
    /\ [cmd |-> "START"] \in ToServer /\ [cmd |-> "STOP"] \in ToServer /\ [cmd |-> "DESTROY"] \in ToServer
    /\ \A n \in Nat : [cmd |-> "INIT", nack |-> n] \in ToServer /\ [cmd |-> "ACK", nack |-> n] \in ToServer
    /\ Event("Connected") \in Entries /\ Event("Disconnect") \in Entries
    /\ Event("Finished") \in Entries /\ Event("RemoteError") \in Entries
    /\ \A v \in Posts : [kind |-> "data", val |-> v] \in Entries
BY DEF ToClient, ToServer, Entries, Event

\* What is in a queue
LEMMA Members ==
    /\ \A e \in Entries : IsData(e) => e = [kind |-> "data", val |-> e.val] /\ e.val \in Posts
    /\ \A m \in ToClient : m.cmd = "DATA" => m.val \in Posts
    /\ \A m \in ToServer : m.cmd \in {"INIT", "ACK"} => m.nack \in Nat
BY DEF ToClient, ToServer, Entries, IsData

\* enqueueTxBody()
LEMMA SendTypes ==
    ASSUME s2c \in Seq(ToClient), txFull \in BOOLEAN, NEW m \in ToClient, Send(m)
    PROVE  s2c' \in Seq(ToClient) /\ s2c' = Append(s2c, m) /\ txFull' \in BOOLEAN
<1>1. s2c' = Append(s2c, m)
  BY DEF Send
<1>2. s2c' \in Seq(ToClient)
  BY <1>1
<1>3. txFull' = txFull \/ txFull' = TRUE
  BY Zenon DEF Send
<1>4. txFull' \in BOOLEAN
  BY <1>3
<1>5. QED
  BY <1>1, <1>2, <1>4

\* MonitorOp::maybeReply()
LEMMA MaybeReplyTypes ==
    ASSUME NEW js \in Seq(Jobs), NEW state, NEW q, scheduled \in BOOLEAN, MaybeReply(js, state, q)
    PROVE  jobs' \in Seq(Jobs) /\ scheduled' \in BOOLEAN
<1>1. Append(js, "reply") \in Seq(Jobs)
  BY DEF Jobs
<1>2. (jobs' = Append(js, "reply") \/ jobs' = js) /\ (scheduled' = TRUE \/ scheduled' = scheduled)
  BY Zenon DEF MaybeReply
<1>3. QED
  BY <1>1, <1>2

\* MonitorOp::doReply()
LEMMA DoReplyTypes ==
    ASSUME ServerTypes, WireTypes, NEW js \in Seq(Jobs), NEW bl \in Nat, NEW typed \in BOOLEAN,
           NEW error \in BOOLEAN, DoReply(js, bl, typed, error)
    PROVE  /\ sstate' \in {"None", "Creating", "Idle", "Executing", "Dead"} /\ started' \in BOOLEAN
           /\ squeue' \in Seq(Posts) /\ swindow' \in Nat /\ scheduled' \in BOOLEAN /\ jobs' \in Seq(Jobs)
           /\ backlog' \in Nat /\ s2c' \in Seq(ToClient) /\ txFull' \in BOOLEAN
<1> USE DEF ServerTypes, WireTypes
<1>1. CASE ReplyDead(js, bl)
  BY <1>1 DEF ReplyDead
<1>2. CASE ReplyDeferred(js, bl)
  BY <1>2 DEF ReplyDeferred
<1>3. CASE ReplyInit(js, bl, typed, error)
  <2>1. s2c' \in Seq(ToClient) /\ txFull' \in BOOLEAN
    <3>1. [cmd |-> IF error \/ ~typed THEN "INITERR" ELSE "INIT"] \in ToClient
      BY Messages
    <3>2. QED
      BY <1>3, <3>1, SendTypes DEF ReplyInit
  <2>2. QED
    BY <1>3, <2>1 DEF ReplyInit, Cleanup
<1>4. CASE ReplyNothing(js, bl)
  BY <1>4 DEF ReplyNothing
<1>5. CASE ReplyFinish(js, bl)
  <2>1. s2c' \in Seq(ToClient) /\ txFull' \in BOOLEAN
    BY <1>5, Messages, SendTypes DEF ReplyFinish
  <2>2. squeue' \in Seq(Posts)
    BY <1>5 DEF ReplyFinish
  <2>3. QED
    BY <1>5, <2>1, <2>2 DEF ReplyFinish, Cleanup
<1>6. CASE ReplyUpdate(js, bl)
  <2>1. Head(squeue) \in Posts /\ Tail(squeue) \in Seq(Posts)
    BY <1>6 DEF ReplyUpdate
  <2>2. s2c' \in Seq(ToClient) /\ txFull' \in BOOLEAN
    BY <1>6, <2>1, Messages, SendTypes DEF ReplyUpdate
  <2>3. swindow' \in Nat /\ squeue' \in Seq(Posts)
    BY <1>6, <2>1 DEF ReplyUpdate, Spent
  <2>4. PICK a \in BOOLEAN : (scheduled' <=> a) /\ scheduled' \in BOOLEAN
                             /\ jobs' = IF a THEN Append(js, "reply") ELSE js
    BY <1>6 DEF ReplyUpdate, Again
  <2>5. jobs' \in Seq(Jobs)
    BY <2>4 DEF Jobs
  <2>6. QED
    BY <1>6, <2>2, <2>3, <2>4, <2>5 DEF ReplyUpdate
<1>7. CASE ReplyIdle(js, bl)
  <2>1. squeue # <<>> => Head(squeue) \in Posts /\ Tail(squeue) \in Seq(Posts)
    OBVIOUS
  <2>2. s2c' \in Seq(ToClient) /\ txFull' \in BOOLEAN
    BY <1>7, <2>1, Messages, SendTypes DEF ReplyIdle
  <2>3. QED
    BY <1>7, <2>1, <2>2 DEF ReplyIdle
<1>8. QED
  BY <1>1, <1>2, <1>3, <1>4, <1>5, <1>6, <1>7 DEF DoReply

\* tryPost() until the queue is full
LEMMA PushTypes ==
    ASSUME ServerTypes, NEW js \in Seq(Jobs), Push(js)
    PROVE  /\ posted' \in 0..MaxPost /\ dropped' \subseteq 1..MaxPost /\ finished' \in BOOLEAN
           /\ squeue' \in Seq(Posts) /\ jobs' \in Seq(Jobs) /\ scheduled' \in BOOLEAN
<1> DEFINE left == MaxPost - posted
           room == IF HasRoom THEN QueueSize - Len(squeue) ELSE 0
           n == IF left < room THEN left ELSE room
           lost == IF room = 0 /\ left > 0 THEN {posted + 1} ELSE {}
           more == [i \in 1..n |-> {posted + i}]
           fin == posted' = MaxPost /\ ~finished
<1>1. /\ posted' = IF lost # {} THEN posted + 1 ELSE posted + n
      /\ dropped' = dropped \cup lost
      /\ finished' = (finished \/ fin)
      /\ squeue' = squeue \o more \o (IF fin THEN <<Null>> ELSE <<>>)
      /\ MaybeReply(js, sstate, squeue')
  BY DEF Push
<1>2. /\ left \in Nat /\ room \in Nat /\ n \in Nat /\ n <= left /\ lost \subseteq 1..MaxPost
      /\ posted' \in 0..MaxPost
  BY <1>1, MaxPostAssumption, QueueSizeAssumption DEF ServerTypes, HasRoom
<1>3. \A i \in 1..n : {posted + i} \in Posts
  BY <1>2, MaxPostAssumption DEF ServerTypes, Posts
<1>4. more \in Seq(Posts)
  BY <1>2, <1>3
<1>5. squeue \o more \in Seq(Posts)
  BY <1>4 DEF ServerTypes
<1>6. <<Null>> \in Seq(Posts) /\ <<>> \in Seq(Posts)
  BY DEF Null, Posts
<1>7. squeue' \in Seq(Posts)
  BY <1>1, <1>5, <1>6
<1>8. QED
  BY <1>1, <1>2, <1>7, MaybeReplyTypes DEF ServerTypes

\* The server's steps keep the types.
LEMMA ServerTypesStep ==
    ASSUME Types, Server
    PROVE  Types'
<1>1. /\ ServerTypes /\ ClientTypes /\ WireTypes
      /\ UNCHANGED <<cstate, known, cqueue, cwindow, unack, needNotify, ackPending, ackTimer, user, held, paused,
                     popped, link, losses>>
  BY DEF Types, Server, cvars
<1>2. ClientTypes' /\ link' \in {"up", "down"} /\ losses' \in 0..MaxLoss
  BY <1>1 DEF ClientTypes, WireTypes
<1>3. SUFFICES ServerTypes' /\ c2s' \in Seq(ToServer) /\ s2c' \in Seq(ToClient)
  BY <1>2 DEF Types, WireTypes
<1>4. c2s # <<>> => Head(c2s) \in ToServer /\ Tail(c2s) \in Seq(ToServer)
  BY <1>1 DEF WireTypes
<1>5. jobs # <<>> => Tail(jobs) \in Seq(Jobs)
  BY <1>1 DEF ServerTypes
<1>6. CASE HandleInit
  <2>1. /\ Head(c2s).nack \in Nat /\ c2s' \in Seq(ToServer)
    BY <1>4, <1>6, Members DEF HandleInit, ServerRecv
  <2>2. swindow' \in Nat
    BY <1>6, <2>1 DEF HandleInit
  <2>3. squeue' \in Seq(Posts) /\ jobs' \in Seq(Jobs) /\ 0 \in Nat
    BY <1>6 DEF HandleInit
  <2>4. QED
    BY <1>1, <1>6, <2>1, <2>2, <2>3, Zenon DEF HandleInit, ServerTypes, WireTypes
<1>7. CASE HandleStart
  <2>1. c2s' \in Seq(ToServer)
    BY <1>4, <1>7 DEF HandleStart, ServerRecv
  <2>2. jobs' \in Seq(Jobs) /\ scheduled' \in BOOLEAN
    <3>1. UNCHANGED <<jobs, scheduled>> \/ MaybeReply(jobs, sstate', squeue)
      BY <1>7 DEF HandleStart
    <3>2. QED
      BY <1>1, <3>1, MaybeReplyTypes DEF ServerTypes
  <2>3. sstate' \in {"None", "Creating", "Idle", "Executing", "Dead"} /\ started' \in BOOLEAN
    BY <1>1, <1>7 DEF HandleStart, ServerTypes
  <2>4. UNCHANGED <<hasType, msg, squeue, swindow, finished, highPending, setup,
                   ctrl, backlog, inWrite, txFull, posted, base, dropped, s2c>>
    BY <1>7 DEF HandleStart, histvars
  <2>5. QED
    BY <1>1, <2>1, <2>2, <2>3, <2>4 DEF ServerTypes, WireTypes
<1>8. CASE HandleAck
  <2>1. Head(c2s).nack \in Nat /\ c2s' \in Seq(ToServer)
    BY <1>4, <1>8, Members DEF HandleAck, ServerRecv
  <2>2. swindow' \in Nat
    BY <1>1, <1>8, <2>1 DEF HandleAck, Credited, ServerTypes
  <2>3. jobs' \in Seq(Jobs)
    <3>1. jobs' = jobs \/ jobs' = Append(jobs, "high")
      BY <1>8 DEF HandleAck
    <3>2. QED
      BY <1>1, <3>1 DEF ServerTypes, Jobs
  <2>4. highPending' \in BOOLEAN
    BY <1>1, <1>8 DEF HandleAck, ServerTypes
  <2>5. UNCHANGED <<sstate, hasType, msg, squeue, scheduled, finished, setup,
                   ctrl, started, backlog, inWrite, txFull, posted, base, dropped, s2c>>
    BY <1>8 DEF HandleAck, histvars
  <2>6. QED
    BY <1>1, <2>1, <2>2, <2>3, <2>4, <2>5 DEF ServerTypes, WireTypes
<1>9. CASE HandleDestroy
  <2>1. c2s' \in Seq(ToServer)
    BY <1>4, <1>9 DEF HandleDestroy, ServerRecv
  <2>2. QED
    BY <1>1, <1>9, <2>1 DEF HandleDestroy, Cleanup, loopvars, histvars, ServerTypes, WireTypes
<1>10. CASE JobReply
  <2>1. /\ jobs # <<>> /\ DoReply(Tail(jobs), backlog, hasType, msg)
        /\ UNCHANGED <<hasType, msg, finished, highPending, setup, ctrl, inWrite, posted, base, dropped, c2s>>
    BY <1>10 DEF JobReply, NextJob, histvars
  <2>2. /\ sstate' \in {"None", "Creating", "Idle", "Executing", "Dead"} /\ started' \in BOOLEAN
        /\ squeue' \in Seq(Posts) /\ swindow' \in Nat /\ scheduled' \in BOOLEAN /\ jobs' \in Seq(Jobs)
        /\ backlog' \in Nat /\ s2c' \in Seq(ToClient) /\ txFull' \in BOOLEAN
    <3>1. backlog \in Nat /\ hasType \in BOOLEAN /\ msg \in BOOLEAN
      BY <1>1 DEF ServerTypes
    <3>2. QED
      BY <1>1, <1>5, <2>1, <3>1, DoReplyTypes
  <2>3. QED
    BY <1>1, <2>1, <2>2 DEF ServerTypes, WireTypes
<1>11. CASE JobError
  <2>1. /\ jobs # <<>> /\ Tail(jobs) \in Seq(Jobs)
        /\ UNCHANGED <<hasType, finished, highPending, setup, ctrl, inWrite, posted, base, dropped, c2s>>
    BY <1>5, <1>11 DEF JobError, NextJob, histvars
  <2>2. CASE ErrorApplies
    <3>1. msg' = TRUE /\ DoReply(Tail(jobs), backlog, hasType, TRUE)
      BY <1>11, <2>2 DEF JobError
    <3>2. backlog \in Nat /\ hasType \in BOOLEAN
      BY <1>1 DEF ServerTypes
    <3>3. /\ sstate' \in {"None", "Creating", "Idle", "Executing", "Dead"} /\ started' \in BOOLEAN
          /\ squeue' \in Seq(Posts) /\ swindow' \in Nat /\ scheduled' \in BOOLEAN /\ jobs' \in Seq(Jobs)
          /\ backlog' \in Nat /\ s2c' \in Seq(ToClient) /\ txFull' \in BOOLEAN
      BY <1>1, <2>1, <3>1, <3>2, DoReplyTypes
    <3>4. QED
      BY <1>1, <2>1, <3>1, <3>3 DEF ServerTypes, WireTypes
  <2>3. CASE ~ErrorApplies
    <3>1. /\ jobs' = Tail(jobs)
          /\ UNCHANGED <<sstate, started, msg, squeue, swindow, scheduled, backlog, txFull, s2c>>
      BY <1>11, <2>3 DEF JobError
    <3>2. QED
      BY <1>1, <2>1, <3>1 DEF ServerTypes, WireTypes
  <2>4. QED
    BY <2>2, <2>3
<1>12. CASE JobHigh
  <2>1. /\ jobs # <<>> /\ Tail(jobs) \in Seq(Jobs) /\ highPending' = FALSE
        /\ UNCHANGED <<sstate, hasType, msg, swindow, setup, ctrl, started, backlog, inWrite, txFull, base, c2s, s2c>>
    BY <1>5, <1>12 DEF JobHigh, NextJob
  <2>2. \/ jobs' = Tail(jobs) /\ UNCHANGED <<posted, dropped, finished, squeue, scheduled>>
        \/ Push(Tail(jobs))
    BY <1>12 DEF JobHigh
  <2>3. /\ posted' \in 0..MaxPost /\ dropped' \subseteq 1..MaxPost /\ finished' \in BOOLEAN
        /\ squeue' \in Seq(Posts) /\ jobs' \in Seq(Jobs) /\ scheduled' \in BOOLEAN
    BY <1>1, <2>1, <2>2, PushTypes DEF ServerTypes
  <2>4. QED
    BY <1>1, <2>1, <2>3 DEF ServerTypes, WireTypes
<1>13. CASE BevWrite \/ BevWriteEnd \/ Congest
  <2>1. /\ inWrite' = TRUE \/ inWrite' = FALSE \/ inWrite' = inWrite
        /\ txFull' = TRUE \/ txFull' = FALSE \/ txFull' = txFull
        /\ UNCHANGED <<sstate, hasType, msg, squeue, swindow, scheduled, finished, highPending, setup, ctrl, started,
                       jobs, backlog, posted, base, dropped, c2s, s2c>>
    BY <1>13 DEF BevWrite, BevWriteEnd, Congest, opvars, histvars
  <2>2. inWrite' \in BOOLEAN /\ txFull' \in BOOLEAN
    BY <1>1, <2>1 DEF ServerTypes
  <2>3. QED
    BY <1>1, <2>1, <2>2 DEF ServerTypes, WireTypes
<1>14. CASE BacklogStep
  <2>1. /\ backlog - 1 \in Nat /\ DoReply(jobs, backlog - 1, hasType, msg)
        /\ UNCHANGED <<hasType, msg, finished, highPending, setup, ctrl, inWrite, posted, base, dropped, c2s>>
    BY <1>1, <1>14 DEF BacklogStep, MayDrain, histvars, ServerTypes
  <2>2. jobs \in Seq(Jobs) /\ hasType \in BOOLEAN /\ msg \in BOOLEAN
    BY <1>1 DEF ServerTypes
  <2>3. /\ sstate' \in {"None", "Creating", "Idle", "Executing", "Dead"} /\ started' \in BOOLEAN
        /\ squeue' \in Seq(Posts) /\ swindow' \in Nat /\ scheduled' \in BOOLEAN /\ jobs' \in Seq(Jobs)
        /\ backlog' \in Nat /\ s2c' \in Seq(ToClient) /\ txFull' \in BOOLEAN
    BY <1>1, <2>1, <2>2, DoReplyTypes
  <2>4. QED
    BY <1>1, <2>1, <2>3 DEF ServerTypes, WireTypes
<1>15. CASE Connect
  <2>1. /\ hasType' = TRUE /\ ctrl' = TRUE /\ DoReply(jobs, backlog, TRUE, msg)
        /\ UNCHANGED <<msg, finished, highPending, setup, inWrite, posted, base, dropped, c2s>>
    BY <1>15 DEF Connect, histvars
  <2>2. jobs \in Seq(Jobs) /\ backlog \in Nat /\ msg \in BOOLEAN
    BY <1>1 DEF ServerTypes
  <2>3. /\ sstate' \in {"None", "Creating", "Idle", "Executing", "Dead"} /\ started' \in BOOLEAN
        /\ squeue' \in Seq(Posts) /\ swindow' \in Nat /\ scheduled' \in BOOLEAN /\ jobs' \in Seq(Jobs)
        /\ backlog' \in Nat /\ s2c' \in Seq(ToClient) /\ txFull' \in BOOLEAN
    BY <1>1, <2>1, <2>2, DoReplyTypes
  <2>4. QED
    BY <1>1, <2>1, <2>3 DEF ServerTypes, WireTypes
<1>16. CASE DropSetup
  <2>1. jobs' \in Seq(Jobs)
    BY <1>1, <1>16 DEF DropSetup, ServerTypes, Jobs
  <2>2. QED
    BY <1>1, <1>16, <2>1 DEF DropSetup, histvars, ServerTypes, WireTypes
<1>17. ASSUME NEW maybe \in BOOLEAN, NEW force \in BOOLEAN, DoPost(maybe, force)
       PROVE  ServerTypes' /\ c2s' \in Seq(ToServer) /\ s2c' \in Seq(ToClient)
  <2>1. posted + 1 \in 1..MaxPost /\ posted' \in 0..MaxPost /\ {posted + 1} \in Posts
    BY <1>1, <1>17, MaxPostAssumption DEF DoPost, ServerTypes, Posts
  <2>2. squeue' \in Seq(Posts)
    <3>1. \/ squeue' = Append(squeue, {posted + 1}) \/ squeue' = squeue
          \/ ~(Len(squeue) < QueueSize) /\ squeue' = [squeue EXCEPT ![Len(squeue)] = squeue[Len(squeue)] \cup {posted + 1}]
      BY <1>17 DEF DoPost, Queued
    <3>2. CASE ~(Len(squeue) < QueueSize) /\ squeue' = [squeue EXCEPT ![Len(squeue)] = squeue[Len(squeue)] \cup {posted + 1}]
      <4>1. Len(squeue) \in 1..Len(squeue)
        BY <1>1, <3>2, QueueSizeAssumption DEF ServerTypes
      <4>2. squeue[Len(squeue)] \in Posts
        BY <1>1, <4>1, ElementOfSeq DEF ServerTypes
      <4>3. squeue[Len(squeue)] \cup {posted + 1} \in Posts
        BY <2>1, <4>2 DEF Posts
      <4>4. QED
        BY <1>1, <3>2, <4>1, <4>3, ExceptSeq DEF ServerTypes
    <3>3. CASE squeue' = Append(squeue, {posted + 1}) \/ squeue' = squeue
      <4>1. squeue \in Seq(Posts) /\ \A x \in Posts : Append(squeue, x) \in Seq(Posts)
        BY <1>1 DEF ServerTypes
      <4>2. QED
        BY <2>1, <3>3, <4>1
    <3>4. QED
      BY <3>1, <3>2, <3>3
  <2>3. dropped' \subseteq 1..MaxPost
    BY <1>1, <1>17, <2>1 DEF DoPost, ServerTypes
  <2>4. jobs' \in Seq(Jobs) /\ scheduled' \in BOOLEAN
    BY <1>1, <1>17, MaybeReplyTypes DEF DoPost, ServerTypes
  <2>5. UNCHANGED <<sstate, hasType, msg, swindow, finished, highPending, setup,
                   ctrl, started, backlog, inWrite, txFull, base, c2s, s2c>>
    BY <1>17 DEF DoPost
  <2>6. QED
    BY <1>1, <2>1, <2>2, <2>3, <2>4, <2>5 DEF ServerTypes, WireTypes
<1>18. CASE Finish
  <2>1. squeue' \in Seq(Posts)
    BY <1>1, <1>18 DEF Finish, ServerTypes, Null, Posts
  <2>2. jobs' \in Seq(Jobs) /\ scheduled' \in BOOLEAN
    BY <1>1, <1>18, MaybeReplyTypes DEF Finish, ServerTypes
  <2>3. /\ finished' = TRUE
        /\ UNCHANGED <<sstate, hasType, msg, swindow, highPending, setup, ctrl, started, backlog, inWrite, txFull,
                       posted, base, dropped, c2s, s2c>>
    BY <1>18 DEF Finish, histvars
  <2>4. QED
    BY <1>1, <2>1, <2>2, <2>3 DEF ServerTypes, WireTypes
<1>19. CASE PushInitial
  <2>1. /\ Push(jobs)
        /\ UNCHANGED <<sstate, hasType, msg, swindow, highPending, setup, ctrl, started, backlog, inWrite, txFull,
                       base, c2s, s2c>>
    BY <1>19 DEF PushInitial
  <2>2. /\ posted' \in 0..MaxPost /\ dropped' \subseteq 1..MaxPost /\ finished' \in BOOLEAN
        /\ squeue' \in Seq(Posts) /\ jobs' \in Seq(Jobs) /\ scheduled' \in BOOLEAN
    BY <1>1, <2>1, PushTypes DEF ServerTypes
  <2>3. QED
    BY <1>1, <2>1, <2>2 DEF ServerTypes, WireTypes
<1>20. QED
  BY <1>6, <1>7, <1>8, <1>9, <1>10, <1>11, <1>12, <1>13, <1>14, <1>15, <1>16, <1>17, <1>18, <1>19
  DEF Server, ServerNext, ServerHandle, ServerJob, ServerWrite, ServerUser, Post, TryPost, ForcePost

\* The queue of the client
LEMMA PushEntryTypes ==
    ASSUME ClientTypes, NEW e \in Entries, NEW wasEmpty, PushAndNotify(<<e>>, wasEmpty)
    PROVE  /\ cqueue' \in Seq(Entries) /\ cqueue' = Append(cqueue, e)
           /\ needNotify' \in BOOLEAN /\ user' \in {"waiting", "draining"}
<1>1. cqueue' = cqueue \o <<e>>
  BY DEF PushAndNotify
<1>2. cqueue' = Append(cqueue, e)
  BY <1>1, AppendIsConcat DEF ClientTypes
<1>3. cqueue' \in Seq(Entries)
  BY <1>2 DEF ClientTypes
<1>4. (needNotify' = FALSE /\ user' = "draining") \/ UNCHANGED <<needNotify, user>>
  BY DEF PushAndNotify
<1>5. QED
  BY <1>2, <1>3, <1>4 DEF ClientTypes

\* The client's steps keep the types.
LEMMA ClientTypesStep ==
    ASSUME Types, Client
    PROVE  Types'
<1>1. /\ ServerTypes /\ ClientTypes /\ WireTypes
      /\ UNCHANGED <<sstate, hasType, msg, squeue, swindow, scheduled, finished, highPending, setup, ctrl, started,
                     jobs, backlog, inWrite, txFull, posted, base, dropped, link, losses>>
  BY DEF Types, Client, svars, opvars, loopvars, histvars
<1>2. ServerTypes' /\ link' \in {"up", "down"} /\ losses' \in 0..MaxLoss
  BY <1>1 DEF ServerTypes, WireTypes
<1>3. SUFFICES ClientTypes' /\ c2s' \in Seq(ToServer) /\ s2c' \in Seq(ToClient)
  BY <1>2 DEF Types, WireTypes
<1>4. s2c # <<>> => Head(s2c) \in ToClient /\ Tail(s2c) \in Seq(ToClient)
  BY <1>1 DEF WireTypes
<1>5. \A m \in ToServer : Append(c2s, m) \in Seq(ToServer)
  BY <1>1 DEF WireTypes
<1>6. CASE CreateOp
  <2>1. c2s' \in Seq(ToServer)
    BY <1>5, <1>6, Messages, QueueSizeAssumption DEF CreateOp
  <2>2. UNCHANGED <<cqueue, needNotify, user>> \/ PushAndNotify(<<Event("Connected")>>, cqueue = <<>>)
    BY <1>6 DEF CreateOp, NoPush
  <2>3. cqueue' \in Seq(Entries) /\ needNotify' \in BOOLEAN /\ user' \in {"waiting", "draining"}
    <3>1. CASE PushAndNotify(<<Event("Connected")>>, cqueue = <<>>)
      BY <1>1, <3>1, Messages, PushEntryTypes
    <3>2. QED
      BY <1>1, <2>2, <3>1 DEF ClientTypes
  <2>4. /\ cstate' = "Creating" /\ known' = TRUE /\ cwindow' \in Nat
        /\ UNCHANGED <<unack, ackPending, ackTimer, held, paused, popped, s2c>>
    BY <1>1, <1>6, QueueSizeAssumption DEF CreateOp, ClientTypes
  <2>5. QED
    BY <1>1, <2>1, <2>3, <2>4 DEF ClientTypes, WireTypes
<1>7. CASE HandleStale
  BY <1>1, <1>4, <1>7 DEF HandleStale, cvars, ClientTypes, WireTypes
<1>8. CASE HandleInitReply
  <2>1. c2s' \in Seq(ToServer) /\ s2c' \in Seq(ToClient)
    BY <1>4, <1>5, <1>8, Messages DEF HandleInitReply, ClientRecv
  <2>2. QED
    BY <1>1, <1>8, <2>1 DEF HandleInitReply, ClientTypes
<1>9. CASE HandleInitError
  <2>1. c2s' \in Seq(ToServer) /\ s2c' \in Seq(ToClient)
    BY <1>4, <1>5, <1>9, Messages DEF HandleInitError, ClientRecv
  <2>2. cqueue' \in Seq(Entries) /\ needNotify' \in BOOLEAN /\ user' \in {"waiting", "draining"}
    BY <1>1, <1>9, Messages, PushEntryTypes DEF HandleInitError
  <2>3. /\ cstate' = "Done" /\ known' = FALSE /\ (ackTimer' = FALSE \/ ackTimer' = ackTimer)
        /\ UNCHANGED <<cwindow, unack, ackPending, held, paused, popped>>
    BY <1>9 DEF HandleInitError
  <2>4. ackTimer' \in BOOLEAN
    BY <1>1, <2>3 DEF ClientTypes
  <2>5. QED
    BY <1>1, <2>1, <2>2, <2>3, <2>4 DEF ClientTypes
<1>10. CASE HandleUpdate
  <2>1. s2c' \in Seq(ToClient) /\ Head(s2c).val \in Posts /\ s2c # <<>>
    BY <1>4, <1>10, Members DEF HandleUpdate, ClientRecv
  <2>2. cqueue' \in Seq(Entries) /\ needNotify' \in BOOLEAN /\ user' \in {"waiting", "draining"}
    <3>1. CASE MustSquash
      <4>1. Len(cqueue) \in 1..Len(cqueue) /\ IsData(cqueue[Len(cqueue)])
        BY <1>1, <3>1, QueueSizeAssumption DEF MustSquash, ClientTypes
      <4>2. cqueue[Len(cqueue)] \in Entries
        BY <1>1, <4>1, ElementOfSeq DEF ClientTypes
      <4> DEFINE e == [kind |-> "data", val |-> cqueue[Len(cqueue)].val \cup Head(s2c).val]
      <4>3. cqueue[Len(cqueue)] = [kind |-> "data", val |-> cqueue[Len(cqueue)].val] /\ cqueue[Len(cqueue)].val \in Posts
        BY <4>1, <4>2, Members
      <4>4. e \in Entries /\ [cqueue[Len(cqueue)] EXCEPT !.val = @ \cup Head(s2c).val] = e
        <5>1. cqueue[Len(cqueue)].val \cup Head(s2c).val \in Posts
          BY <2>1, <4>3 DEF Posts
        <5>2. \A v, w : [[kind |-> "data", val |-> v] EXCEPT !.val = @ \cup w] = [kind |-> "data", val |-> v \cup w]
          OBVIOUS
        <5>3. QED
          BY <4>3, <5>1, <5>2, Messages
      <4>5. cqueue' = [cqueue EXCEPT ![Len(cqueue)] = e]
        BY <1>10, <3>1, <4>4 DEF HandleUpdate
      <4>6. cqueue' \in Seq(Entries)
        BY <1>1, <4>1, <4>4, <4>5, ExceptSeq DEF ClientTypes
      <4>7. QED
        BY <1>1, <1>10, <3>1, <4>6 DEF HandleUpdate, ClientTypes
    <3>2. CASE ~MustSquash
      <4>1. PushAndNotify(<<[kind |-> "data", val |-> Head(s2c).val]>>, cqueue = <<>>)
        BY <1>10, <3>2 DEF HandleUpdate
      <4>2. QED
        BY <1>1, <2>1, <4>1, Messages, PushEntryTypes
    <3>3. QED
      BY <3>1, <3>2
  <2>3. cwindow' \in Nat
    BY <1>1, <1>10 DEF HandleUpdate, Credit, ClientTypes
  <2>4. UNCHANGED <<cstate, known, unack, ackPending, ackTimer, held, paused, popped, c2s>>
    BY <1>10 DEF HandleUpdate
  <2>5. QED
    BY <1>1, <2>1, <2>2, <2>3, <2>4 DEF ClientTypes, WireTypes
<1>11. CASE HandleFinish
  <2>1. s2c' \in Seq(ToClient)
    BY <1>4, <1>11 DEF HandleFinish, ClientRecv
  <2>2. cqueue' \in Seq(Entries) /\ needNotify' \in BOOLEAN /\ user' \in {"waiting", "draining"}
    BY <1>1, <1>11, Messages, PushEntryTypes DEF HandleFinish
  <2>3. cwindow' \in Nat
    BY <1>1, <1>11 DEF HandleFinish, Credit, ClientTypes
  <2>4. /\ cstate' = "Done" /\ known' = FALSE /\ (ackTimer' = FALSE \/ ackTimer' = ackTimer)
        /\ UNCHANGED <<unack, ackPending, held, paused, popped, c2s>>
    BY <1>11 DEF HandleFinish
  <2>5. ackTimer' \in BOOLEAN
    BY <1>1, <2>4 DEF ClientTypes
  <2>6. QED
    BY <1>1, <2>1, <2>2, <2>3, <2>4, <2>5 DEF ClientTypes, WireTypes
<1>12. CASE Pause \/ Resume
  <2>1. c2s' \in Seq(ToServer)
    BY <1>5, <1>12, Messages DEF Pause, Resume
  <2>2. QED
    BY <1>1, <1>12, <2>1 DEF Pause, Resume, ClientTypes, WireTypes
<1>13. CASE Cancel \/ Release
  <2>1. c2s' \in Seq(ToServer)
    <3>1. c2s' = c2s \/ c2s' = Append(c2s, [cmd |-> "DESTROY"])
      BY <1>13 DEF Cancel, Release, CancelEffect
    <3>2. QED
      BY <1>1, <1>5, <3>1, Messages DEF WireTypes
  <2>2. /\ cstate' = "Done" /\ (ackTimer' = FALSE \/ ackTimer' = ackTimer) /\ (known' = FALSE \/ known' = known)
        /\ (held' = FALSE \/ held' = held)
        /\ UNCHANGED <<cqueue, cwindow, unack, needNotify, ackPending, user, paused, popped, s2c>>
    BY <1>13 DEF Cancel, Release, CancelEffect
  <2>3. ackTimer' \in BOOLEAN /\ known' \in BOOLEAN /\ held' \in BOOLEAN
    BY <1>1, <2>2 DEF ClientTypes
  <2>4. QED
    BY <1>1, <2>1, <2>2, <2>3 DEF ClientTypes, WireTypes
<1>14. CASE Pop
  <2>1. Head(cqueue) \in Entries /\ cqueue' \in Seq(Entries)
    BY <1>1, <1>14 DEF Pop, ClientTypes
  <2>2. popped' \in Seq(Posts)
    <3>1. CASE IsData(Head(cqueue))
      <4>1. Head(cqueue).val \in Posts /\ popped' = Append(popped, Head(cqueue).val)
        BY <1>14, <2>1, <3>1, Members DEF Pop
      <4>2. QED
        BY <1>1, <4>1 DEF ClientTypes
    <3>2. CASE ~IsData(Head(cqueue))
      BY <1>1, <1>14, <3>2 DEF Pop, ClientTypes
    <3>3. QED
      BY <3>1, <3>2
  <2>3. /\ unack' \in Nat /\ (ackPending' = TRUE \/ ackPending' = ackPending) /\ (ackTimer' = TRUE \/ ackTimer' = ackTimer)
        /\ UNCHANGED <<cstate, known, cwindow, needNotify, user, held, paused, c2s, s2c>>
    BY <1>1, <1>14 DEF Pop, ClientTypes
  <2>4. ackPending' \in BOOLEAN /\ ackTimer' \in BOOLEAN
    BY <1>1, <2>3 DEF ClientTypes
  <2>5. QED
    BY <1>1, <2>1, <2>2, <2>3, <2>4 DEF ClientTypes, WireTypes
<1>15. CASE PopEmpty
  BY <1>1, <1>15 DEF PopEmpty, ClientTypes, WireTypes
<1>16. CASE TickAck
  <2>1. c2s' \in Seq(ToServer) /\ cwindow' \in Nat /\ unack' \in Nat
    <3>1. c2s \in Seq(ToServer) /\ cwindow \in Nat /\ unack \in Nat
      BY <1>1 DEF ClientTypes, WireTypes
    <3>2. \/ UNCHANGED <<c2s, cwindow, unack>>
          \/ c2s' = Append(c2s, [cmd |-> "ACK", nack |-> unack]) /\ cwindow' = cwindow + unack /\ unack' = 0
      BY <1>16 DEF TickAck
    <3>3. [cmd |-> "ACK", nack |-> unack] \in ToServer
      BY <3>1, Messages
    <3>4. QED
      BY <1>5, <3>1, <3>2, <3>3
  <2>2. QED
    BY <1>1, <1>16, <2>1 DEF TickAck, ClientTypes, WireTypes
<1>17. QED
  BY <1>6, <1>7, <1>8, <1>9, <1>10, <1>11, <1>12, <1>13, <1>14, <1>15, <1>16
  DEF Client, ClientNext, ClientWorker, ClientUser

\* The connection is lost.
LEMMA DropTypes ==
    ASSUME Types, Drop, losses' \in 0..MaxLoss
    PROVE  Types'
<1>1. ServerTypes /\ ClientTypes /\ WireTypes /\ c2s' = <<>> /\ s2c' = <<>> /\ link' = "down"
  BY DEF Types, Drop
<1>2. jobs' \in Seq(Jobs) /\ c2s' \in Seq(ToServer) /\ s2c' \in Seq(ToClient) /\ 0 \in Nat
  BY <1>1 DEF Drop, ServerDisconnect
<1>3. ServerTypes'
  BY <1>1, <1>2 DEF Drop, ServerDisconnect, Cleanup, histvars, ServerTypes
<1>4. UNCHANGED <<cqueue, needNotify, user>> \/ PushAndNotify(<<Event("Disconnect")>>, cqueue = <<>>)
  BY DEF Drop, ClientDisconnect, NoPush
<1>5. cqueue' \in Seq(Entries) /\ needNotify' \in BOOLEAN /\ user' \in {"waiting", "draining"}
  <2>1. CASE PushAndNotify(<<Event("Disconnect")>>, cqueue = <<>>)
    BY <1>1, <2>1, Messages, PushEntryTypes
  <2>2. QED
    BY <1>1, <1>4, <2>1 DEF ClientTypes
<1>6. /\ known' = FALSE /\ (cstate' = "Connecting" \/ cstate' = cstate)
      /\ UNCHANGED <<cwindow, unack, ackPending, ackTimer, held, paused, popped>>
  BY DEF Drop, ClientDisconnect
<1>7. ClientTypes'
  BY <1>1, <1>5, <1>6 DEF ClientTypes
<1>8. QED
  BY <1>1, <1>2, <1>3, <1>7 DEF Types, WireTypes

\* The types always hold.
LEMMA TypesInvariant == Spec => []Types
<1>1. Init => Types
  <2> SUFFICES ASSUME Init PROVE Types
    OBVIOUS
  <2>1. /\ squeue \in Seq(Posts) /\ jobs \in Seq(Jobs) /\ cqueue \in Seq(Entries) /\ popped \in Seq(Posts)
        /\ c2s \in Seq(ToServer) /\ s2c \in Seq(ToClient)
    BY DEF Init, InitOp, InitClient
  <2>2. ServerTypes
    <3>1. 0 \in Nat /\ 0 \in 0..MaxPost
      BY MaxPostAssumption
    <3>2. QED
      BY <2>1, <3>1, Zenon DEF Init, InitOp, ServerTypes
  <2>3. ClientTypes
    BY <2>1 DEF Init, InitClient, ClientTypes
  <2>4. QED
    BY <2>1, <2>2, <2>3, MaxLossAssumption DEF Init, Types, WireTypes
<1>2. Types /\ [Next]_vars => Types'
  <2> SUFFICES ASSUME Types, [Next]_vars PROVE Types'
    OBVIOUS
  <2>1. CASE LoseLink
    BY <2>1, DropTypes, MaxLossAssumption DEF LoseLink, Types, WireTypes
  <2>2. CASE Fault
    BY <2>2, DropTypes DEF Fault, Types, WireTypes
  <2>3. CASE Reconnect \/ UNCHANGED vars
    <3>1. /\ UNCHANGED <<svars, cvars, c2s, s2c, losses>> /\ link' \in {"up", link}
      BY <2>3 DEF Reconnect, vars
    <3>2. /\ ServerTypes' /\ ClientTypes'
      BY <3>1 DEF Types, ServerTypes, ClientTypes, svars, opvars, loopvars, histvars, cvars
    <3>3. QED
      BY <3>1, <3>2 DEF Types, WireTypes
  <2>4. QED
    BY <2>1, <2>2, <2>3, ServerTypesStep, ClientTypesStep DEF Next
<1>3. QED
  BY <1>1, <1>2, PTL DEF Spec
-----------------------------------------------------------------------------
(* Updates are delivered in order and completely.                          *)

\* The Values a queue of the client, or the wire, carries
Entered(q) == [i \in 1..Len(q) |-> IF IsData(q[i]) THEN q[i].val ELSE Null]
OnWire(w) == [i \in 1..Len(w) |-> IF w[i].cmd = "DATA" THEN w[i].val ELSE Null]

\* Posts are numbers.
LEMMA PostsAreValues == Posts \subseteq SUBSET Nat /\ Seq(Posts) \subseteq Values
<1>1. Posts \subseteq SUBSET Nat
  BY MaxPostAssumption DEF Posts
<1>2. QED
  BY <1>1, SeqMonotonic DEF Values

\* An entry is added, taken or squashed.
LEMMA EnteredFacts ==
    ASSUME NEW q \in Seq(Entries)
    PROVE  /\ Entered(q) \in Seq(Posts) /\ Len(Entered(q)) = Len(q) /\ (Entered(q) = <<>> <=> q = <<>>)
           /\ \A e \in Entries : Entered(Append(q, e)) = Append(Entered(q), IF IsData(e) THEN e.val ELSE Null)
           /\ q # <<>> => /\ Entered(Tail(q)) = Tail(Entered(q))
                          /\ Head(Entered(q)) = IF IsData(Head(q)) THEN Head(q).val ELSE Null
<1>1. \A e \in Entries : (IF IsData(e) THEN e.val ELSE Null) \in Posts
  BY Members DEF Null, Posts
<1>2. ASSUME NEW r \in Seq(Entries)
      PROVE  Entered(r) \in Seq(Posts) /\ Len(Entered(r)) = Len(r)
  <2>1. Len(r) \in Nat /\ \A i \in 1..Len(r) : r[i] \in Entries
    BY ElementOfSeq, LenProperties
  <2>2. Entered(r) \in [1..Len(r) -> Posts]
    BY <1>1, <2>1 DEF Entered
  <2>3. QED
    BY <2>1, <2>2, IsASeq DEF Entered
<1>3. Entered(q) = <<>> <=> q = <<>>
  BY <1>2, EmptySeq
<1>4. ASSUME NEW e \in Entries
      PROVE  Entered(Append(q, e)) = Append(Entered(q), IF IsData(e) THEN e.val ELSE Null)
  <2> DEFINE a == Append(q, e)
             v == IF IsData(e) THEN e.val ELSE Null
  <2>1. /\ a \in Seq(Entries) /\ Len(a) = Len(q) + 1 /\ a[Len(q) + 1] = e /\ Len(q) \in Nat
        /\ \A i \in 1..Len(q) : a[i] = q[i]
    BY AppendProperties
  <2>2. Entered(a) \in Seq(Posts) /\ Len(Entered(a)) = Len(q) + 1 /\ v \in Posts
    BY <1>1, <1>2, <2>1
  <2>3. /\ Append(Entered(q), v) \in Seq(Posts) /\ Len(Append(Entered(q), v)) = Len(q) + 1
        /\ Append(Entered(q), v)[Len(q) + 1] = v
        /\ \A i \in 1..Len(q) : Append(Entered(q), v)[i] = Entered(q)[i]
    BY <1>2, <2>2, AppendProperties
  <2>4. /\ \A i \in 1..Len(q) : Entered(a)[i] = Entered(q)[i]
        /\ Entered(a)[Len(q) + 1] = v
    BY <2>1 DEF Entered
  <2>5. \A i \in 1..(Len(q) + 1) : i \in 1..Len(q) \/ i = Len(q) + 1
    BY <2>1
  <2>6. \A i \in 1..Len(Entered(a)) : Entered(a)[i] = Append(Entered(q), v)[i]
    BY <2>2, <2>3, <2>4, <2>5
  <2> HIDE DEF a, v
  <2>7. Entered(a) = Append(Entered(q), v)
    BY <2>2, <2>3, <2>6, SeqEqual
  <2>8. QED
    BY <2>7 DEF a, v
<1>5. ASSUME q # <<>>
      PROVE  /\ Entered(Tail(q)) = Tail(Entered(q))
             /\ Head(Entered(q)) = IF IsData(Head(q)) THEN Head(q).val ELSE Null
  <2>1. /\ Tail(q) \in Seq(Entries) /\ Len(Tail(q)) = Len(q) - 1 /\ Head(q) = q[1] /\ Len(q) \in Nat \ {0}
        /\ \A i \in 1..Len(Tail(q)) : Tail(q)[i] = q[i + 1]
    BY <1>5
  <2>2. /\ Entered(q) # <<>> /\ Tail(Entered(q)) \in Seq(Posts) /\ Len(Tail(Entered(q))) = Len(q) - 1
        /\ Head(Entered(q)) = Entered(q)[1]
        /\ \A i \in 1..Len(Tail(q)) : Tail(Entered(q))[i] = Entered(q)[i + 1]
    BY <1>2, <1>3, <1>5, <2>1
  <2>3. Entered(Tail(q)) \in Seq(Posts) /\ Len(Entered(Tail(q))) = Len(q) - 1
    BY <1>2, <2>1
  <2>4. \A i \in 1..Len(Tail(q)) : i + 1 \in 1..Len(q)
    BY <2>1
  <2>5. \A i \in 1..Len(Tail(q)) : Entered(Tail(q))[i] = Tail(Entered(q))[i]
    BY <2>1, <2>2, <2>4 DEF Entered
  <2>6. Entered(Tail(q)) = Tail(Entered(q))
    BY <2>1, <2>2, <2>3, <2>5, SeqEqual
  <2>7. Entered(q)[1] = IF IsData(q[1]) THEN q[1].val ELSE Null
    BY <2>1 DEF Entered
  <2>8. QED
    BY <2>1, <2>2, <2>6, <2>7
<1>6. QED
  BY <1>2, <1>3, <1>4, <1>5

\* A message is added or taken.
LEMMA OnWireFacts ==
    ASSUME NEW q \in Seq(ToClient)
    PROVE  /\ OnWire(q) \in Seq(Posts) /\ Len(OnWire(q)) = Len(q) /\ (OnWire(q) = <<>> <=> q = <<>>)
           /\ \A e \in ToClient : OnWire(Append(q, e)) = Append(OnWire(q), IF e.cmd = "DATA" THEN e.val ELSE Null)
           /\ q # <<>> => /\ OnWire(Tail(q)) = Tail(OnWire(q))
                          /\ Head(OnWire(q)) = IF Head(q).cmd = "DATA" THEN Head(q).val ELSE Null
<1>1. \A e \in ToClient : (IF e.cmd = "DATA" THEN e.val ELSE Null) \in Posts
  BY Members DEF Null, Posts
<1>2. ASSUME NEW r \in Seq(ToClient)
      PROVE  OnWire(r) \in Seq(Posts) /\ Len(OnWire(r)) = Len(r)
  <2>1. Len(r) \in Nat /\ \A i \in 1..Len(r) : r[i] \in ToClient
    BY ElementOfSeq, LenProperties
  <2>2. OnWire(r) \in [1..Len(r) -> Posts]
    BY <1>1, <2>1 DEF OnWire
  <2>3. QED
    BY <2>1, <2>2, IsASeq DEF OnWire
<1>3. OnWire(q) = <<>> <=> q = <<>>
  BY <1>2, EmptySeq
<1>4. ASSUME NEW e \in ToClient
      PROVE  OnWire(Append(q, e)) = Append(OnWire(q), IF e.cmd = "DATA" THEN e.val ELSE Null)
  <2> DEFINE a == Append(q, e)
             v == IF e.cmd = "DATA" THEN e.val ELSE Null
  <2>1. /\ a \in Seq(ToClient) /\ Len(a) = Len(q) + 1 /\ a[Len(q) + 1] = e /\ Len(q) \in Nat
        /\ \A i \in 1..Len(q) : a[i] = q[i]
    BY AppendProperties
  <2>2. OnWire(a) \in Seq(Posts) /\ Len(OnWire(a)) = Len(q) + 1 /\ v \in Posts
    BY <1>1, <1>2, <2>1
  <2>3. /\ Append(OnWire(q), v) \in Seq(Posts) /\ Len(Append(OnWire(q), v)) = Len(q) + 1
        /\ Append(OnWire(q), v)[Len(q) + 1] = v
        /\ \A i \in 1..Len(q) : Append(OnWire(q), v)[i] = OnWire(q)[i]
    BY <1>2, <2>2, AppendProperties
  <2>4. /\ \A i \in 1..Len(q) : OnWire(a)[i] = OnWire(q)[i]
        /\ OnWire(a)[Len(q) + 1] = v
    BY <2>1 DEF OnWire
  <2>5. \A i \in 1..(Len(q) + 1) : i \in 1..Len(q) \/ i = Len(q) + 1
    BY <2>1
  <2>6. \A i \in 1..Len(OnWire(a)) : OnWire(a)[i] = Append(OnWire(q), v)[i]
    BY <2>2, <2>3, <2>4, <2>5
  <2> HIDE DEF a, v
  <2>7. OnWire(a) = Append(OnWire(q), v)
    BY <2>2, <2>3, <2>6, SeqEqual
  <2>8. QED
    BY <2>7 DEF a, v
<1>5. ASSUME q # <<>>
      PROVE  /\ OnWire(Tail(q)) = Tail(OnWire(q))
             /\ Head(OnWire(q)) = IF Head(q).cmd = "DATA" THEN Head(q).val ELSE Null
  <2>1. /\ Tail(q) \in Seq(ToClient) /\ Len(Tail(q)) = Len(q) - 1 /\ Head(q) = q[1] /\ Len(q) \in Nat \ {0}
        /\ \A i \in 1..Len(Tail(q)) : Tail(q)[i] = q[i + 1]
    BY <1>5
  <2>2. /\ OnWire(q) # <<>> /\ Tail(OnWire(q)) \in Seq(Posts) /\ Len(Tail(OnWire(q))) = Len(q) - 1
        /\ Head(OnWire(q)) = OnWire(q)[1]
        /\ \A i \in 1..Len(Tail(q)) : Tail(OnWire(q))[i] = OnWire(q)[i + 1]
    BY <1>2, <1>3, <1>5, <2>1
  <2>3. OnWire(Tail(q)) \in Seq(Posts) /\ Len(OnWire(Tail(q))) = Len(q) - 1
    BY <1>2, <2>1
  <2>4. \A i \in 1..Len(Tail(q)) : i + 1 \in 1..Len(q)
    BY <2>1
  <2>5. \A i \in 1..Len(Tail(q)) : OnWire(Tail(q))[i] = Tail(OnWire(q))[i]
    BY <2>1, <2>2, <2>4 DEF OnWire
  <2>6. OnWire(Tail(q)) = Tail(OnWire(q))
    BY <2>1, <2>2, <2>3, <2>5, SeqEqual
  <2>7. OnWire(q)[1] = IF q[1].cmd = "DATA" THEN q[1].val ELSE Null
    BY <2>1 DEF OnWire
  <2>8. QED
    BY <2>1, <2>2, <2>6, <2>7
<1>6. QED
  BY <1>2, <1>3, <1>4, <1>5

\* An update is squashed with the last entry.
LEMMA EnteredSquash ==
    ASSUME NEW q \in Seq(Entries), q # <<>>, IsData(q[Len(q)]), NEW v \in Posts,
           NEW e \in Entries, e = [kind |-> "data", val |-> q[Len(q)].val \cup v]
    PROVE  /\ Entered(q)[Len(q)] = q[Len(q)].val /\ Len(Entered(q)) = Len(q)
           /\ Entered([q EXCEPT ![Len(q)] = e]) = Squashed(Entered(q), v)
<1> DEFINE a == [q EXCEPT ![Len(q)] = e]
           x == q[Len(q)].val \cup v
           b == [Entered(q) EXCEPT ![Len(q)] = x]
<1>1. Len(q) \in Nat \ {0} /\ Len(q) \in 1..Len(q)
  BY EmptySeq, LenProperties
<1>2. q[Len(q)].val \in Posts
  BY <1>1, ElementOfSeq, Members
<1>3. x \in Posts
  BY <1>2 DEF Posts
<1>4. /\ a \in Seq(Entries) /\ Len(a) = Len(q)
      /\ \A i \in 1..Len(q) : a[i] = IF i = Len(q) THEN e ELSE q[i]
  BY <1>1, ExceptSeq
<1>5. Entered(q) \in Seq(Posts) /\ Len(Entered(q)) = Len(q) /\ Entered(a) \in Seq(Posts) /\ Len(Entered(a)) = Len(q)
  BY <1>4, EnteredFacts
<1>6. /\ b \in Seq(Posts) /\ Len(b) = Len(q)
      /\ \A i \in 1..Len(q) : b[i] = IF i = Len(q) THEN x ELSE Entered(q)[i]
  BY <1>1, <1>3, <1>5, ExceptSeq
<1>7. Entered(q)[Len(q)] = q[Len(q)].val
  BY <1>1 DEF Entered
<1>8. ASSUME NEW i \in 1..Len(q) PROVE Entered(a)[i] = b[i]
  <2>1. Entered(a)[i] = (IF IsData(a[i]) THEN a[i].val ELSE Null) /\ Entered(q)[i] = (IF IsData(q[i]) THEN q[i].val ELSE Null)
    BY <1>4 DEF Entered
  <2>2. IsData(e) /\ e.val = x
    BY DEF IsData
  <2>3. QED
    BY <1>4, <1>6, <2>1, <2>2
<1> HIDE DEF a, b, x
<1>9. Entered(a) = b
  BY <1>5, <1>6, <1>8, SeqEqual
<1>10. QED
  BY <1>5, <1>7, <1>9 DEF a, b, x, Squashed

\* Posts of the subscription which are not lost
Held == dropped \cup AllHeld(popped, Received, Sent, squeue)
\* Both ends are there, or about to be.
Going == cstate \in {"Creating", "Idle", "Running"} /\ sstate \in {"Creating", "Idle", "Executing"}
Kept == Going => (base + 1)..posted \subseteq Held
FlowNow == Flow(popped, Received, Sent, squeue, posted)
Joined ==
    /\ cstate \in {"Creating", "Idle", "Running"} => known
    /\ cstate = "Connecting" => Gone /\ c2s = <<>>

\* What is delivered: the four places where a Value may be hold the posts in
\* order, and a subscription alive at both ends has all of them.
DeliveryInv == FlowNow /\ Joined /\ Kept

\* The four places
LEMMA Places ==
    ASSUME Types
    PROVE  /\ Received = Entered(cqueue) /\ Sent = OnWire(s2c)
           /\ cqueue \in Seq(Entries) /\ s2c \in Seq(ToClient) /\ squeue \in Seq(Posts) /\ popped \in Seq(Posts)
           /\ posted \in Nat /\ base \in Nat /\ posted \in 0..MaxPost
<1>1. Received = Entered(cqueue) /\ Sent = OnWire(s2c)
  BY DEF Received, Sent, Entered, OnWire
<1>2. QED
  BY <1>1, MaxPostAssumption DEF Types, ServerTypes, ClientTypes, WireTypes

\* No Value moves.
LEMMA SameFlow ==
    ASSUME UNCHANGED <<popped, cqueue, s2c, squeue, posted, dropped>>
    PROVE  FlowNow' = FlowNow /\ Held' = Held
BY DEF FlowNow, Held, Received, Sent

\* A message without a Value is sent.
LEMMA SendEventFlow ==
    ASSUME Types, FlowNow, NEW m \in ToClient, m.cmd # "DATA", Send(m),
           UNCHANGED <<popped, cqueue, squeue, posted, dropped>>
    PROVE  FlowNow' /\ Held' = Held
<1>1. s2c' = Append(s2c, m)
  BY DEF Send
<1>2. Sent' = Append(Sent, {}) /\ Received' = Received
  <2>1. OnWire(s2c') = Append(OnWire(s2c), {})
    BY <1>1, Places, OnWireFacts DEF Null
  <2>2. QED
    BY <2>1 DEF Received, Sent, OnWire
<1>3. Flow(popped, Received, Append(Sent, {}), squeue, posted)
      /\ AllHeld(popped, Received, Append(Sent, {}), squeue) = AllHeld(popped, Received, Sent, squeue)
  BY Places, EventFlow DEF FlowNow
<1>4. QED
  BY <1>2, <1>3 DEF FlowNow, Held

\* What is at the front of the server's queue is sent.
LEMMA SendValueFlow ==
    ASSUME Types, FlowNow, squeue # <<>>, squeue' = Tail(squeue),
           Send([cmd |-> "DATA", val |-> Head(squeue)]),
           UNCHANGED <<popped, cqueue, posted, dropped>>
    PROVE  FlowNow' /\ Held' = Held
<1>1. s2c' = Append(s2c, [cmd |-> "DATA", val |-> Head(squeue)]) /\ Head(squeue) \in Posts
  BY Places DEF Send
<1>2. Sent' = Append(Sent, Head(squeue)) /\ Received' = Received
  <2>1. OnWire(s2c') = Append(OnWire(s2c), Head(squeue))
    BY <1>1, Places, OnWireFacts, Messages
  <2>2. QED
    BY <2>1 DEF Received, Sent, OnWire
<1>3. Flow(popped, Received, Append(Sent, Head(squeue)), Tail(squeue), posted)
      /\ AllHeld(popped, Received, Append(Sent, Head(squeue)), Tail(squeue)) = AllHeld(popped, Received, Sent, squeue)
  BY Places, SendFlow DEF FlowNow
<1>4. QED
  BY <1>2, <1>3 DEF FlowNow, Held

\* A message is sent, and the Value() of finish() taken.
LEMMA SendFinishFlow ==
    ASSUME Types, FlowNow, squeue # <<>>, Head(squeue) = Null, squeue' = Tail(squeue),
           NEW m \in ToClient, m.cmd # "DATA", Send(m),
           UNCHANGED <<popped, cqueue, posted, dropped>>
    PROVE  FlowNow' /\ Held' = Held
<1>1. s2c' = Append(s2c, m)
  BY DEF Send
<1>2. Sent' = Append(Sent, {}) /\ Received' = Received
  <2>1. OnWire(s2c') = Append(OnWire(s2c), {})
    BY <1>1, Places, OnWireFacts DEF Null
  <2>2. QED
    BY <2>1 DEF Received, Sent, OnWire
<1>3. Flow(popped, Received, Sent, Tail(squeue), posted)
      /\ AllHeld(popped, Received, Sent, Tail(squeue)) = AllHeld(popped, Received, Sent, squeue)
  BY Places, SkipFlow DEF FlowNow, Null
<1>4. Flow(popped, Received, Append(Sent, {}), Tail(squeue), posted)
      /\ AllHeld(popped, Received, Append(Sent, {}), Tail(squeue)) = AllHeld(popped, Received, Sent, Tail(squeue))
  BY <1>3, Places, EventFlow
<1>5. QED
  BY <1>2, <1>3, <1>4 DEF FlowNow, Held

\* MonitorOp::doReply()
LEMMA DoReplyFlow ==
    ASSUME Types, FlowNow, NEW js, NEW bl, NEW typed \in BOOLEAN, NEW error \in BOOLEAN,
           DoReply(js, bl, typed, error), UNCHANGED <<popped, cqueue, posted, dropped>>
    PROVE  FlowNow' /\ Held' = Held /\ (Gone => Gone')
<1>1. CASE ReplyDead(js, bl) \/ ReplyDeferred(js, bl) \/ ReplyNothing(js, bl)
  BY <1>1, SameFlow DEF ReplyDead, ReplyDeferred, ReplyNothing, Gone
<1>2. CASE ReplyInit(js, bl, typed, error)
  <2>1. PICK m \in ToClient : m.cmd # "DATA" /\ Send(m)
    <3>1. [cmd |-> IF error \/ ~typed THEN "INITERR" ELSE "INIT"] \in ToClient
      BY Messages
    <3>2. QED
      BY <1>2, <3>1 DEF ReplyInit
  <2>2. squeue' = squeue /\ ~Gone
    BY <1>2 DEF ReplyInit, Gone
  <2>3. QED
    BY <2>1, <2>2, SendEventFlow
<1>3. CASE ReplyFinish(js, bl)
  <2>1. [cmd |-> "FINISH"] \in ToClient /\ [cmd |-> "FINISH"].cmd # "DATA"
    BY Messages
  <2>2. squeue # <<>> /\ Head(squeue) = Null /\ squeue' = Tail(squeue) /\ Send([cmd |-> "FINISH"]) /\ ~Gone
    BY <1>3 DEF ReplyFinish, Gone
  <2>3. QED
    BY <2>1, <2>2, SendFinishFlow
<1>4. CASE ReplyUpdate(js, bl)
  BY <1>4, SendValueFlow DEF ReplyUpdate, Gone
<1>5. CASE ReplyIdle(js, bl)
  <2>1. [cmd |-> "MALFORMED"] \in ToClient /\ [cmd |-> "MALFORMED"].cmd # "DATA"
    BY Messages
  <2>2. ~Gone
    BY <1>5 DEF ReplyIdle, Gone
  <2>3. CASE squeue = <<>>
    <3>1. squeue' = squeue /\ Send([cmd |-> "MALFORMED"])
      BY <1>5, <2>3 DEF ReplyIdle
    <3>2. QED
      BY <2>1, <2>2, <3>1, SendEventFlow
  <2>4. CASE squeue # <<>> /\ Head(squeue) = Null
    <3>1. squeue' = Tail(squeue) /\ Send([cmd |-> "MALFORMED"])
      BY <1>5, <2>4 DEF ReplyIdle
    <3>2. QED
      BY <2>1, <2>2, <2>4, <3>1, SendFinishFlow
  <2>5. CASE squeue # <<>> /\ Head(squeue) # Null
    <3>1. squeue' = Tail(squeue) /\ Send([cmd |-> "DATA", val |-> Head(squeue)])
      BY <1>5, <2>5 DEF ReplyIdle
    <3>2. QED
      BY <2>2, <2>5, <3>1, SendValueFlow
  <2>6. QED
    BY <2>3, <2>4, <2>5
<1>6. QED
  BY <1>1, <1>2, <1>3, <1>4, <1>5 DEF DoReply

\* doPost()
LEMMA DoPostFlow ==
    ASSUME Types, FlowNow, NEW maybe \in BOOLEAN, NEW force \in BOOLEAN, DoPost(maybe, force),
           UNCHANGED <<popped, cqueue>>, ~(maybe /\ force)
    PROVE  FlowNow' /\ Held \cup {posted'} \subseteq Held' /\ posted' = posted + 1
<1>1. /\ posted' = posted + 1 /\ squeue' = Queued(squeue, {posted + 1}, maybe, force)
      /\ dropped' = (IF maybe /\ ~HasRoom THEN dropped \cup {posted + 1} ELSE dropped)
      /\ s2c' = s2c
  BY DEF DoPost
<1>2. Received' = Received /\ Sent' = Sent /\ posted \in Nat /\ posted' \in Nat /\ squeue \in Seq(Posts)
  BY <1>1, Places DEF Received, Sent
<1>3. CASE HasRoom \/ force
  <2>1. squeue' = Append(squeue, {posted'}) /\ dropped' = dropped
    BY <1>1, <1>3 DEF Queued, HasRoom
  <2>2. Flow(popped, Received, Sent, Append(squeue, {posted'}), posted')
        /\ AllHeld(popped, Received, Sent, Append(squeue, {posted'})) = AllHeld(popped, Received, Sent, squeue) \cup {posted'}
    BY <1>1, <1>2, PostFlow DEF FlowNow
  <2>3. QED
    BY <1>1, <1>2, <2>1, <2>2 DEF FlowNow, Held
<1>4. CASE ~HasRoom /\ ~force /\ maybe
  <2>1. squeue' = squeue /\ dropped' = dropped \cup {posted'}
    BY <1>1, <1>4 DEF Queued, HasRoom
  <2>2. Flow(popped, Received, Sent, squeue, posted')
    BY <1>1, <1>2, PostFlow DEF FlowNow
  <2>3. QED
    BY <1>1, <1>2, <2>1, <2>2 DEF FlowNow, Held
<1>5. CASE ~HasRoom /\ ~force /\ ~maybe
  <2>1. squeue' = Squashed(squeue, {posted'}) /\ dropped' = dropped
    BY <1>1, <1>5 DEF Queued, HasRoom, Squashed
  <2>2. squeue # <<>>
    BY <1>2, <1>5, QueueSizeAssumption DEF HasRoom
  <2>3. Flow(popped, Received, Sent, squeue', posted')
        /\ AllHeld(popped, Received, Sent, squeue') = AllHeld(popped, Received, Sent, squeue) \cup {posted'}
    <3>1. Flow(popped, Received, Sent, squeue, posted) /\ posted' \in Nat /\ posted' = posted + 1
      BY <1>1, <1>2 DEF FlowNow
    <3>2. QED
      BY <1>2, <2>1, <2>2, <3>1, SquashPostFlow
  <2>4. QED
    BY <1>1, <1>2, <2>1, <2>3 DEF FlowNow, Held
<1>6. QED
  BY <1>3, <1>4, <1>5

\* tryPost() until the queue is full
LEMMA PushFlow ==
    ASSUME Types, FlowNow, NEW js, Push(js), UNCHANGED <<popped, cqueue, s2c>>
    PROVE  FlowNow' /\ Held \cup (posted + 1)..posted' \subseteq Held'
<1> DEFINE left == MaxPost - posted
           room == IF HasRoom THEN QueueSize - Len(squeue) ELSE 0
           n == IF left < room THEN left ELSE room
           lost == IF room = 0 /\ left > 0 THEN {posted + 1} ELSE {}
           more == [i \in 1..n |-> {posted + i}]
           fin == posted' = MaxPost /\ ~finished
<1>1. /\ posted' = IF lost # {} THEN posted + 1 ELSE posted + n
      /\ dropped' = dropped \cup lost
      /\ squeue' = squeue \o more \o (IF fin THEN <<Null>> ELSE <<>>)
  BY DEF Push
<1>2. Received' = Received /\ Sent' = Sent /\ posted \in Nat /\ posted \in 0..MaxPost /\ squeue \in Seq(Posts)
  BY Places DEF Received, Sent
<1>3. /\ n \in Nat /\ posted' \in Nat /\ posted + n <= posted' /\ Len(squeue) \in Nat
      /\ lost \cup (posted + 1)..(posted + n) = (posted + 1)..posted'
  BY <1>1, <1>2, MaxPostAssumption, QueueSizeAssumption, LenProperties DEF HasRoom
<1>4. /\ more \in Values /\ Holds(more) = (posted + 1)..(posted + n) /\ Ordered(more)
  <2>1. more \in Seq(SUBSET Nat) /\ Len(more) = n /\ \A i \in 1..n : more[i] = {posted + i}
    BY <1>2, <1>3
  <2> HIDE DEF more
  <2>2. \A k \in (posted + 1)..(posted + n) : k - posted \in 1..n /\ posted + (k - posted) = k
    BY <1>2, <1>3
  <2>3. \A k \in (posted + 1)..(posted + n) : k \in Holds(more)
    <3>1. \A k \in (posted + 1)..(posted + n) : k \in more[k - posted]
      BY <2>1, <2>2
    <3>2. QED
      BY <2>1, <2>2, <3>1 DEF Holds
  <2>4. \A i \in 1..n : posted + i \in (posted + 1)..(posted + n)
    BY <1>2, <1>3
  <2>5. Holds(more) \subseteq (posted + 1)..(posted + n)
    BY <2>1, <2>4 DEF Holds
  <2>6. Ordered(more)
    <3>1. \A i, j \in 1..n : i < j => posted + i < posted + j
      BY <1>2, <1>3
    <3>2. \A i, j \in 1..n : i < j => Before(more[i], more[j])
      BY <2>1, <3>1 DEF Before
    <3>3. QED
      BY <2>1, <3>2 DEF Ordered
  <2>7. QED
    BY <2>1, <2>3, <2>5, <2>6 DEF Values
<1> HIDE DEF more, n, lost, fin, room, left
<1>5. /\ Flow(popped, Received, Sent, squeue \o more, posted')
      /\ AllHeld(popped, Received, Sent, squeue \o more)
           = AllHeld(popped, Received, Sent, squeue) \cup (posted + 1)..(posted + n)
  <2>1. Flow(popped, Received, Sent, squeue, posted)
    BY DEF FlowNow
  <2>2. \A v \in {popped, Received, Sent, squeue} : v \in Values /\ Ordered(v) /\ UpTo(Holds(v), posted)
    BY <2>1 DEF Flow
  <2>3. \A v \in Values : Holds(v) \subseteq Nat
    BY DEF Values, Holds
  <2>4. \A v \in {popped, Received, Sent, squeue} : Before(Holds(v), Holds(more)) /\ UpTo(Holds(v), posted')
    BY <1>2, <1>3, <1>4, <2>2, <2>3 DEF Before, UpTo
  <2>5. squeue \o more \in Values /\ Holds(squeue \o more) = Holds(squeue) \cup Holds(more) /\ Ordered(squeue \o more)
    BY <1>4, <2>2, <2>4, ConcatValues
  <2>6. UpTo(Holds(more), posted')
    BY <1>2, <1>3, <1>4 DEF UpTo
  <2>7. Flow(popped, Received, Sent, squeue \o more, posted')
    BY <2>1, <2>2, <2>4, <2>5, <2>6 DEF Flow, Before, UpTo
  <2>8. QED
    BY <1>4, <2>5, <2>7 DEF AllHeld
<1>6. /\ Flow(popped, Received, Sent, squeue', posted')
      /\ AllHeld(popped, Received, Sent, squeue') = AllHeld(popped, Received, Sent, squeue \o more)
  <2>1. squeue \o more \in Values
    BY <1>5 DEF Flow
  <2>2. CASE fin
    <3>1. squeue' = Append(squeue \o more, {})
      BY <1>1, <2>1, <2>2, AppendIsConcat DEF Null, Values
    <3>2. QED
      BY <1>3, <1>5, <3>1, EventFlow
  <2>3. CASE ~fin
    <3>1. squeue' = squeue \o more
      BY <1>1, <2>1, <2>3 DEF Values
    <3>2. QED
      BY <1>5, <3>1
  <2>4. QED
    BY <2>2, <2>3
<1>7. QED
  BY <1>1, <1>2, <1>3, <1>5, <1>6 DEF FlowNow, Held

\* The server's steps neither reorder nor lose an update.
LEMMA ServerDelivery ==
    ASSUME Types, Types', DeliveryInv, Server
    PROVE  DeliveryInv'
<1>1. /\ FlowNow /\ Joined /\ Kept /\ posted \in Nat /\ base \in Nat
      /\ UNCHANGED <<cstate, known, cqueue, popped, link>>
  BY Places DEF DeliveryInv, Server, cvars
<1>2. c2s # <<>> => cstate # "Connecting"
  BY <1>1 DEF Joined
<1>3. ASSUME Gone => Gone', c2s' = c2s \/ c2s # <<>>
      PROVE  Joined' /\ (Going' => Going)
  BY <1>1, <1>2, <1>3 DEF Joined, Going, Gone, Types, ServerTypes
<1>4. ASSUME FlowNow', Held \cup (posted + 1)..posted' \subseteq Held', posted' \in Nat, base' = base,
             Gone => Gone', c2s' = c2s \/ c2s # <<>>
      PROVE  DeliveryInv'
  <2>1. Joined' /\ (Going' => Going)
    BY <1>3, <1>4
  <2>2. (base' + 1)..posted' \subseteq (base + 1)..posted \cup (posted + 1)..posted'
    BY <1>1, <1>4
  <2>3. Kept'
    BY <1>1, <1>4, <2>1, <2>2 DEF Kept
  <2>4. QED
    BY <1>4, <2>1, <2>3 DEF DeliveryInv
<1>5. ASSUME FlowNow', Held' = Held, posted' = posted, base' = base, Gone => Gone', c2s' = c2s \/ c2s # <<>>
      PROVE  DeliveryInv'
  <2>1. (posted + 1)..posted' = {}
    BY <1>1, <1>5
  <2>2. QED
    BY <1>1, <1>4, <1>5, <2>1
<1>6. CASE HandleInit
  <2>1. /\ c2s # <<>> /\ squeue' = <<>> /\ base' = posted /\ UNCHANGED <<posted, dropped, s2c>>
    BY <1>6 DEF HandleInit, ServerRecv
  <2>2. Received' = Received /\ Sent' = Sent
    BY <1>1, <2>1 DEF Received, Sent
  <2>3. FlowNow'
    BY <1>1, <2>1, <2>2, EmptyFlow DEF FlowNow
  <2>4. (base' + 1)..posted' = {}
    BY <1>1, <2>1
  <2>5. Kept' /\ Joined'
    BY <1>1, <1>2, <2>1, <2>4 DEF Kept, Joined
  <2>6. QED
    BY <2>3, <2>5 DEF DeliveryInv
<1>7. CASE HandleStart \/ HandleAck \/ HandleDestroy
  <2>1. c2s # <<>> /\ UNCHANGED <<squeue, posted, dropped, base, s2c>>
    BY <1>7 DEF HandleStart, HandleAck, HandleDestroy, ServerRecv, histvars
  <2>2. Gone => Gone'
    BY <1>7 DEF HandleStart, HandleAck, HandleDestroy, Gone
  <2>3. QED
    BY <1>1, <1>5, <2>1, <2>2, SameFlow
<1>8. CASE JobReply
  <2>1. DoReply(Tail(jobs), backlog, hasType, msg) /\ UNCHANGED <<posted, base, dropped, c2s>>
    BY <1>8 DEF JobReply, histvars
  <2>2. hasType \in BOOLEAN /\ msg \in BOOLEAN
    BY DEF Types, ServerTypes
  <2>3. FlowNow' /\ Held' = Held /\ (Gone => Gone')
    BY <1>1, <2>1, <2>2, DoReplyFlow
  <2>4. QED
    BY <1>5, <2>1, <2>3
<1>9. CASE JobError
  <2>1. UNCHANGED <<posted, base, dropped, c2s>>
    BY <1>9 DEF JobError, histvars
  <2>2. FlowNow' /\ Held' = Held /\ (Gone => Gone')
    <3>1. CASE ErrorApplies
      <4>1. DoReply(Tail(jobs), backlog, hasType, TRUE) /\ hasType \in BOOLEAN
        BY <1>9, <3>1 DEF JobError, Types, ServerTypes
      <4>2. QED
        BY <1>1, <2>1, <4>1, DoReplyFlow
    <3>2. CASE ~ErrorApplies
      BY <1>1, <1>9, <2>1, <3>2, SameFlow DEF JobError, Gone
    <3>3. QED
      BY <3>1, <3>2
  <2>3. QED
    BY <1>5, <2>1, <2>2
<1>10. CASE JobHigh
  <2>1. UNCHANGED <<sstate, base, c2s, s2c>> /\ posted' \in Nat
    BY <1>10, Places DEF JobHigh, Types, ServerTypes
  <2>2. CASE UNCHANGED <<posted, dropped, squeue>>
    BY <1>1, <1>5, <2>1, <2>2, SameFlow DEF Gone
  <2>3. CASE Push(Tail(jobs))
    BY <1>1, <1>4, <2>1, <2>3, PushFlow DEF Gone
  <2>4. QED
    BY <1>10, <2>2, <2>3 DEF JobHigh
<1>11. CASE BevWrite \/ BevWriteEnd \/ Congest \/ DropSetup
  <2>1. UNCHANGED <<sstate, squeue, posted, dropped, base, s2c, c2s>>
    BY <1>11 DEF BevWrite, BevWriteEnd, Congest, DropSetup, opvars, histvars
  <2>2. QED
    BY <1>1, <1>5, <2>1, SameFlow DEF Gone
<1>12. CASE BacklogStep
  <2>1. DoReply(jobs, backlog - 1, hasType, msg) /\ UNCHANGED <<posted, base, dropped, c2s>>
    BY <1>12 DEF BacklogStep, histvars
  <2>2. hasType \in BOOLEAN /\ msg \in BOOLEAN
    BY DEF Types, ServerTypes
  <2>3. FlowNow' /\ Held' = Held /\ (Gone => Gone')
    BY <1>1, <2>1, <2>2, DoReplyFlow
  <2>4. QED
    BY <1>5, <2>1, <2>3
<1>13. CASE Connect
  <2>1. DoReply(jobs, backlog, TRUE, msg) /\ UNCHANGED <<posted, base, dropped, c2s>>
    BY <1>13 DEF Connect, histvars
  <2>2. msg \in BOOLEAN
    BY DEF Types, ServerTypes
  <2>3. FlowNow' /\ Held' = Held /\ (Gone => Gone')
    BY <1>1, <2>1, <2>2, DoReplyFlow
  <2>4. QED
    BY <1>5, <2>1, <2>3
<1>14. CASE Post \/ TryPost \/ ForcePost
  <2>1. PICK maybe \in BOOLEAN, force \in BOOLEAN : DoPost(maybe, force) /\ ~(maybe /\ force)
    BY <1>14 DEF Post, TryPost, ForcePost
  <2>2. UNCHANGED <<sstate, base, c2s>>
    BY <2>1 DEF DoPost
  <2>3. FlowNow' /\ Held \cup {posted'} \subseteq Held' /\ posted' = posted + 1
    BY <1>1, <2>1, DoPostFlow
  <2>4. (posted + 1)..posted' = {posted'} /\ posted' \in Nat
    BY <1>1, <2>3
  <2>5. QED
    BY <1>4, <2>2, <2>3, <2>4 DEF Gone
<1>15. CASE Finish
  <2>1. squeue' = Append(squeue, {}) /\ UNCHANGED <<sstate, posted, dropped, base, s2c, c2s>>
    BY <1>15 DEF Finish, histvars, Null
  <2>2. Received' = Received /\ Sent' = Sent
    BY <1>1, <2>1 DEF Received, Sent
  <2>3. FlowNow' /\ Held' = Held
    BY <1>1, <2>1, <2>2, EventFlow DEF FlowNow, Held
  <2>4. QED
    BY <1>5, <2>1, <2>3 DEF Gone
<1>16. CASE PushInitial
  <2>1. Push(jobs) /\ UNCHANGED <<sstate, base, c2s, s2c>>
    BY <1>16 DEF PushInitial
  <2>2. posted' \in Nat
    BY Places DEF Types, ServerTypes
  <2>3. QED
    BY <1>1, <1>4, <2>1, <2>2, PushFlow DEF Gone
<1>17. QED
  BY <1>6, <1>7, <1>8, <1>9, <1>10, <1>11, <1>12, <1>13, <1>14, <1>15, <1>16
  DEF Server, ServerNext, ServerHandle, ServerJob, ServerWrite, ServerUser

\* An event is pushed.
LEMMA PushEntry ==
    ASSUME NEW q \in Seq(Entries), NEW e \in Entries
    PROVE  q \o <<e>> = Append(q, e) /\ Entered(q \o <<e>>) = Append(Entered(q), IF IsData(e) THEN e.val ELSE {})
<1>1. q \o <<e>> = Append(q, e)
  BY AppendIsConcat
<1>2. QED
  BY <1>1, EnteredFacts DEF Null

\* Nothing but an event enters the client's queue.
LEMMA EventEntered ==
    ASSUME Types, FlowNow, NEW k, Event(k) \in Entries, k # "data", NEW b, PushAndNotify(<<Event(k)>>, b),
           UNCHANGED <<popped, s2c, squeue, posted, dropped>>
    PROVE  FlowNow' /\ Held' = Held
<1>1. cqueue' = cqueue \o <<Event(k)>> /\ ~IsData(Event(k))
  BY DEF PushAndNotify, IsData, Event
<1>2. Received' = Append(Received, {}) /\ Sent' = Sent
  <2>1. Entered(cqueue') = Append(Entered(cqueue), {})
    BY <1>1, Places, PushEntry
  <2>2. QED
    BY <2>1 DEF Received, Sent, Entered
<1>3. QED
  BY <1>2, Places, EventFlow DEF FlowNow, Held

\* A message without a Value, or for a subscription which is no more, is taken.
LEMMA TakenFlow ==
    ASSUME Types, FlowNow, s2c # <<>>, s2c' = Tail(s2c),
           UNCHANGED <<popped, cqueue, squeue, posted, dropped>>
    PROVE  FlowNow' /\ (Head(s2c).cmd # "DATA" => Held' = Held)
<1>1. /\ Sent' = Tail(Sent) /\ Received' = Received /\ Sent # <<>>
      /\ (Head(s2c).cmd # "DATA" => Head(Sent) = {})
  <2>1. /\ OnWire(s2c') = Tail(OnWire(s2c)) /\ OnWire(s2c) # <<>>
        /\ (Head(s2c).cmd # "DATA" => Head(OnWire(s2c)) = {})
    BY Places, OnWireFacts DEF Null
  <2>2. QED
    BY <2>1 DEF Received, Sent, OnWire
<1>2. /\ Flow(popped, Received, Tail(Sent), squeue, posted)
      /\ Head(Sent) = {} => AllHeld(popped, Received, Tail(Sent), squeue) = AllHeld(popped, Received, Sent, squeue)
  BY <1>1, Places, SkipFlow DEF FlowNow
<1>3. QED
  BY <1>1, <1>2 DEF FlowNow, Held

\* The client's steps neither reorder nor lose an update.
LEMMA ClientDelivery ==
    ASSUME Types, Types', DeliveryInv, Client
    PROVE  DeliveryInv'
<1>1. /\ FlowNow /\ Joined /\ Kept /\ posted \in Nat
      /\ UNCHANGED <<sstate, squeue, posted, base, dropped, link>>
  BY Places DEF DeliveryInv, Client, svars, opvars, histvars
<1>2. cstate \in {"Connecting", "Creating", "Idle", "Running", "Done"}
  BY DEF Types, ClientTypes
<1>3. ASSUME FlowNow', Going => Held' = Held, Joined', Going' => Going
      PROVE  DeliveryInv'
  <2>1. Kept'
    BY <1>1, <1>3 DEF Kept
  <2>2. QED
    BY <1>3, <2>1 DEF DeliveryInv
<1>4. CASE CreateOp
  <2>1. /\ cstate = "Connecting" /\ cstate' = "Creating" /\ known' = TRUE /\ UNCHANGED <<popped, s2c>>
    BY <1>4 DEF CreateOp
  <2>2. Joined' /\ (Going' => Going)
    BY <1>1, <2>1 DEF Joined, Going, Gone
  <2>3. FlowNow' /\ Held' = Held
    <3>1. CASE UNCHANGED cqueue
      BY <1>1, <2>1, <3>1, SameFlow
    <3>2. CASE PushAndNotify(<<Event("Connected")>>, cqueue = <<>>)
      BY <1>1, <2>1, <3>2, EventEntered, Messages
    <3>3. QED
      BY <1>4, <3>1, <3>2 DEF CreateOp, NoPush
  <2>4. QED
    BY <1>3, <2>2, <2>3
<1>5. CASE HandleStale
  <2>1. s2c # <<>> /\ Stale /\ s2c' = Tail(s2c) /\ UNCHANGED <<cstate, known, cqueue, popped, c2s>>
    BY <1>5 DEF HandleStale, cvars
  <2>2. ~Going /\ ~Going' /\ Joined'
    BY <1>1, <2>1 DEF Stale, Going, Joined, Gone
  <2>3. FlowNow'
    BY <1>1, <2>1, TakenFlow
  <2>4. QED
    BY <1>3, <2>2, <2>3
<1>6. CASE HandleInitReply
  <2>1. /\ s2c # <<>> /\ Head(s2c).cmd # "DATA" /\ s2c' = Tail(s2c) /\ cstate = "Creating" /\ cstate' = "Running"
        /\ UNCHANGED <<known, cqueue, popped>>
    BY <1>6 DEF HandleInitReply, ClientRecv
  <2>2. Joined' /\ (Going' => Going)
    BY <1>1, <2>1 DEF Going, Joined
  <2>3. QED
    BY <1>1, <1>3, <2>1, <2>2, TakenFlow
<1>7. CASE HandleInitError \/ HandleFinish
  <2>1. /\ s2c # <<>> /\ Head(s2c).cmd # "DATA" /\ s2c' = Tail(s2c) /\ cstate' = "Done" /\ popped' = popped
    BY <1>7 DEF HandleInitError, HandleFinish, ClientRecv
  <2>2. PICK k \in {"RemoteError", "Finished"}, b \in BOOLEAN : PushAndNotify(<<Event(k)>>, b)
    BY <1>7 DEF HandleInitError, HandleFinish
  <2>3. cqueue' = cqueue \o <<Event(k)>> /\ ~IsData(Event(k)) /\ Event(k) \in Entries
    BY <2>2, Messages DEF PushAndNotify, IsData, Event
  <2>4. Received' = Append(Received, {}) /\ Sent' = Tail(Sent) /\ Sent # <<>> /\ Head(Sent) = {}
    <3>1. Entered(cqueue') = Append(Entered(cqueue), {})
      BY <2>3, Places, PushEntry
    <3>2. OnWire(s2c') = Tail(OnWire(s2c)) /\ OnWire(s2c) # <<>> /\ Head(OnWire(s2c)) = {}
      BY <2>1, Places, OnWireFacts DEF Null
    <3>3. QED
      BY <3>1, <3>2 DEF Received, Sent, Entered, OnWire
  <2>5. Flow(popped, Received, Tail(Sent), squeue, posted)
        /\ AllHeld(popped, Received, Tail(Sent), squeue) = AllHeld(popped, Received, Sent, squeue)
    BY <1>1, <2>4, SkipFlow DEF FlowNow
  <2>6. Flow(popped, Append(Received, {}), Tail(Sent), squeue, posted)
        /\ AllHeld(popped, Append(Received, {}), Tail(Sent), squeue) = AllHeld(popped, Received, Tail(Sent), squeue)
    BY <1>1, <2>5, EventFlow
  <2>7. FlowNow' /\ Held' = Held
    BY <1>1, <2>1, <2>4, <2>5, <2>6 DEF FlowNow, Held
  <2>8. Joined' /\ ~Going'
    BY <2>1 DEF Joined, Going
  <2>9. QED
    BY <1>3, <2>7, <2>8
<1>8. CASE HandleUpdate
  <2>1. /\ s2c # <<>> /\ Head(s2c).cmd = "DATA" /\ s2c' = Tail(s2c) /\ UNCHANGED <<cstate, known, c2s, popped>>
    BY <1>8 DEF HandleUpdate, ClientRecv
  <2>2. /\ OnWire(s2c') = Tail(OnWire(s2c)) /\ OnWire(s2c) # <<>> /\ Head(OnWire(s2c)) = Head(s2c).val
        /\ Head(s2c).val \in Posts
    <3>1. Head(s2c) \in ToClient
      BY <2>1, Places
    <3>2. QED
      BY <2>1, <3>1, Places, OnWireFacts, Members
  <2>3. Sent' = Tail(Sent) /\ Sent # <<>> /\ Head(Sent) = Head(s2c).val
    BY <2>2 DEF Sent, OnWire
  <2>4. FlowNow' /\ Held' = Held
    <3>1. CASE MustSquash
      <4> DEFINE e == [kind |-> "data", val |-> cqueue[Len(cqueue)].val \cup Head(s2c).val]
      <4>1. cqueue # <<>> /\ IsData(cqueue[Len(cqueue)]) /\ Len(cqueue) \in 1..Len(cqueue)
        BY <3>1, Places, QueueSizeAssumption, EmptySeq, LenProperties DEF MustSquash
      <4>2. cqueue[Len(cqueue)] \in Entries
        BY <4>1, Places, ElementOfSeq
      <4>3. /\ cqueue[Len(cqueue)] = [kind |-> "data", val |-> cqueue[Len(cqueue)].val]
            /\ cqueue[Len(cqueue)].val \in Posts
        BY <4>1, <4>2, Members
      <4>4. cqueue[Len(cqueue)].val \cup Head(s2c).val \in Posts
        BY <2>2, <4>3 DEF Posts
      <4>5. e \in Entries
        BY <4>4, Messages
      <4>6. [cqueue[Len(cqueue)] EXCEPT !.val = @ \cup Head(s2c).val] = e
        <5>1. \A v, w : [[kind |-> "data", val |-> v] EXCEPT !.val = @ \cup w] = [kind |-> "data", val |-> v \cup w]
          OBVIOUS
        <5>2. QED
          BY <4>3, <5>1
      <4>7. cqueue' = [cqueue EXCEPT ![Len(cqueue)] = e]
        BY <1>8, <3>1, <4>6 DEF HandleUpdate
      <4> HIDE DEF e
      <4>8. Entered([cqueue EXCEPT ![Len(cqueue)] = e]) = Squashed(Entered(cqueue), Head(s2c).val)
        BY <2>2, <4>1, <4>5, Places, EnteredSquash DEF e
      <4>9. Received' = Squashed(Received, Head(Sent)) /\ Received # <<>>
        <5>1. Entered(cqueue') = Squashed(Entered(cqueue), Head(Sent)) /\ Entered(cqueue) # <<>>
          BY <2>3, <4>1, <4>7, <4>8, Places, EnteredFacts
        <5>2. Received' = Entered(cqueue')
          BY DEF Received, Entered
        <5>3. QED
          BY <5>1, <5>2, Places
      <4>10. /\ Flow(popped, Squashed(Received, Head(Sent)), Tail(Sent), squeue, posted)
             /\ AllHeld(popped, Squashed(Received, Head(Sent)), Tail(Sent), squeue)
                  = AllHeld(popped, Received, Sent, squeue)
        BY <1>1, <2>3, <4>9, SquashFlow DEF FlowNow
      <4>11. QED
        BY <1>1, <2>1, <2>3, <4>9, <4>10 DEF FlowNow, Held
    <3>2. CASE ~MustSquash
      <4>1. cqueue' = cqueue \o <<[kind |-> "data", val |-> Head(s2c).val]>>
        BY <1>8, <3>2 DEF HandleUpdate, PushAndNotify
      <4>2. [kind |-> "data", val |-> Head(s2c).val] \in Entries /\ IsData([kind |-> "data", val |-> Head(s2c).val])
        BY <2>2, Messages DEF IsData
      <4>3. Entered(cqueue') = Append(Entered(cqueue), Head(s2c).val)
        BY <4>1, <4>2, Places, PushEntry
      <4>4. Received' = Append(Received, Head(Sent))
        BY <2>3, <4>3 DEF Received, Entered
      <4>5. Flow(popped, Append(Received, Head(Sent)), Tail(Sent), squeue, posted)
            /\ AllHeld(popped, Append(Received, Head(Sent)), Tail(Sent), squeue) = AllHeld(popped, Received, Sent, squeue)
        BY <1>1, <2>3, ReceiveFlow DEF FlowNow
      <4>6. QED
        BY <1>1, <2>1, <2>3, <4>4, <4>5 DEF FlowNow, Held
    <3>3. QED
      BY <3>1, <3>2
  <2>5. Joined' /\ (Going' => Going)
    BY <1>1, <2>1 DEF Joined, Going, Gone
  <2>6. QED
    BY <1>3, <2>4, <2>5
<1>9. CASE Pause \/ Resume
  <2>1. /\ cstate \in {"Idle", "Running"} /\ cstate' \in {"Idle", "Running"}
        /\ UNCHANGED <<known, cqueue, popped, s2c>>
    BY <1>9 DEF Pause, Resume, MayPause
  <2>2. Joined' /\ (Going' => Going)
    BY <1>1, <2>1 DEF Joined, Going
  <2>3. QED
    BY <1>1, <1>3, <2>1, <2>2, SameFlow
<1>10. CASE Cancel \/ Release
  <2>1. cstate' = "Done" /\ UNCHANGED <<cqueue, popped, s2c>>
    BY <1>10 DEF Cancel, Release, CancelEffect
  <2>2. Joined' /\ ~Going'
    BY <2>1 DEF Joined, Going
  <2>3. QED
    BY <1>1, <1>3, <2>1, <2>2, SameFlow
<1>11. CASE Pop
  <2>1. cqueue # <<>> /\ cqueue' = Tail(cqueue) /\ UNCHANGED <<cstate, known, c2s, s2c>>
    BY <1>11 DEF Pop
  <2>2. /\ Received' = Tail(Received) /\ Received # <<>> /\ Sent' = Sent
        /\ Head(Received) = IF IsData(Head(cqueue)) THEN Head(cqueue).val ELSE {}
    <3>1. /\ Entered(cqueue') = Tail(Entered(cqueue)) /\ Entered(cqueue) # <<>>
          /\ Head(Entered(cqueue)) = IF IsData(Head(cqueue)) THEN Head(cqueue).val ELSE {}
      BY <2>1, Places, EnteredFacts DEF Null
    <3>2. Received' = Entered(cqueue')
      BY DEF Received, Entered
    <3>3. Sent' = Sent
      BY <2>1 DEF Sent
    <3>4. QED
      BY <3>1, <3>2, <3>3, Places
  <2>3. FlowNow' /\ Held' = Held
    <3>1. CASE IsData(Head(cqueue))
      <4>1. popped' = Append(popped, Head(Received))
        BY <1>11, <2>2, <3>1 DEF Pop
      <4>2. QED
        BY <1>1, <2>2, <4>1, PopFlow DEF FlowNow, Held
    <3>2. CASE ~IsData(Head(cqueue))
      <4>1. popped' = popped /\ Head(Received) = {}
        BY <1>11, <2>2, <3>2 DEF Pop
      <4>2. QED
        BY <1>1, <2>2, <4>1, SkipFlow DEF FlowNow, Held
    <3>3. QED
      BY <3>1, <3>2
  <2>4. Joined' /\ (Going' => Going)
    BY <1>1, <2>1 DEF Joined, Going, Gone
  <2>5. QED
    BY <1>3, <2>3, <2>4
<1>12. CASE PopEmpty \/ TickAck
  <2>1. UNCHANGED <<cstate, known, cqueue, popped, s2c>> /\ (cstate = "Connecting" => c2s' = c2s)
    BY <1>12 DEF PopEmpty, TickAck
  <2>2. Joined' /\ (Going' => Going)
    BY <1>1, <2>1 DEF Joined, Going, Gone
  <2>3. QED
    BY <1>1, <1>3, <2>1, <2>2, SameFlow
<1>13. QED
  BY <1>4, <1>5, <1>6, <1>7, <1>8, <1>9, <1>10, <1>11, <1>12
  DEF Client, ClientNext, ClientWorker, ClientUser

\* Losing the connection loses updates, but reorders none.
LEMMA DropDelivery ==
    ASSUME Types, DeliveryInv, Drop
    PROVE  DeliveryInv'
<1>1. /\ FlowNow /\ Joined /\ posted \in Nat /\ s2c' = <<>> /\ c2s' = <<>> /\ known' = FALSE
      /\ UNCHANGED <<squeue, popped, posted, dropped>> /\ Gone'
      /\ cstate' = IF known /\ cstate \in {"Creating", "Idle", "Running"} THEN "Connecting" ELSE cstate
  BY Places DEF DeliveryInv, Drop, ServerDisconnect, ClientDisconnect, Cleanup, histvars, Gone
<1>2. Joined' /\ ~Going'
  BY <1>1 DEF Joined, Going, Gone
<1>3. Sent' = <<>>
  BY <1>1 DEF Sent
<1>4. Flow(popped, Received, <<>>, squeue, posted)
  BY <1>1, EmptyFlow DEF FlowNow
<1>5. CASE cqueue' = cqueue
  <2>1. Received' = Received
    BY <1>5 DEF Received
  <2>2. FlowNow'
    BY <1>1, <1>3, <1>4, <2>1 DEF FlowNow
  <2>3. QED
    BY <1>2, <2>2 DEF DeliveryInv, Kept
<1>6. CASE PushAndNotify(<<Event("Disconnect")>>, cqueue = <<>>)
  <2>1. cqueue' = cqueue \o <<Event("Disconnect")>> /\ ~IsData(Event("Disconnect"))
    BY <1>6 DEF PushAndNotify, IsData, Event
  <2>2. Entered(cqueue') = Append(Entered(cqueue), {})
    BY <2>1, Places, PushEntry, Messages
  <2>3. Received' = Append(Received, {})
    BY <2>2 DEF Received, Entered
  <2>4. Flow(popped, Append(Received, {}), <<>>, squeue, posted)
    BY <1>1, <1>4, EventFlow
  <2>5. FlowNow'
    BY <1>1, <1>3, <2>3, <2>4 DEF FlowNow
  <2>6. QED
    BY <1>2, <2>5 DEF DeliveryInv, Kept
<1>7. QED
  BY <1>5, <1>6 DEF Drop, ClientDisconnect, NoPush

\* Updates are always delivered in order, and none is lost.
LEMMA DeliveryInvariant == Spec => []DeliveryInv
<1>1. Init => DeliveryInv
  <2> SUFFICES ASSUME Init PROVE DeliveryInv
    OBVIOUS
  <2>1. /\ popped = <<>> /\ cqueue = <<>> /\ s2c = <<>> /\ c2s = <<>> /\ squeue = <<>> /\ posted = 0
        /\ cstate = "Connecting" /\ sstate = "None"
    BY DEF Init, InitOp, InitClient
  <2>2. Received = <<>> /\ Sent = <<>>
    BY <2>1 DEF Received, Sent
  <2>3. Flow(<<>>, <<>>, <<>>, <<>>, 0)
    BY NoValues DEF Flow, Before, UpTo
  <2>4. QED
    BY <2>1, <2>2, <2>3 DEF DeliveryInv, FlowNow, Joined, Kept, Going, Gone
<1>2. Types /\ Types' /\ DeliveryInv /\ [Next]_vars => DeliveryInv'
  <2> SUFFICES ASSUME Types, Types', DeliveryInv, [Next]_vars PROVE DeliveryInv'
    OBVIOUS
  <2>1. CASE LoseLink \/ Fault
    BY <2>1, DropDelivery DEF LoseLink, Fault
  <2>2. CASE Reconnect \/ UNCHANGED vars
    <3>1. UNCHANGED <<popped, cqueue, s2c, squeue, posted, dropped, base, cstate, known, sstate, c2s>>
      BY <2>2 DEF Reconnect, vars, svars, opvars, histvars, cvars
    <3>2. FlowNow' /\ Held' = Held
      BY <3>1, SameFlow DEF DeliveryInv
    <3>3. QED
      BY <3>1, <3>2 DEF DeliveryInv, Joined, Kept, Going, Gone
  <2>3. QED
    BY <2>1, <2>2, ServerDelivery, ClientDelivery DEF Next
<1>3. QED
  BY <1>1, <1>2, TypesInvariant, PTL DEF Spec

\* Whatever the source posts and however post(), doReply(), the TX buffer, the
\* user's pop(), pause() and cancel(), and lost connections interleave: updates
\* are popped in the order of the posts, each post at most once, and every post
\* of a live subscription has been popped, is on its way, or was refused by
\* tryPost().
THEOREM AllDelivered == Spec => []Delivered
<1>1. Types /\ DeliveryInv => Delivered
  <2> SUFFICES ASSUME Types, DeliveryInv PROVE Delivered
    OBVIOUS
  <2>1. posted \in Nat /\ Flow(popped, Received, Sent, squeue, posted)
    BY Places DEF DeliveryInv, FlowNow
  <2>2. /\ Ordered(popped \o InTransit)
        /\ Holds(InTransit) = Holds(Received) \cup Holds(Sent) \cup Holds(squeue)
    BY <2>1, FlowInOrder DEF InTransit
  <2>3. InOrder
    BY <2>2, Zenon DEF InOrder, Ordered, Before
  <2>4. NothingLost
    <3> SUFFICES ASSUME Live, NEW n \in (base + 1)..posted
                 PROVE  n \in dropped \cup Holds(popped) \cup Holds(InTransit)
      BY DEF NothingLost, Holds
    <3>1. Going
      BY DEF Live, Going
    <3>2. n \in Held
      BY <3>1 DEF DeliveryInv, Kept
    <3>3. QED
      BY <2>2, <3>2 DEF Held, AllHeld
  <2>5. QED
    BY <2>3, <2>4, TypesImply DEF Delivered
<1>2. QED
  BY <1>1, TypesInvariant, DeliveryInvariant, PTL

-----------------------------------------------------------------------------
(* Neither end breaks the protocol.                                        *)

NoInit(q) == \A i \in 1..Len(q) : q[i].cmd # "INIT"

\* INIT is on its way, is being answered by the source, or is answered, and
\* nothing else is on its way to the server.
InitSent ==
    /\ c2s = <<[cmd |-> "INIT", nack |-> QueueSize]>> /\ s2c = <<>>
    /\ Gone /\ link = "up"
InitHeld == c2s = <<>> /\ s2c = <<>> /\ sstate = "Creating" /\ link = "up"
Answered == c2s = <<>> /\ sstate \in {"Idle", "Dead"}
Begun == NoInit(c2s) /\ sstate # "Creating"

\* How far the two ends and the connection have got
Protocol ==
    /\ link = "down" => c2s = <<>> /\ s2c = <<>> /\ Gone /\ cstate \in {"Connecting", "Done"}
    /\ cstate = "Connecting" => c2s = <<>> /\ s2c = <<>> /\ Gone
    /\ cstate = "Creating" => InitSent \/ InitHeld \/ Answered
    /\ cstate \in {"Idle", "Running"} => Begun
    /\ cstate = "Done" => InitSent \/ InitHeld \/ Begun

\* Sequences without INIT
LEMMA NoInits ==
    /\ NoInit(<<>>)
    /\ \A q \in Seq(ToServer) :
          /\ q # <<>> /\ NoInit(q) => NoInit(Tail(q)) /\ Head(q).cmd # "INIT"
          /\ \A m \in ToServer : m.cmd # "INIT" /\ NoInit(q) => NoInit(Append(q, m))
<1>1. NoInit(<<>>)
  BY DEF NoInit
<1>2. ASSUME NEW q \in Seq(ToServer), q # <<>>, NoInit(q) PROVE NoInit(Tail(q)) /\ Head(q).cmd # "INIT"
  <2>1. /\ Len(q) \in Nat \ {0} /\ Len(Tail(q)) = Len(q) - 1 /\ Head(q) = q[1]
        /\ \A i \in 1..Len(Tail(q)) : Tail(q)[i] = q[i + 1]
    BY <1>2
  <2>2. \A i \in 1..Len(Tail(q)) : i + 1 \in 1..Len(q)
    BY <2>1
  <2>3. 1 \in 1..Len(q)
    BY <2>1
  <2>4. QED
    BY <1>2, <2>1, <2>2, <2>3 DEF NoInit
<1>3. ASSUME NEW q \in Seq(ToServer), NEW m \in ToServer, m.cmd # "INIT", NoInit(q) PROVE NoInit(Append(q, m))
  <2>1. /\ Len(q) \in Nat /\ Len(Append(q, m)) = Len(q) + 1 /\ Append(q, m)[Len(q) + 1] = m
        /\ \A i \in 1..Len(q) : Append(q, m)[i] = q[i]
    BY AppendProperties
  <2>2. \A i \in 1..Len(Append(q, m)) : i \in 1..Len(q) \/ i = Len(q) + 1
    BY <2>1
  <2>3. QED
    BY <1>3, <2>1, <2>2 DEF NoInit
<1>4. QED
  BY <1>1, <1>2, <1>3

\* MonitorOp::doReply() answers INIT, or leaves the state of the subscription
\* as it was, and sends nothing once that is gone.
LEMMA DoReplyState ==
    ASSUME ServerTypes, NEW js, NEW bl, NEW typed \in BOOLEAN, NEW error, DoReply(js, bl, typed, error)
    PROVE  /\ sstate = "Creating" => \/ sstate' \in {"Idle", "Dead"}
                                     \/ sstate' = sstate /\ s2c' = s2c
           /\ sstate # "Creating" => sstate' = sstate \/ (sstate = "Executing" /\ sstate' = "Dead")
           /\ Gone => s2c' = s2c
<1>1. sstate \in {"None", "Creating", "Idle", "Executing", "Dead"}
  BY DEF ServerTypes
<1>2. CASE ReplyDead(js, bl) \/ ReplyDeferred(js, bl) \/ ReplyNothing(js, bl)
  BY <1>1, <1>2 DEF ReplyDead, ReplyDeferred, ReplyNothing
<1>3. CASE ReplyInit(js, bl, typed, error)
  BY <1>1, <1>3 DEF ReplyInit, Cleanup, Gone
<1>4. CASE ReplyFinish(js, bl)
  BY <1>1, <1>4 DEF ReplyFinish, Cleanup, Gone
<1>5. CASE ReplyUpdate(js, bl) \/ ReplyIdle(js, bl)
  BY <1>1, <1>5 DEF ReplyUpdate, ReplyIdle, Gone
<1>6. QED
  BY <1>2, <1>3, <1>4, <1>5 DEF DoReply

\* A step of the server other than INIT
Ordinary ==
    /\ \/ c2s' = c2s
       \/ c2s # <<>> /\ Head(c2s).cmd # "INIT" /\ c2s' = Tail(c2s) /\ ~Refused(Head(c2s))
    /\ sstate = "Creating" /\ c2s' = c2s => \/ sstate' \in {"Idle", "Dead"}
                                            \/ sstate' = sstate /\ s2c' = s2c
    /\ sstate # "Creating" => sstate' # "Creating"
    /\ sstate \in {"Idle", "Dead"} /\ c2s' = c2s => sstate' = sstate
    /\ Gone => Gone' /\ s2c' = s2c

\* doReply() with nothing taken from the connection
LEMMA DoReplyOrdinary ==
    ASSUME ServerTypes, NEW js, NEW bl, NEW typed \in BOOLEAN, NEW error, DoReply(js, bl, typed, error), c2s' = c2s
    PROVE  Ordinary
<1>1. /\ sstate = "Creating" => \/ sstate' \in {"Idle", "Dead"}
                                \/ sstate' = sstate /\ s2c' = s2c
      /\ sstate # "Creating" => sstate' = sstate \/ (sstate = "Executing" /\ sstate' = "Dead")
      /\ Gone => s2c' = s2c
  BY DoReplyState
<1>2. QED
  BY <1>1 DEF Ordinary, Gone

\* The steps of the server
LEMMA ServerSteps ==
    ASSUME Types, Server
    PROVE  HandleInit \/ Ordinary
<1>1. ServerTypes /\ hasType \in BOOLEAN /\ sstate \in {"None", "Creating", "Idle", "Executing", "Dead"}
  BY DEF Types, ServerTypes
<1>2. CASE HandleStart
  <2>1. /\ c2s # <<>> /\ Head(c2s).cmd \in {"START", "STOP"} /\ c2s' = Tail(c2s) /\ ~Refused(Head(c2s)) /\ s2c' = s2c
        /\ (Gone => sstate' = sstate) /\ (~Gone => sstate' \in {"Executing", "Idle"})
    BY <1>2 DEF HandleStart, ServerRecv
  <2>2. sstate # "Creating"
    BY <2>1 DEF Refused
  <2>3. CASE c2s' = c2s
    <3>1. c2s \in Seq(ToServer)
      BY DEF Types, WireTypes
    <3>2. FALSE
      BY <2>1, <2>3, <3>1
    <3>3. QED
      BY <3>2
  <2>4. QED
    BY <1>1, <2>1, <2>2, <2>3 DEF Ordinary, Gone
<1>3. CASE HandleAck
  <2>1. c2s # <<>> /\ Head(c2s).cmd = "ACK" /\ c2s' = Tail(c2s) /\ ~Refused(Head(c2s)) /\ s2c' = s2c /\ sstate' = sstate
    BY <1>3 DEF HandleAck, ServerRecv
  <2>2. QED
    BY <1>1, <2>1 DEF Ordinary, Gone
<1>4. CASE HandleDestroy
  <2>1. /\ c2s # <<>> /\ Head(c2s).cmd = "DESTROY" /\ c2s' = Tail(c2s) /\ ~Refused(Head(c2s)) /\ s2c' = s2c
        /\ (Gone => sstate' = sstate) /\ (~Gone => sstate' = "Dead")
    BY <1>4 DEF HandleDestroy, ServerRecv, Cleanup
  <2>2. c2s' # c2s
    <3>1. c2s \in Seq(ToServer)
      BY DEF Types, WireTypes
    <3>2. QED
      BY <2>1, <3>1
  <2>3. QED
    BY <1>1, <2>1, <2>2 DEF Ordinary, Gone
<1>5. CASE JobReply
  BY <1>1, <1>5, DoReplyOrdinary DEF JobReply
<1>6. CASE JobError
  <2>1. CASE ErrorApplies
    BY <1>1, <1>6, <2>1, DoReplyOrdinary DEF JobError
  <2>2. CASE ~ErrorApplies
    <3>1. UNCHANGED <<sstate, c2s, s2c>>
      BY <1>6, <2>2 DEF JobError
    <3>2. QED
      BY <1>1, <3>1 DEF Ordinary, Gone
  <2>3. QED
    BY <2>1, <2>2
<1>7. CASE JobHigh \/ BevWrite \/ BevWriteEnd \/ Congest \/ DropSetup \/ Post \/ TryPost \/ ForcePost \/ Finish
           \/ PushInitial
  <2>1. UNCHANGED <<sstate, c2s, s2c>>
    BY <1>7 DEF JobHigh, BevWrite, BevWriteEnd, Congest, DropSetup, Post, TryPost, ForcePost, DoPost, Finish,
                PushInitial, opvars
  <2>2. QED
    BY <1>1, <2>1 DEF Ordinary, Gone
<1>8. CASE BacklogStep
  BY <1>1, <1>8, DoReplyOrdinary DEF BacklogStep
<1>9. CASE Connect
  BY <1>1, <1>9, DoReplyOrdinary DEF Connect
<1>10. QED
  BY <1>2, <1>3, <1>4, <1>5, <1>6, <1>7, <1>8, <1>9
  DEF Server, ServerNext, ServerHandle, ServerJob, ServerWrite, ServerUser

\* The server's steps keep to the protocol.
LEMMA ServerProtocol ==
    ASSUME Types, Protocol, Server
    PROVE  Protocol'
<1>1. UNCHANGED <<cstate, link>> /\ c2s \in Seq(ToServer)
  BY DEF Server, cvars, Types, WireTypes
<1>2. cstate \in {"Connecting", "Creating", "Idle", "Running", "Done"}
  BY DEF Types, ClientTypes
<1>3. CASE HandleInit
  <2>1. c2s # <<>> /\ Head(c2s).cmd = "INIT" /\ c2s' = Tail(c2s) /\ s2c' = s2c /\ sstate' = "Creating"
    BY <1>3 DEF HandleInit, ServerRecv
  <2>2. ~Begun
    BY <1>1, <2>1, NoInits DEF Begun
  <2>3. InitSent /\ cstate \in {"Creating", "Done"}
    BY <1>2, <2>1, <2>2 DEF Protocol, InitHeld, Answered
  <2>4. Tail(c2s) = <<>>
    BY <2>3 DEF InitSent
  <2>5. InitHeld'
    BY <1>1, <2>1, <2>3, <2>4 DEF InitHeld, InitSent
  <2>6. QED
    BY <1>1, <2>3, <2>5 DEF Protocol, InitSent
<1>4. CASE Ordinary
  <2>1. ASSUME Begun PROVE Begun'
    <3>1. NoInit(c2s') /\ sstate' # "Creating"
      BY <1>1, <1>4, <2>1, NoInits DEF Begun, Ordinary
    <3>2. QED
      BY <3>1 DEF Begun, NoInit
  <2>2. ASSUME InitSent PROVE InitSent'
    BY <1>1, <1>4, <2>2 DEF InitSent, Ordinary
  <2>3. ASSUME InitHeld PROVE InitHeld' \/ Answered'
    BY <1>1, <1>4, <2>3 DEF InitHeld, Answered, Ordinary
  <2>4. ASSUME Answered PROVE Answered'
    BY <1>1, <1>4, <2>4 DEF Answered, Ordinary
  <2>5. Answered' => Begun'
    BY NoInits DEF Answered, Begun, NoInit
  <2>6. c2s = <<>> /\ s2c = <<>> /\ Gone => c2s' = <<>> /\ s2c' = <<>> /\ Gone'
    BY <1>4 DEF Ordinary
  <2>7. QED
    BY <1>1, <2>1, <2>2, <2>3, <2>4, <2>5, <2>6 DEF Protocol
<1>5. QED
  BY <1>3, <1>4, ServerSteps

\* The client's steps keep to the protocol.
LEMMA ClientProtocol ==
    ASSUME Types, Protocol, Joined, Client
    PROVE  Protocol'
<1>1. /\ UNCHANGED <<sstate, link>> /\ c2s \in Seq(ToServer) /\ link \in {"up", "down"}
      /\ cstate \in {"Connecting", "Creating", "Idle", "Running", "Done"}
  BY DEF Client, svars, opvars, Types, WireTypes, ClientTypes
<1>2. Gone' <=> Gone
  BY <1>1 DEF Gone
<1>3. NoInit(c2s)' <=> NoInit(c2s')
  BY DEF NoInit
<1>4. Answered => Begun
  BY NoInits DEF Answered, Begun
<1>5. CASE CreateOp
  <2>1. /\ cstate = "Connecting" /\ link = "up" /\ cstate' = "Creating" /\ s2c' = s2c
        /\ c2s' = Append(c2s, [cmd |-> "INIT", nack |-> QueueSize])
    BY <1>5 DEF CreateOp
  <2>2. c2s = <<>> /\ s2c = <<>> /\ Gone
    BY <2>1 DEF Protocol
  <2>3. InitSent'
    BY <1>1, <1>2, <2>1, <2>2 DEF InitSent
  <2>4. QED
    BY <1>1, <2>1, <2>3 DEF Protocol
<1>6. CASE HandleStale
  <2>1. s2c # <<>> /\ Stale /\ UNCHANGED <<cstate, c2s>> /\ link = "up"
    BY <1>6 DEF HandleStale, cvars
  <2>2. cstate # "Connecting" /\ cstate # "Creating" /\ ~InitSent /\ ~InitHeld
    BY <2>1 DEF Protocol, Stale, Joined, InitSent, InitHeld
  <2>3. Begun
    BY <1>1, <2>2 DEF Protocol
  <2>4. Begun'
    BY <1>1, <1>3, <2>1, <2>3 DEF Begun
  <2>5. QED
    BY <1>1, <2>1, <2>2, <2>4 DEF Protocol
<1>7. CASE HandleInitReply \/ HandleInitError
  <2>1. /\ cstate = "Creating" /\ cstate' \in {"Running", "Done"} /\ s2c # <<>> /\ link = "up"
        /\ c2s' \in {Append(c2s, [cmd |-> "START"]), Append(c2s, [cmd |-> "DESTROY"])}
    BY <1>7 DEF HandleInitReply, HandleInitError, ClientRecv
  <2>2. Begun
    BY <1>4, <2>1 DEF Protocol, InitSent, InitHeld
  <2>3. NoInit(c2s')
    <3>1. [cmd |-> "START"].cmd # "INIT" /\ [cmd |-> "DESTROY"].cmd # "INIT"
      OBVIOUS
    <3>2. QED
      BY <1>1, <2>1, <2>2, <3>1, NoInits, Messages DEF Begun
  <2>4. Begun'
    BY <1>1, <1>3, <2>2, <2>3 DEF Begun
  <2>5. QED
    BY <1>1, <2>1, <2>4 DEF Protocol
<1>8. CASE HandleUpdate \/ HandleFinish
  <2>1. cstate \in {"Idle", "Running"} /\ cstate' \in {cstate, "Done"} /\ c2s' = c2s /\ link = "up"
    BY <1>8 DEF HandleUpdate, HandleFinish, ClientRecv
  <2>2. Begun'
    BY <1>1, <1>3, <2>1 DEF Protocol, Begun
  <2>3. QED
    BY <1>1, <2>1, <2>2 DEF Protocol
<1>9. ASSUME cstate \in {"Idle", "Running"}, cstate' \in {"Idle", "Running", "Done"},
             NEW m \in ToServer, m.cmd # "INIT", c2s' = Append(c2s, m)
      PROVE  Protocol'
  <2>1. Begun /\ link = "up"
    BY <1>1, <1>9 DEF Protocol
  <2>2. NoInit(c2s')
    BY <1>1, <1>9, <2>1, NoInits DEF Begun
  <2>3. Begun'
    BY <1>1, <1>3, <2>1, <2>2 DEF Begun
  <2>4. QED
    BY <1>1, <1>9, <2>1, <2>3 DEF Protocol
<1>10. CASE Pause \/ Resume
  <2>1. /\ cstate \in {"Idle", "Running"} /\ cstate' \in {"Idle", "Running", "Done"}
        /\ c2s' \in {Append(c2s, [cmd |-> "START"]), Append(c2s, [cmd |-> "STOP"])}
    BY <1>10 DEF Pause, Resume, MayPause
  <2>2. PICK m \in ToServer : m.cmd # "INIT" /\ c2s' = Append(c2s, m)
    <3>1. [cmd |-> "START"].cmd # "INIT" /\ [cmd |-> "STOP"].cmd # "INIT"
      OBVIOUS
    <3>2. QED
      BY <2>1, <3>1, Messages
  <2>3. QED
    BY <1>9, <2>1, <2>2
<1>11. ASSUME UNCHANGED <<cstate, c2s, s2c>> PROVE Protocol'
  <2>1. (InitSent' <=> InitSent) /\ (InitHeld' <=> InitHeld) /\ (Answered' <=> Answered) /\ (Begun' <=> Begun)
    BY <1>1, <1>2, <1>3, <1>11 DEF InitSent, InitHeld, Answered, Begun
  <2>2. QED
    BY <1>1, <1>2, <1>11, <2>1 DEF Protocol
<1>12. CASE Cancel \/ Release
  <2>1. cstate' = "Done" /\ s2c' = s2c
    BY <1>12 DEF Cancel, Release, CancelEffect
  <2>2. CASE cstate \in {"Idle", "Running"}
    <3>1. c2s' = Append(c2s, [cmd |-> "DESTROY"]) /\ [cmd |-> "DESTROY"].cmd # "INIT"
      BY <1>12, <2>2 DEF Cancel, Release, CancelEffect
    <3>2. QED
      BY <1>9, <2>1, <2>2, <3>1, Messages
  <2>3. CASE cstate \notin {"Idle", "Running"}
    <3>1. c2s' = c2s
      BY <1>12, <2>3 DEF Cancel, Release, CancelEffect
    <3>2. InitSent \/ InitHeld \/ Begun
      <4>1. c2s = <<>> /\ Gone => Begun
        BY NoInits DEF Begun, Gone
      <4>2. QED
        BY <1>1, <1>4, <2>3, <4>1 DEF Protocol
    <3>3. (InitSent' <=> InitSent) /\ (InitHeld' <=> InitHeld) /\ (Begun' <=> Begun)
      BY <1>1, <1>2, <1>3, <2>1, <3>1 DEF InitSent, InitHeld, Begun
    <3>4. link = "down" => c2s' = <<>> /\ s2c' = <<>> /\ Gone'
      BY <1>2, <2>1, <3>1 DEF Protocol
    <3>5. QED
      BY <1>1, <2>1, <3>2, <3>3, <3>4 DEF Protocol
  <2>4. QED
    BY <2>2, <2>3
<1>13. CASE Pop \/ PopEmpty
  BY <1>11, <1>13 DEF Pop, PopEmpty
<1>14. CASE TickAck
  <2>1. UNCHANGED <<cstate, s2c>>
    BY <1>14 DEF TickAck
  <2>2. CASE c2s' = c2s
    BY <1>11, <2>1, <2>2
  <2>3. CASE cstate \in {"Idle", "Running"} /\ c2s' = Append(c2s, [cmd |-> "ACK", nack |-> unack])
    <3>1. [cmd |-> "ACK", nack |-> unack] \in ToServer /\ [cmd |-> "ACK", nack |-> unack].cmd # "INIT"
      BY Messages DEF Types, ClientTypes
    <3>2. QED
      BY <1>9, <2>1, <2>3, <3>1
  <2>4. QED
    BY <1>14, <2>2, <2>3 DEF TickAck
<1>15. QED
  BY <1>5, <1>6, <1>7, <1>8, <1>10, <1>12, <1>13, <1>14
  DEF Client, ClientNext, ClientWorker, ClientUser

\* The two ends always keep to the protocol.
LEMMA ProtocolInvariant == Spec => []Protocol
<1>1. Init => Protocol
  BY DEF Init, InitOp, InitClient, Protocol, Gone
<1>2. Types /\ DeliveryInv /\ Protocol /\ [Next]_vars => Protocol'
  <2> SUFFICES ASSUME Types, Joined, Protocol, [Next]_vars PROVE Protocol'
    BY DEF DeliveryInv
  <2>1. CASE LoseLink \/ Fault
    <3>1. /\ c2s' = <<>> /\ s2c' = <<>> /\ link' = "down" /\ Gone'
          /\ cstate' = IF known /\ cstate \in {"Creating", "Idle", "Running"} THEN "Connecting" ELSE cstate
      BY <2>1 DEF LoseLink, Fault, Drop, ServerDisconnect, ClientDisconnect, Cleanup, Gone
    <3>2. cstate' \in {"Connecting", "Done"}
      BY <3>1 DEF Types, ClientTypes, Joined
    <3>3. Begun'
      BY <3>1 DEF Begun, NoInit, Gone
    <3>4. QED
      BY <3>1, <3>2, <3>3 DEF Protocol
  <2>2. CASE Reconnect
    <3>1. UNCHANGED <<cstate, c2s, s2c, sstate>> /\ link = "down" /\ link' = "up"
      BY <2>2 DEF Reconnect, svars, opvars, cvars
    <3>2. /\ c2s' = <<>> /\ s2c' = <<>> /\ Gone' /\ cstate' \in {"Connecting", "Done"}
      BY <3>1 DEF Protocol, Gone
    <3>3. Begun'
      BY <3>2 DEF Begun, NoInit, Gone
    <3>4. QED
      BY <3>1, <3>2, <3>3 DEF Protocol
  <2>3. CASE UNCHANGED vars
    <3>1. UNCHANGED <<cstate, c2s, s2c, sstate, link>>
      BY <2>3 DEF vars, svars, opvars, cvars
    <3>2. QED
      BY <3>1 DEF Protocol, InitSent, InitHeld, Answered, Begun, NoInit, Gone
  <2>4. QED
    BY <2>1, <2>2, <2>3, ServerProtocol, ClientProtocol DEF Next
<1>3. QED
  BY <1>1, <1>2, TypesInvariant, DeliveryInvariant, PTL DEF Spec

\* The server never takes a request for a violation of the protocol.
LEMMA ProtocolAccepted == Types /\ Protocol => RequestsAccepted
<1> SUFFICES ASSUME Types, Protocol, c2s # <<>> PROVE ~Refused(Head(c2s))
  BY DEF RequestsAccepted
<1>1. c2s \in Seq(ToServer) /\ cstate \in {"Connecting", "Creating", "Idle", "Running", "Done"}
  BY DEF Types, WireTypes, ClientTypes
<1>2. InitSent \/ Begun
  BY <1>1 DEF Protocol, InitHeld, Answered
<1>3. CASE InitSent
  BY <1>3 DEF InitSent, Refused, Gone
<1>4. CASE Begun
  BY <1>1, <1>4, NoInits DEF Begun, Refused
<1>5. QED
  BY <1>2, <1>3, <1>4

\* However pause(), resume(), acks., cancel() and lost connections interleave with
\* the answer to INIT, the client sends nothing which handle_MONITOR() of the
\* server takes for a violation of the protocol.
THEOREM RequestsAlwaysAccepted == Spec => []RequestsAccepted
BY TypesInvariant, ProtocolInvariant, ProtocolAccepted, PTL

\* What ScheduledOnce says of the functions dispatched, the backlog and the flag
Booked(js, bl, sch) ==
    IF sch THEN (OneReply(js) /\ bl = 0) \/ (~HasReply(js) /\ bl = 1)
           ELSE ~HasReply(js) /\ bl = 0

\* No doReply() is dispatched or deferred before INIT is answered, and none is
\* deferred while INIT is on its way: there is nothing yet to fill the TX buffer.
Fresh == ~txFull /\ ~HasReply(jobs) /\ backlog = 0
Scheduling ==
    /\ sstate \in {"Idle", "Executing"} => Booked(jobs, backlog, scheduled)
    /\ sstate = "Creating" => Fresh
    /\ link = "down" \/ cstate = "Connecting" \/ InitSent => ~txFull

\* Dispatching and executing functions
LEMMA ReplyJobs ==
    /\ ~HasReply(<<>>)
    /\ \A js \in Seq(Jobs) :
          /\ ~HasReply(js) => OneReply(Append(js, "reply"))
          /\ \A j \in Jobs : j # "reply" => /\ ~HasReply(js) => ~HasReply(Append(js, j))
                                            /\ OneReply(js) => OneReply(Append(js, j))
          /\ js # <<>> => /\ ~HasReply(js) => ~HasReply(Tail(js)) /\ Head(js) # "reply"
                          /\ OneReply(js) /\ Head(js) = "reply" => ~HasReply(Tail(js))
                          /\ OneReply(js) /\ Head(js) # "reply" => OneReply(Tail(js))
          /\ OneReply(js) => HasReply(js)
<1>1. ~HasReply(<<>>)
  BY DEF HasReply
<1>2. ASSUME NEW js \in Seq(Jobs), NEW j \in Jobs
      PROVE  /\ ~HasReply(js) /\ j = "reply" => OneReply(Append(js, j))
             /\ j # "reply" => /\ ~HasReply(js) => ~HasReply(Append(js, j))
                               /\ OneReply(js) => OneReply(Append(js, j))
  <2> DEFINE a == Append(js, j)
  <2>1. /\ Len(js) \in Nat /\ Len(a) = Len(js) + 1 /\ a[Len(js) + 1] = j
        /\ \A i \in 1..Len(js) : a[i] = js[i]
    BY AppendProperties
  <2> HIDE DEF a
  <2>2. /\ \A i \in 1..Len(a) : i \in 1..Len(js) \/ i = Len(js) + 1
        /\ 1..Len(js) \subseteq 1..Len(a) /\ Len(js) + 1 \in 1..Len(a)
    BY <2>1
  <2>3. ~HasReply(js) /\ j = "reply" => OneReply(a)
    BY <2>1, <2>2 DEF HasReply, OneReply
  <2>4. j # "reply" /\ ~HasReply(js) => ~HasReply(a)
    BY <2>1, <2>2 DEF HasReply
  <2>5. j # "reply" /\ OneReply(js) => OneReply(a)
    BY <2>1, <2>2 DEF OneReply
  <2>6. QED
    BY <2>3, <2>4, <2>5 DEF a
<1>3. ASSUME NEW js \in Seq(Jobs), js # <<>>
      PROVE  /\ ~HasReply(js) => ~HasReply(Tail(js)) /\ Head(js) # "reply"
             /\ OneReply(js) /\ Head(js) = "reply" => ~HasReply(Tail(js))
             /\ OneReply(js) /\ Head(js) # "reply" => OneReply(Tail(js))
  <2> DEFINE t == Tail(js)
  <2>1. /\ Len(js) \in Nat \ {0} /\ Len(t) = Len(js) - 1 /\ Head(js) = js[1]
        /\ \A i \in 1..Len(t) : t[i] = js[i + 1]
    BY <1>3
  <2> HIDE DEF t
  <2>2. /\ \A i \in 1..Len(t) : i + 1 \in 1..Len(js) /\ i + 1 # 1
        /\ 1 \in 1..Len(js)
        /\ \A i \in 1..Len(js) : i = 1 \/ (i - 1 \in 1..Len(t) /\ (i - 1) + 1 = i)
        /\ \A i, k \in 1..Len(t) : i + 1 = k + 1 => i = k
    BY <2>1
  <2>3. ~HasReply(js) => ~HasReply(t) /\ Head(js) # "reply"
    BY <2>1, <2>2 DEF HasReply
  <2>4. ASSUME OneReply(js), Head(js) = "reply" PROVE ~HasReply(t)
    BY <2>1, <2>2, <2>4 DEF OneReply, HasReply
  <2>5. ASSUME OneReply(js), Head(js) # "reply" PROVE OneReply(t)
    <3>1. PICK i \in 1..Len(js) : js[i] = "reply" /\ \A k \in 1..Len(js) : js[k] = "reply" => k = i
      BY <2>5 DEF OneReply
    <3>2. i - 1 \in 1..Len(t) /\ (i - 1) + 1 = i
      BY <2>1, <2>2, <2>5, <3>1
    <3>3. t[i - 1] = "reply"
      BY <2>1, <3>1, <3>2
    <3>4. \A k \in 1..Len(t) : t[k] = "reply" => k + 1 = i
      BY <2>1, <2>2, <3>1
    <3>5. \A k \in 1..Len(t) : k + 1 = i => k = i - 1
      BY <3>2
    <3>6. QED
      BY <3>2, <3>3, <3>4, <3>5 DEF OneReply
  <2>6. QED
    BY <2>3, <2>4, <2>5 DEF t
<1>4. ASSUME NEW js \in Seq(Jobs) PROVE OneReply(js) => HasReply(js)
  BY DEF OneReply, HasReply
<1>5. "reply" \in Jobs
  BY DEF Jobs
<1>6. QED
  BY <1>1, <1>2, <1>3, <1>4, <1>5

\* MonitorOp::maybeReply()
LEMMA MaybeReplyBooked ==
    ASSUME NEW js \in Seq(Jobs), scheduled \in BOOLEAN, NEW state, NEW q, MaybeReply(js, state, q)
    PROVE  /\ Booked(js, backlog, scheduled) => Booked(jobs', backlog, scheduled')
           /\ state # "Executing" => jobs' = js
<1>1. CASE jobs' = js /\ scheduled' = scheduled
  BY <1>1
<1>2. CASE ~scheduled /\ state = "Executing" /\ jobs' = Append(js, "reply") /\ scheduled' = TRUE
  BY <1>2, ReplyJobs DEF Booked
<1>3. QED
  BY <1>1, <1>2, Zenon DEF MaybeReply

\* MonitorOp::doReply() with no other one dispatched or deferred
LEMMA DoReplyBooked ==
    ASSUME ServerTypes, NEW js \in Seq(Jobs), NEW bl \in Nat, NEW typed \in BOOLEAN, NEW error \in BOOLEAN,
           DoReply(js, bl, typed, error)
    PROVE  /\ ~HasReply(js) /\ bl = 0 /\ sstate # "Dead" => Booked(jobs', backlog', scheduled')
           /\ sstate = "Creating" /\ ~txFull => sstate' # "Creating"
           /\ Gone => txFull' = txFull
<1>1. sstate \in {"None", "Creating", "Idle", "Executing", "Dead"}
  BY DEF ServerTypes
<1>2. CASE sstate = "Dead" /\ ReplyDead(js, bl)
  BY <1>2 DEF ReplyDead
<1>3. CASE txFull /\ ReplyDeferred(js, bl)
  BY <1>3 DEF ReplyDeferred, Booked
<1>4. CASE ReplyInit(js, bl, typed, error)
  BY <1>1, <1>4 DEF ReplyInit, Cleanup, Booked, Gone
<1>5. CASE ReplyNothing(js, bl)
  BY <1>5 DEF ReplyNothing, Booked, Gone
<1>6. CASE ReplyFinish(js, bl)
  BY <1>6 DEF ReplyFinish, Cleanup, Booked, Gone
<1>7. CASE ReplyUpdate(js, bl)
  <2>1. sstate = "Executing" /\ backlog' = bl
    BY <1>7 DEF ReplyUpdate
  <2>2. PICK a \in BOOLEAN : (scheduled' <=> a) /\ jobs' = IF a THEN Append(js, "reply") ELSE js
    BY <1>7 DEF ReplyUpdate, Again
  <2>3. ~HasReply(js) /\ bl = 0 => Booked(jobs', backlog', scheduled')
    BY <2>1, <2>2, ReplyJobs DEF Booked
  <2>4. QED
    BY <2>1, <2>3 DEF Gone
<1>8. CASE ReplyIdle(js, bl)
  BY <1>8 DEF ReplyIdle, Booked, Gone
<1>9. QED
  BY <1>2, <1>3, <1>4, <1>5, <1>6, <1>7, <1>8 DEF DoReply

\* INIT at the front of what is on its way to the server is alone.
LEMMA InitAlone ==
    ASSUME Types, Protocol, c2s # <<>>
    PROVE  /\ Head(c2s).cmd = "INIT" => InitSent
           /\ Head(c2s).cmd # "INIT" => NoInit(c2s)
<1>1. c2s \in Seq(ToServer) /\ cstate \in {"Connecting", "Creating", "Idle", "Running", "Done"}
  BY DEF Types, WireTypes, ClientTypes
<1>2. InitSent \/ Begun
  BY <1>1 DEF Protocol, InitHeld, Answered
<1>3. InitSent => Head(c2s).cmd = "INIT"
  BY DEF InitSent
<1>4. QED
  BY <1>1, <1>2, <1>3, NoInits DEF Begun

\* Once INIT is gone from there, it comes back with createOp() only.
LEMMA InitStays ==
    ASSUME Types, Types', Protocol, InitSent',
           \/ c2s' = c2s
           \/ c2s # <<>> /\ Head(c2s).cmd # "INIT" /\ c2s' = Tail(c2s)
           \/ \E m \in ToServer : m.cmd # "INIT" /\ c2s' = Append(c2s, m)
    PROVE  InitSent
<1>1. c2s \in Seq(ToServer) /\ c2s' = <<[cmd |-> "INIT", nack |-> QueueSize]>>
  BY DEF Types, WireTypes, InitSent
<1>2. c2s' # <<>> /\ Head(c2s').cmd = "INIT" /\ Len(c2s') = 1 /\ c2s'[1].cmd = "INIT"
  BY <1>1
<1>3. CASE c2s' = c2s
  BY <1>2, <1>3, InitAlone
<1>4. CASE c2s # <<>> /\ Head(c2s).cmd # "INIT" /\ c2s' = Tail(c2s)
  <2>1. NoInit(Tail(c2s))
    BY <1>1, <1>4, InitAlone, NoInits
  <2>2. QED
    BY <1>2, <1>4, <2>1 DEF NoInit
<1>5. CASE \E m \in ToServer : m.cmd # "INIT" /\ c2s' = Append(c2s, m)
  <2>1. PICK m \in ToServer : m.cmd # "INIT" /\ c2s' = Append(c2s, m)
    BY <1>5
  <2>2. Len(c2s) \in Nat /\ Len(c2s') = Len(c2s) + 1 /\ c2s'[Len(c2s) + 1] = m
    BY <1>1, <2>1, AppendProperties
  <2>3. QED
    BY <1>2, <2>1, <2>2
<1>6. QED
  BY <1>3, <1>4, <1>5

\* The server's steps keep one doReply() at most.
LEMMA ServerScheduling ==
    ASSUME "Creating" \notin CongestStates, Types, Types', Protocol, Protocol', Scheduling, Server
    PROVE  Scheduling'
<1>1. /\ UNCHANGED <<cstate, link>> /\ ServerTypes /\ jobs \in Seq(Jobs) /\ backlog \in Nat /\ scheduled \in BOOLEAN
      /\ hasType \in BOOLEAN /\ msg \in BOOLEAN /\ sstate \in {"None", "Creating", "Idle", "Executing", "Dead"}
      /\ txFull \in BOOLEAN
  BY DEF Server, cvars, Types, ServerTypes
<1>2. CASE HandleInit
  <2>1. /\ c2s # <<>> /\ Head(c2s).cmd = "INIT" /\ sstate' = "Creating" /\ jobs' = <<>> /\ backlog' = 0
        /\ txFull' = txFull
    BY <1>2 DEF HandleInit, ServerRecv
  <2>2. InitSent
    BY <2>1, InitAlone
  <2>3. ~txFull
    BY <2>2 DEF Scheduling
  <2>4. ~HasReply(jobs')
    BY <2>1, ReplyJobs
  <2>5. Fresh'
    BY <2>1, <2>3, <2>4 DEF Fresh, HasReply
  <2>6. QED
    BY <2>1, <2>3, <2>5 DEF Scheduling
<1>3. ASSUME Ordinary, sstate' \in {"Idle", "Executing"} => Booked(jobs', backlog', scheduled'),
             sstate' = "Creating" => ~txFull' /\ ~HasReply(jobs') /\ backlog' = 0,
             Gone => (txFull' => txFull)
      PROVE  Scheduling'
  <2>1. (sstate' \in {"Idle", "Executing"} => Booked(jobs, backlog, scheduled)') /\ (sstate' = "Creating" => Fresh')
    BY <1>3 DEF Booked, Fresh, OneReply, HasReply
  <2>2. InitSent' => InitSent
    BY <1>3, InitStays DEF Ordinary
  <2>3. link = "down" \/ cstate = "Connecting" \/ InitSent => Gone /\ ~txFull
    BY DEF Scheduling, Protocol, InitSent
  <2>4. QED
    BY <1>1, <1>3, <2>1, <2>2, <2>3 DEF Scheduling
<1>4. ASSUME Ordinary, UNCHANGED <<sstate, jobs, backlog, scheduled>>, txFull' => txFull
      PROVE  Scheduling'
  BY <1>3, <1>4 DEF Scheduling, Fresh
<1>5. ASSUME Ordinary, sstate' = sstate, backlog' = backlog, txFull' = txFull, NEW js \in Seq(Jobs),
             \/ js = jobs
             \/ \E j \in Jobs : j # "reply" /\ js = Append(jobs, j)
             \/ jobs # <<>> /\ Head(jobs) # "reply" /\ js = Tail(jobs),
             \/ jobs' = js /\ scheduled' = scheduled
             \/ \E q : MaybeReply(js, sstate, q)
      PROVE  Scheduling'
  <2>1. /\ ~HasReply(jobs) => ~HasReply(js)
        /\ OneReply(jobs) => OneReply(js)
    BY <1>1, <1>5, ReplyJobs
  <2>2. Booked(jobs, backlog, scheduled) => Booked(js, backlog, scheduled)
    BY <2>1 DEF Booked
  <2>3. /\ Booked(js, backlog, scheduled) => Booked(jobs', backlog, scheduled')
        /\ sstate = "Creating" => jobs' = js
    <3>1. CASE jobs' = js /\ scheduled' = scheduled
      BY <3>1
    <3>2. CASE \E q : MaybeReply(js, sstate, q)
      BY <1>1, <3>2, MaybeReplyBooked
    <3>3. QED
      BY <1>5, <3>1, <3>2
  <2>4. QED
    BY <1>3, <1>5, <2>1, <2>2, <2>3 DEF Scheduling, Fresh
<1>6. ASSUME Ordinary, NEW js \in Seq(Jobs), NEW bl \in Nat, NEW typed \in BOOLEAN, NEW error \in BOOLEAN,
             DoReply(js, bl, typed, error),
             sstate \in {"Creating", "Idle", "Executing"} => ~HasReply(js) /\ bl = 0
      PROVE  Scheduling'
  <2>1. /\ ~HasReply(js) /\ bl = 0 /\ sstate # "Dead" => Booked(jobs', backlog', scheduled')
        /\ sstate = "Creating" /\ ~txFull => sstate' # "Creating"
        /\ Gone => txFull' = txFull
    BY <1>1, <1>6, DoReplyBooked
  <2>2. sstate' # "Creating"
    BY <1>6, <2>1 DEF Ordinary, Scheduling, Fresh
  <2>3. sstate' \in {"Idle", "Executing"} => sstate \in {"Creating", "Idle", "Executing"}
    BY <1>1, <1>6 DEF Ordinary, Gone
  <2>4. QED
    BY <1>3, <1>6, <2>1, <2>2, <2>3
<1>7. CASE Ordinary /\ HandleStart
  <2>1. c2s # <<>> /\ Head(c2s).cmd \in {"START", "STOP"} /\ ~Refused(Head(c2s)) /\ UNCHANGED <<backlog, txFull>>
    BY <1>7 DEF HandleStart, ServerRecv
  <2>2. sstate # "Creating"
    BY <2>1 DEF Refused
  <2>3. CASE Gone
    <3>1. UNCHANGED <<sstate, jobs, scheduled>>
      BY <1>7, <2>3 DEF HandleStart
    <3>2. QED
      BY <1>4, <1>7, <2>1, <3>1
  <2>4. CASE ~Gone
    <3>1. sstate' \in {"Executing", "Idle"} /\ MaybeReply(jobs, sstate', squeue)
      BY <1>7, <2>4 DEF HandleStart
    <3>2. Booked(jobs, backlog, scheduled)
      BY <1>1, <2>2, <2>4 DEF Scheduling, Gone
    <3>3. Booked(jobs', backlog, scheduled')
      BY <1>1, <3>1, <3>2, MaybeReplyBooked
    <3>4. QED
      BY <1>3, <1>7, <2>1, <2>4, <3>1, <3>3
  <2>5. QED
    BY <2>3, <2>4
<1>8. CASE Ordinary /\ HandleAck
  <2>1. UNCHANGED <<sstate, backlog, txFull, scheduled>> /\ jobs' \in {jobs, Append(jobs, "high")}
    BY <1>8 DEF HandleAck
  <2>2. "high" \in Jobs /\ jobs' \in Seq(Jobs)
    BY <1>1, <2>1 DEF Jobs
  <2>3. QED
    BY <1>5, <1>8, <2>1, <2>2
<1>9. CASE Ordinary /\ HandleDestroy
  <2>1. UNCHANGED <<jobs, backlog, scheduled, txFull>> /\ (sstate' = sstate \/ sstate' = "Dead")
    BY <1>9 DEF HandleDestroy, loopvars, Cleanup
  <2>2. QED
    BY <1>3, <1>4, <1>9, <2>1
<1>10. CASE Ordinary /\ JobReply
  <2>1. jobs # <<>> /\ Head(jobs) = "reply" /\ DoReply(Tail(jobs), backlog, hasType, msg)
    BY <1>10 DEF JobReply, NextJob
  <2>2. HasReply(jobs) /\ Tail(jobs) \in Seq(Jobs)
    BY <1>1, <2>1, ReplyJobs
  <2>3. sstate \in {"Creating", "Idle", "Executing"} => ~HasReply(Tail(jobs)) /\ backlog = 0
    BY <1>1, <2>1, <2>2, ReplyJobs DEF Scheduling, Fresh, Booked
  <2>4. QED
    BY <1>1, <1>6, <1>10, <2>1, <2>2, <2>3
<1>11. CASE Ordinary /\ JobError
  <2>1. jobs # <<>> /\ Head(jobs) # "reply" /\ Tail(jobs) \in Seq(Jobs)
    BY <1>1, <1>11 DEF JobError, NextJob
  <2>2. CASE ErrorApplies
    <3>1. DoReply(Tail(jobs), backlog, hasType, TRUE) /\ sstate = "Creating"
      BY <1>11, <2>2 DEF JobError, ErrorApplies
    <3>2. ~HasReply(Tail(jobs)) /\ backlog = 0
      BY <1>1, <2>1, <3>1, ReplyJobs DEF Scheduling, Fresh
    <3>3. QED
      BY <1>1, <1>6, <1>11, <2>1, <3>1, <3>2
  <2>3. CASE ~ErrorApplies
    <3>1. jobs' = Tail(jobs) /\ UNCHANGED <<sstate, scheduled, backlog, txFull>>
      BY <1>11, <2>3 DEF JobError
    <3>2. QED
      BY <1>5, <1>11, <2>1, <3>1
  <2>4. QED
    BY <2>2, <2>3
<1>12. CASE Ordinary /\ JobHigh
  <2>1. /\ jobs # <<>> /\ Head(jobs) # "reply" /\ Tail(jobs) \in Seq(Jobs) /\ UNCHANGED <<sstate, backlog, txFull>>
        /\ (jobs' = Tail(jobs) /\ scheduled' = scheduled) \/ Push(Tail(jobs))
    BY <1>1, <1>12 DEF JobHigh, NextJob
  <2>2. Push(Tail(jobs)) => \E q : MaybeReply(Tail(jobs), sstate, q)
    BY DEF Push
  <2>3. QED
    BY <1>5, <1>12, <2>1, <2>2
<1>13. CASE Ordinary /\ (BevWrite \/ BevWriteEnd)
  <2>1. UNCHANGED <<sstate, jobs, backlog, scheduled>> /\ (txFull' => txFull)
    BY <1>13 DEF BevWrite, BevWriteEnd, opvars
  <2>2. QED
    BY <1>4, <1>13, <2>1
<1>14. CASE Ordinary /\ Congest
  <2>1. UNCHANGED <<sstate, jobs, backlog, scheduled>> /\ sstate \in CongestStates
    BY <1>14 DEF Congest, opvars
  <2>2. sstate # "Creating" /\ ~Gone
    BY <2>1, FlagAssumption DEF Gone
  <2>3. QED
    BY <1>3, <1>14, <2>1, <2>2 DEF Scheduling
<1>15. CASE Ordinary /\ BacklogStep
  <2>1. backlog > 0 /\ backlog - 1 \in Nat /\ DoReply(jobs, backlog - 1, hasType, msg)
    BY <1>1, <1>15 DEF BacklogStep, MayDrain
  <2>2. sstate \in {"Creating", "Idle", "Executing"} => ~HasReply(jobs) /\ backlog - 1 = 0
    BY <1>1, <2>1 DEF Scheduling, Fresh, Booked
  <2>3. QED
    BY <1>1, <1>6, <1>15, <2>1, <2>2
<1>16. CASE Ordinary /\ Connect
  <2>1. DoReply(jobs, backlog, TRUE, msg) /\ sstate = "Creating"
    BY <1>16 DEF Connect
  <2>2. ~HasReply(jobs) /\ backlog = 0
    BY <2>1 DEF Scheduling, Fresh
  <2>3. QED
    BY <1>1, <1>6, <1>16, <2>1, <2>2
<1>17. CASE Ordinary /\ DropSetup
  <2>1. UNCHANGED <<sstate, backlog, txFull, scheduled>> /\ jobs' = Append(jobs, "error")
    BY <1>17 DEF DropSetup
  <2>2. "error" \in Jobs /\ "error" # "reply" /\ jobs' \in Seq(Jobs)
    BY <1>1, <2>1 DEF Jobs
  <2>3. QED
    BY <1>5, <1>17, <2>1, <2>2
<1>18. CASE Ordinary /\ (Post \/ TryPost \/ ForcePost \/ Finish \/ PushInitial)
  <2>1. UNCHANGED <<sstate, backlog, txFull>> /\ \E q : MaybeReply(jobs, sstate, q)
    BY <1>18 DEF Post, TryPost, ForcePost, DoPost, Finish, PushInitial, Push
  <2>2. QED
    BY <1>1, <1>5, <1>18, <2>1
<1>19. QED
  <2>1. HandleInit \/ Ordinary
    BY ServerSteps
  <2>2. QED
    BY <1>2, <1>7, <1>8, <1>9, <1>10, <1>11, <1>12, <1>13, <1>14, <1>15, <1>16, <1>17, <1>18, <2>1
    DEF Server, ServerNext, ServerHandle, ServerJob, ServerWrite, ServerUser

\* The client's steps do not change it.
LEMMA ClientScheduling ==
    ASSUME Types, Types', Protocol, Scheduling, Client
    PROVE  Scheduling'
<1>1. UNCHANGED <<sstate, jobs, backlog, scheduled, txFull, link>>
  BY DEF Client, svars, opvars, loopvars
<1>2. /\ Booked(jobs, backlog, scheduled)' <=> Booked(jobs, backlog, scheduled)
      /\ Fresh' <=> Fresh
  BY <1>1 DEF Booked, Fresh, OneReply, HasReply
<1>3. /\ cstate' = "Connecting" => cstate = "Connecting"
      /\ \/ cstate = "Connecting"
         \/ c2s' = c2s
         \/ \E m \in ToServer : m.cmd # "INIT" /\ c2s' = Append(c2s, m)
  <2>1. CASE CreateOp
    BY <2>1 DEF CreateOp
  <2>2. CASE HandleStale \/ HandleUpdate \/ HandleFinish \/ Pop \/ PopEmpty
    BY <2>2 DEF HandleStale, HandleUpdate, HandleFinish, Pop, PopEmpty, cvars
  <2>3. CASE HandleInitReply \/ HandleInitError \/ Pause \/ Resume \/ Cancel \/ Release
    <3>1. /\ cstate' # "Connecting"
          /\ c2s' \in {c2s, Append(c2s, [cmd |-> "START"]), Append(c2s, [cmd |-> "STOP"]),
                       Append(c2s, [cmd |-> "DESTROY"])}
      BY <2>3 DEF HandleInitReply, HandleInitError, Pause, Resume, Cancel, Release, CancelEffect
    <3>2. \A x \in {"START", "STOP", "DESTROY"} : [cmd |-> x] \in ToServer /\ [cmd |-> x].cmd # "INIT"
      BY Messages
    <3>3. QED
      BY <3>1, <3>2
  <2>4. CASE TickAck
    <3>1. UNCHANGED cstate /\ c2s' \in {c2s, Append(c2s, [cmd |-> "ACK", nack |-> unack])}
      BY <2>4 DEF TickAck
    <3>2. [cmd |-> "ACK", nack |-> unack] \in ToServer /\ [cmd |-> "ACK", nack |-> unack].cmd # "INIT"
      BY Messages DEF Types, ClientTypes
    <3>3. QED
      BY <3>1, <3>2
  <2>5. QED
    BY <2>1, <2>2, <2>3, <2>4 DEF Client, ClientNext, ClientWorker, ClientUser
<1>4. InitSent' => InitSent \/ cstate = "Connecting"
  BY <1>3, InitStays
<1>5. QED
  BY <1>1, <1>2, <1>3, <1>4 DEF Scheduling

\* One doReply() at most, as long as the TX buffer does not fill up before INIT
\* is answered
LEMMA SchedulingInvariant ==
    ASSUME "Creating" \notin CongestStates
    PROVE  Spec => []Scheduling
<1>1. Init => Scheduling
  BY ReplyJobs DEF Init, InitOp, InitClient, Scheduling
<1>2. Types /\ Types' /\ Protocol /\ Protocol' /\ Scheduling /\ [Next]_vars => Scheduling'
  <2> SUFFICES ASSUME Types, Types', Protocol, Protocol', Scheduling, [Next]_vars PROVE Scheduling'
    OBVIOUS
  <2>1. CASE LoseLink \/ Fault
    <3>1. txFull' = FALSE /\ Gone'
      BY <2>1 DEF LoseLink, Fault, Drop, ServerDisconnect, Cleanup, Gone
    <3>2. QED
      BY <3>1 DEF Scheduling, Gone
  <2>2. CASE Reconnect
    <3>1. UNCHANGED <<sstate, jobs, backlog, scheduled, txFull>> /\ link = "down"
      BY <2>2 DEF Reconnect, svars, opvars, loopvars
    <3>2. ~txFull' /\ Gone'
      BY <3>1 DEF Scheduling, Protocol, Gone
    <3>3. QED
      BY <3>2 DEF Scheduling, Gone
  <2>3. CASE UNCHANGED vars
    <3>1. UNCHANGED <<sstate, jobs, backlog, scheduled, txFull, link, cstate, c2s, s2c>>
      BY <2>3 DEF vars, svars, opvars, loopvars, cvars
    <3>2. QED
      BY <3>1 DEF Scheduling, Booked, Fresh, OneReply, HasReply, InitSent, Gone
  <2>4. QED
    BY <2>1, <2>2, <2>3, ServerScheduling, ClientScheduling DEF Next
<1>3. QED
  BY <1>1, <1>2, TypesInvariant, ProtocolInvariant, PTL DEF Spec

\* The server's own checks never fail, as long as the TX buffer does not fill up
\* before INIT is answered: doReply() never finds another one of the same
\* subscription dispatched or deferred, and handle_MONITOR() refuses no request.
THEOREM ChecksAlwaysHold ==
    ASSUME "Creating" \notin CongestStates
    PROVE  Spec => []ServerChecksHold
<1>1. Types /\ Protocol /\ Scheduling => ServerChecksHold
  BY ProtocolAccepted DEF ServerChecksHold, ScheduledOnce, Scheduling, Booked
<1>2. QED
  BY <1>1, TypesInvariant, ProtocolInvariant, SchedulingInvariant, PTL
=============================================================================
