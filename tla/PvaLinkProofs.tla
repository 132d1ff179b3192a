--------------------------- MODULE PvaLinkProofs ---------------------------
(***************************************************************************)
(* Database links: records of atomic links are at the same update, and     *)
(* deferred values arrive with the value written after them, for any       *)
(* links, records, and number of updates, losses and puts.                 *)
(***************************************************************************)
EXTENDS PvaLink, SequenceTheorems, TLAPS

Inputs == Of("INLINK")
Sevrs == {0, 3} \cup {Severity[v] : v \in Int}
Record == [val : Int, sevr : Sevrs, pact : BOOLEAN, rpro : BOOLEAN]

InTypes ==
  /\ rval \in Int /\ root \in Int /\ connected \in BOOLEAN
  /\ mon \in [open : BOOLEAN, q : Seq(Int), needNotify : BOOLEAN]
  /\ rec \in [Inputs -> Record]
  /\ links \subseteq DOMAIN Type /\ AtStart \subseteq links

\* the worker's lists: those of the present links, or older ones
Lists ==
  /\ atomic_records \subseteq Inputs /\ nonatomic_records \subseteq Inputs
  /\ \A l \in nonatomic_records : ~Config[l].atomic
  /\ pc = "atomic" => todo \subseteq atomic_records
  /\ pc = "nonatomic" => todo \subseteq nonatomic_records
  /\ Together \subseteq atomic_records \/ (links_changed /\ pc \in {"idle", "exited"})

\* nobody but the worker processes a record of an atomic link
Undisturbed == \A l \in Together : rec[l].pact = FALSE /\ l \notin once

\* Every record holds the update which the channel has; while the worker goes
\* through them those yet to come are locked, or all hold the one before.
Updated ==
  /\ pc # "atomic" => \A l \in Together : Holds(l, root, connected)
  /\ pc = "atomic" =>
       /\ \A l \in Together \ todo : Holds(l, root, connected)
       /\ ~connected => \A l \in Together : rec[l].val = root
       /\ \/ locked = atomic_records
          \/ \E v \in Int, valid \in BOOLEAN : \A l \in Together : Holds(l, v, valid)

AtomicInv == InTypes /\ Lists /\ Undisturbed /\ Updated
----------------------------------------------------------------------------
EndLink == WriteSeq[Len(WriteSeq)]

\* Where a value written may be, in order: received by the PV, in a put on its
\* way, to be put next, and deferred.
PlacesOf(g, n, p, s) ==
  [i \in 0..(Len(n) + 2) |->
     [l \in Outs |->
        IF i = 0 THEN g[l]
        ELSE IF i =< Len(n) THEN (IF l \in DOMAIN n[i][2] THEN n[i][2][l] ELSE None)
        ELSE IF i = Len(n) + 1 THEN p[l] ELSE s[l]]]

\* The places 0..n hold what runs up to h of the chain have written, the last
\* one up to its k-th record.
PlaceType(P, n, h) ==
  /\ P \in [0..n -> [Outs -> Int]]
  /\ \A i \in 0..n, l \in Outs : None =< P[i][l] /\ P[i][l] =< h
\* what is written later comes later
InOrder(P, n) ==
  \A i, j \in 0..n, l \in Outs : i < j /\ P[i][l] # None /\ P[j][l] # None => P[i][l] =< P[j][l]
\* the last link's value comes with those of the others, if later than the cut at c
Covered(P, n, c) ==
  \A i \in 0..n, l \in Outs : P[i][EndLink] > c => \E j \in 0..i : P[j][l] >= P[i][EndLink]
\* the records before the k-th have written
Written(P, n, c, h, k) ==
  h > c => \A m \in 1..(k - 1) : \E j \in 0..n : P[j][WriteSeq[m]] >= h
Flow(P, n, c, h, k) == PlaceType(P, n, h) /\ InOrder(P, n) /\ Covered(P, n, c) /\ Written(P, n, c, h, k)

\* got, net, pend and scratch
Shape(g, n, p, s) ==
  /\ g \in [Outs -> Nat] /\ p \in [Outs -> Nat \cup {None}] /\ s \in [Outs -> Nat \cup {None}]
  /\ \E S : n \in Seq(S)
  /\ \A i \in 1..Len(n) : n[i][2] \in [DOMAIN n[i][2] -> Nat] /\ DOMAIN n[i][2] \subseteq Outs
FlowOf(g, n, p, s, c, h, k) == Flow(PlacesOf(g, n, p, s), Len(n) + 2, c, h, k)

DeferInv ==
  /\ chain \in Nat /\ cut \in 0..chain /\ turn \in 1..Len(WriteSeq) \cup {1}
  /\ Shape(got, net, pend, scratch)
  /\ FlowOf(got, net, pend, scratch, cut, chain, turn)
  /\ after_put \subseteq pact /\ ~notActive
----------------------------------------------------------------------------
(* Values move on: lemmas about Flow.                                      *)

\* the last link is one of the output links
LEMMA EndIsOut ==
  ASSUME Outs # {}
  PROVE  Len(WriteSeq) \in Nat \ {0} /\ EndLink \in Outs
BY LinksAssumption DEF EndLink

\* the next record of the chain
LEMMA NextTurn ==
  ASSUME NEW n \in Nat \ {0}, NEW k \in 1..n
  PROVE  (k % n) + 1 = IF k = n THEN 1 ELSE k + 1
<1>1. CASE k = n
  <2>1. n % n = 0
    BY Z3
  <2>2. QED
    BY <1>1, <2>1
<1>2. CASE k # n
  <2>1. k \in 0..(n - 1) /\ k % n = k
    BY <1>2, Z3
  <2>2. QED
    BY <1>2, <2>1
<1>3. QED
  BY <1>1, <1>2

\* Places are joined, or new ones inserted: place i of P becomes place m[i] of
\* Q, and the latest value of those joined remains.
Rearranged(P, n, Q, k, m) ==
  /\ n \in Nat /\ k \in Nat
  /\ Q \in [0..k -> [Outs -> Int]] /\ m \in [0..n -> 0..k]
  /\ \A i, j \in 0..n : i =< j => m[i] =< m[j]
  /\ \A j \in 0..k, l \in Outs :
        Q[j][l] = None \/ \E i \in 0..n : m[i] = j /\ Q[j][l] = P[i][l]
  /\ \A i \in 0..n, l \in Outs : P[i][l] =< Q[m[i]][l]

\* What is known of the values on their way stays true when places are
\* joined or inserted, as when a put is sent off or arrives.
LEMMA Rearrange ==
  ASSUME NEW P, NEW Q, NEW n, NEW k, NEW m, NEW c \in Int, NEW h \in Nat, NEW t \in 1..Len(WriteSeq) \cup {1},
         Rearranged(P, n, Q, k, m), Flow(P, n, c, h, t), c >= None
  PROVE  Flow(Q, k, c, h, t)
<1> USE DEF None
<1>0. /\ n \in Nat /\ k \in Nat /\ m \in [0..n -> 0..k]
      /\ \A i, j \in 0..n : i =< j => m[i] =< m[j]
      /\ \A i \in 0..n, l \in Outs : P[i][l] =< Q[m[i]][l] /\ P[i][l] \in Int
      /\ \A i \in 0..k, l \in Outs : Q[i][l] \in Int
  <2>1. Q \in [0..k -> [Outs -> Int]] /\ P \in [0..n -> [Outs -> Int]]
    BY DEF Rearranged, Flow, PlaceType
  <2>2. QED
    BY <2>1 DEF Rearranged
<1>1. PlaceType(Q, k, h)
  <2>1. ASSUME NEW j \in 0..k, NEW l \in Outs PROVE None =< Q[j][l] /\ Q[j][l] =< h
    <3>1. CASE Q[j][l] = None
      BY <3>1
    <3>2. CASE Q[j][l] # None
      BY <3>2 DEF Rearranged, Flow, PlaceType
    <3>3. QED
      BY <3>1, <3>2
  <2>2. QED
    BY <2>1 DEF Rearranged, PlaceType
<1>2. InOrder(Q, k)
  <2>1. SUFFICES ASSUME NEW i \in 0..k, NEW j \in 0..k, NEW l \in Outs, i < j, Q[i][l] # None, Q[j][l] # None
                 PROVE  Q[i][l] =< Q[j][l]
    BY DEF InOrder
  <2>2. PICK a \in 0..n : m[a] = i /\ Q[i][l] = P[a][l]
    BY <2>1 DEF Rearranged
  <2>3. PICK b \in 0..n : m[b] = j /\ Q[j][l] = P[b][l]
    BY <2>1 DEF Rearranged
  <2>4. a < b
    BY <2>1, <2>2, <2>3 DEF Rearranged
  <2>5. QED
    BY <2>1, <2>2, <2>3, <2>4 DEF Flow, InOrder
<1>3. Covered(Q, k, c)
  <2>1. SUFFICES ASSUME NEW i \in 0..k, NEW l \in Outs, Q[i][EndLink] > c
                 PROVE  \E j \in 0..i : Q[j][l] >= Q[i][EndLink]
    BY DEF Covered
  <2>2. EndLink \in Outs
    BY EndIsOut
  <2>3. Q[i][EndLink] \in Int /\ Q[i][EndLink] # None
    BY <2>1, <2>2 DEF Rearranged
  <2>4. PICK a \in 0..n : m[a] = i /\ Q[i][EndLink] = P[a][EndLink]
    BY <2>2, <2>3 DEF Rearranged
  <2>5. PICK b \in 0..a : P[b][l] >= P[a][EndLink]
    BY <2>1, <2>4 DEF Flow, Covered
  <2>6. b \in 0..n /\ m[b] =< m[a] /\ m[b] \in 0..k
    BY <1>0, <2>4
  <2>7. P[b][l] =< Q[m[b]][l] /\ Q[m[b]][l] \in Int /\ P[b][l] \in Int
    BY <1>0, <2>6
  <2>8. Q[m[b]][l] >= Q[i][EndLink]
    BY <2>3, <2>4, <2>5, <2>7
  <2>9. QED
    BY <2>4, <2>6, <2>8
<1>4. Written(Q, k, c, h, t)
  <2>1. SUFFICES ASSUME h > c, NEW r \in 1..(t - 1) PROVE \E j \in 0..k : Q[j][WriteSeq[r]] >= h
    BY DEF Written
  <2>2. PICK a \in 0..n : P[a][WriteSeq[r]] >= h
    BY <2>1 DEF Flow, Written
  <2>3. WriteSeq[r] \in Outs
    BY <2>1, LinksAssumption
  <2>4. m[a] \in 0..k /\ P[a][WriteSeq[r]] =< Q[m[a]][WriteSeq[r]] /\ h \in Int
        /\ Q[m[a]][WriteSeq[r]] \in Int /\ P[a][WriteSeq[r]] \in Int
    BY <1>0, <2>3
  <2>5. QED
    BY <2>2, <2>4
<1>5. QED
  BY <1>1, <1>2, <1>3, <1>4 DEF Flow

\* The k-th record of the chain writes: run h if it is not the first one, and
\* the next run if it is.
Run(h, k) == IF k = 1 THEN h + 1 ELSE h
After(k) == (k % Len(WriteSeq)) + 1

\* a value v of link x in place n
Added(P, n, Q, x, v) ==
  /\ Q \in [0..n -> [Outs -> Int]]
  /\ \A i \in 0..n, l \in Outs : Q[i][l] = IF i = n /\ l = x THEN v ELSE P[i][l]

\* ... and when the record whose turn it is adds the next value to the
\* last place.
LEMMA WriteOne ==
  ASSUME NEW P, NEW Q, NEW n \in Nat, NEW c \in Int, NEW h \in Nat, NEW k \in 1..Len(WriteSeq), NEW x \in Outs,
         Flow(P, n, c, h, k), None =< c, WriteSeq[k] = x, Added(P, n, Q, x, Run(h, k))
  PROVE  Flow(Q, n, c, Run(h, k), After(k))
<1> DEFINE v == Run(h, k)
<1>1. v \in Nat /\ h =< v
  BY DEF Run
<1>2. Len(WriteSeq) \in Nat \ {0} /\ EndLink \in Outs
  BY EndIsOut
<1>3. \A i \in 0..n, l \in Outs :
         /\ P[i][l] \in Int /\ Q[i][l] \in Int /\ P[i][l] =< Q[i][l] /\ None =< P[i][l] /\ P[i][l] =< h
         /\ Q[i][l] = IF i = n /\ l = x THEN v ELSE P[i][l]
  <2>1. P \in [0..n -> [Outs -> Int]]
    BY DEF Flow, PlaceType
  <2>2. \A i \in 0..n, l \in Outs : None =< P[i][l] /\ P[i][l] =< h
    BY DEF Flow, PlaceType
  <2>3. ASSUME NEW i \in 0..n, NEW l \in Outs
        PROVE  P[i][l] \in Int /\ Q[i][l] \in Int /\ Q[i][l] = IF i = n /\ l = x THEN v ELSE P[i][l]
    BY <2>1 DEF Added
  <2>4. ASSUME NEW i \in 0..n, NEW l \in Outs PROVE P[i][l] =< Q[i][l]
    <3> HIDE DEF v
    <3>1. P[i][l] =< v /\ P[i][l] \in Int
      BY <1>1, <2>2, <2>3
    <3>2. QED
      BY <2>3, <3>1
  <2>5. QED
    BY <2>2, <2>3, <2>4
<1>4. n \in 0..n /\ Q[n][x] = v
  BY <1>3
<1>5. k = Len(WriteSeq) <=> x = EndLink
  <2>1. Len(WriteSeq) \in 1..Len(WriteSeq) /\ WriteSeq[Len(WriteSeq)] = EndLink
    BY <1>2 DEF EndLink
  <2>2. QED
    BY <2>1, LinksAssumption
<1>6. v > c => \A m \in 1..k : \E j \in 0..n : Q[j][WriteSeq[m]] >= v
  <2>1. SUFFICES ASSUME v > c, NEW m \in 1..k PROVE \E j \in 0..n : Q[j][WriteSeq[m]] >= v
    OBVIOUS
  <2>2. CASE m = k
    BY <1>1, <1>4, <2>2
  <2>3. CASE m # k
    <3>1. v = h /\ m \in 1..(k - 1)
      BY <2>3 DEF Run
    <3>2. m \in 1..Len(WriteSeq)
      BY <1>2
    <3>3. WriteSeq[m] \in Outs
      BY <3>2, LinksAssumption
    <3>4. PICK j \in 0..n : P[j][WriteSeq[m]] >= h
      BY <2>1, <3>1 DEF Flow, Written
    <3>5. /\ P[j][WriteSeq[m]] =< Q[j][WriteSeq[m]] /\ P[j][WriteSeq[m]] \in Int
          /\ Q[j][WriteSeq[m]] \in Int
      BY <1>3, <3>3
    <3>6. QED
      BY <3>1, <3>4, <3>5
  <2>4. QED
    BY <2>2, <2>3
<1> HIDE DEF v
<1>7. PlaceType(Q, n, v)
  <2>1. ASSUME NEW i \in 0..n, NEW l \in Outs PROVE None =< Q[i][l] /\ Q[i][l] =< v
    <3>1. None =< P[i][l] /\ P[i][l] =< h /\ P[i][l] \in Int /\ P[i][l] =< Q[i][l] /\ Q[i][l] \in Int
      BY <1>3
    <3>2. Q[i][l] = v \/ Q[i][l] = P[i][l]
      BY <1>3
    <3>3. QED
      BY <1>1, <3>1, <3>2 DEF None
  <2>2. QED
    BY <2>1 DEF PlaceType, Added
<1>8. InOrder(Q, n)
  <2>1. SUFFICES ASSUME NEW i \in 0..n, NEW j \in 0..n, NEW l \in Outs, i < j, Q[i][l] # None, Q[j][l] # None
                 PROVE  Q[i][l] =< Q[j][l]
    BY DEF InOrder
  <2>2. Q[i][l] = P[i][l]
    BY <1>3, <2>1
  <2>3. CASE j = n /\ l = x
    BY <1>1, <1>3, <2>2, <2>3
  <2>4. CASE ~(j = n /\ l = x)
    <3>1. Q[j][l] = P[j][l]
      BY <1>3, <2>4
    <3>2. QED
      BY <2>1, <2>2, <3>1 DEF Flow, InOrder
  <2>5. QED
    BY <2>3, <2>4
<1>9. Covered(Q, n, c)
  <2>1. SUFFICES ASSUME NEW i \in 0..n, NEW l \in Outs, Q[i][EndLink] > c
                 PROVE  \E j \in 0..i : Q[j][l] >= Q[i][EndLink]
    BY DEF Covered
  <2>2. CASE i = n /\ x = EndLink
    <3>1. Q[i][EndLink] = v /\ k = Len(WriteSeq)
      BY <1>4, <1>5, <2>2
    <3>2. PICK m \in 1..k : WriteSeq[m] = l
      BY <3>1, LinksAssumption
    <3>3. QED
      BY <1>6, <2>1, <2>2, <3>1, <3>2
  <2>3. CASE ~(i = n /\ x = EndLink)
    <3>1. Q[i][EndLink] = P[i][EndLink]
      BY <1>2, <1>3, <2>3
    <3>2. PICK j \in 0..i : P[j][l] >= P[i][EndLink]
      BY <2>1, <3>1 DEF Flow, Covered
    <3>3. j \in 0..n /\ P[j][l] =< Q[j][l] /\ P[j][l] \in Int /\ Q[j][l] \in Int /\ P[i][EndLink] \in Int
      BY <1>2, <1>3
    <3>4. QED
      BY <3>1, <3>2, <3>3
  <2>4. QED
    BY <2>2, <2>3
<1>10. Written(Q, n, c, v, After(k))
  <2>1. After(k) = IF k = Len(WriteSeq) THEN 1 ELSE k + 1
    BY <1>2, NextTurn DEF After
  <2>2. 1..(After(k) - 1) \subseteq 1..k
    BY <1>2, <2>1
  <2>3. QED
    BY <1>6, <2>2 DEF Written
<1>11. QED
  BY <1>7, <1>8, <1>9, <1>10 DEF Flow, v

\* place j of Q was place m[j] of P, and may have been emptied
Remaining(P, n, Q, k, m) ==
  /\ n \in Nat /\ k \in Nat /\ m \in [0..k -> 0..n] /\ Q \in [0..k -> [Outs -> Int]]
  /\ \A i, j \in 0..k : i < j => m[i] < m[j]
  /\ \A j \in 0..k, l \in Outs : Q[j][l] \in {None, P[m[j]][l]}

\* The connection is lost, or a link cannot write: some values are gone, and no
\* one counts on those up to h.
LEMMA CutOff ==
  ASSUME NEW P, NEW Q, NEW n, NEW k, NEW c, NEW t, NEW m, NEW h \in Nat, NEW h2 \in Nat, NEW t2, h =< h2,
         Flow(P, n, c, h, t), Remaining(P, n, Q, k, m)
  PROVE  Flow(Q, k, h2, h2, t2)
<1>0. /\ n \in Nat /\ k \in Nat /\ m \in [0..k -> 0..n] /\ Q \in [0..k -> [Outs -> Int]]
      /\ \A i, j \in 0..k : i < j => m[i] < m[j]
      /\ \A j \in 0..k, l \in Outs : Q[j][l] \in {None, P[m[j]][l]}
  BY DEF Remaining
<1>1. P \in [0..n -> [Outs -> Int]] /\ \A i \in 0..n, l \in Outs : None =< P[i][l] /\ P[i][l] =< h
  BY DEF Flow, PlaceType
<1>2. \A i \in 0..k, l \in Outs : Q[i][l] \in Int /\ None =< Q[i][l] /\ Q[i][l] =< h2
  <2>1. SUFFICES ASSUME NEW i \in 0..k, NEW l \in Outs PROVE Q[i][l] \in Int /\ None =< Q[i][l] /\ Q[i][l] =< h2
    OBVIOUS
  <2>2. m[i] \in 0..n /\ P[m[i]][l] \in Int /\ None =< P[m[i]][l] /\ P[m[i]][l] =< h /\ Q[i][l] \in {None, P[m[i]][l]}
    BY <1>0, <1>1
  <2>3. QED
    BY <2>2 DEF None
<1>3. PlaceType(Q, k, h2)
  BY <1>0, <1>2 DEF PlaceType
<1>4. InOrder(Q, k)
  <2>1. SUFFICES ASSUME NEW i \in 0..k, NEW j \in 0..k, NEW l \in Outs, i < j, Q[i][l] # None, Q[j][l] # None
                 PROVE  Q[i][l] =< Q[j][l]
    BY DEF InOrder
  <2>2. m[i] \in 0..n /\ m[j] \in 0..n /\ m[i] < m[j] /\ Q[i][l] = P[m[i]][l] /\ Q[j][l] = P[m[j]][l]
    BY <1>0, <2>1
  <2>3. QED
    BY <2>1, <2>2 DEF Flow, InOrder
<1>5. Covered(Q, k, h2)
  <2>1. SUFFICES ASSUME NEW i \in 0..k, NEW l \in Outs, Q[i][EndLink] > h2 PROVE FALSE
    BY DEF Covered
  <2>2. QED
    BY <1>0, <1>2, <2>1, EndIsOut
<1>6. Written(Q, k, h2, h2, t2)
  BY DEF Written
<1>7. QED
  BY <1>3, <1>4, <1>5, <1>6 DEF Flow

\* The places one by one
ArePlaces(P, g, n, p, s) ==
  /\ Len(n) \in Nat /\ P \in [0..(Len(n) + 2) -> [Outs -> Int]]
  /\ \A l \in Outs : /\ P[0][l] = g[l] /\ P[Len(n) + 1][l] = p[l] /\ P[Len(n) + 2][l] = s[l]
                     /\ g[l] \in Nat /\ p[l] \in Nat \cup {None} /\ s[l] \in Nat \cup {None}
  /\ \A i \in 1..Len(n), l \in Outs : P[i][l] = IF l \in DOMAIN n[i][2] THEN n[i][2][l] ELSE None

\* PlacesOf() has the places in their order: received, on the wire, to be
\* put, deferred.
LEMMA PlaceFacts ==
  ASSUME NEW g, NEW n, NEW p, NEW s, Shape(g, n, p, s)
  PROVE  ArePlaces(PlacesOf(g, n, p, s), g, n, p, s)
<1> DEFINE P == PlacesOf(g, n, p, s)
<1>1. Len(n) \in Nat
  BY DEF Shape
<1>2. ASSUME NEW i \in 0..(Len(n) + 2), NEW l \in Outs
      PROVE  /\ P[i][l] = IF i = 0 THEN g[l]
                          ELSE IF i =< Len(n) THEN (IF l \in DOMAIN n[i][2] THEN n[i][2][l] ELSE None)
                          ELSE IF i = Len(n) + 1 THEN p[l] ELSE s[l]
             /\ P[i][l] \in Int
  <2>1. P[i][l] = IF i = 0 THEN g[l]
                  ELSE IF i =< Len(n) THEN (IF l \in DOMAIN n[i][2] THEN n[i][2][l] ELSE None)
                  ELSE IF i = Len(n) + 1 THEN p[l] ELSE s[l]
    BY DEF PlacesOf
  <2>2. /\ g[l] \in Int /\ p[l] \in Int /\ s[l] \in Int /\ None \in Int
    BY DEF Shape, None
  <2>3. i \in 1..Len(n) /\ l \in DOMAIN n[i][2] => n[i][2][l] \in Int
    BY DEF Shape
  <2>4. QED
    BY <1>1, <2>1, <2>2, <2>3
<1>3. P \in [0..(Len(n) + 2) -> [Outs -> Int]]
  <2>1. \A i \in 0..(Len(n) + 2) : P[i] \in [Outs -> Int]
    <3>1. SUFFICES ASSUME NEW i \in 0..(Len(n) + 2) PROVE P[i] \in [Outs -> Int]
      OBVIOUS
    <3>2. P[i] = [l \in Outs |-> P[i][l]]
      BY DEF PlacesOf
    <3>3. QED
      BY <1>2, <3>2
  <2>2. P = [i \in 0..(Len(n) + 2) |-> P[i]]
    BY DEF PlacesOf
  <2>3. QED
    BY <2>1, <2>2
<1> HIDE DEF P
<1>4. 0 \in 0..(Len(n) + 2) /\ Len(n) + 1 \in 0..(Len(n) + 2) /\ Len(n) + 2 \in 0..(Len(n) + 2)
  BY <1>1
<1>5. \A l \in Outs : /\ P[0][l] = g[l] /\ P[Len(n) + 1][l] = p[l] /\ P[Len(n) + 2][l] = s[l]
                      /\ g[l] \in Nat /\ p[l] \in Nat \cup {None} /\ s[l] \in Nat \cup {None}
  <2>1. SUFFICES ASSUME NEW l \in Outs
                 PROVE  /\ P[0][l] = g[l] /\ P[Len(n) + 1][l] = p[l] /\ P[Len(n) + 2][l] = s[l]
                        /\ g[l] \in Nat /\ p[l] \in Nat \cup {None} /\ s[l] \in Nat \cup {None}
    OBVIOUS
  <2>2. P[0][l] = g[l]
    BY <1>2, <1>4
  <2>3. P[Len(n) + 1][l] = p[l]
    BY <1>1, <1>2, <1>4
  <2>4. P[Len(n) + 2][l] = s[l]
    BY <1>1, <1>2, <1>4
  <2>5. g[l] \in Nat /\ p[l] \in Nat \cup {None} /\ s[l] \in Nat \cup {None}
    BY DEF Shape
  <2>6. QED
    BY <2>2, <2>3, <2>4, <2>5
<1>6. \A i \in 1..Len(n), l \in Outs : P[i][l] = IF l \in DOMAIN n[i][2] THEN n[i][2][l] ELSE None
  BY <1>1, <1>2
<1>7. QED
  BY <1>1, <1>3, <1>5, <1>6 DEF P, ArePlaces

Empty == [l \in Outs |-> None]

\* put(): what is deferred goes with what is to be put next.
LEMMA MoveOn ==
  ASSUME NEW g, NEW n, NEW p, NEW s, NEW c \in Nat, NEW h \in Nat, NEW k \in 1..Len(WriteSeq) \cup {1},
         Shape(g, n, p, s), FlowOf(g, n, p, s, c, h, k)
  PROVE  Shape(g, n, Moved(s, p), Empty) /\ FlowOf(g, n, Moved(s, p), Empty, c, h, k)
<1> DEFINE P == PlacesOf(g, n, p, s)
           q == Moved(s, p)
           Q == PlacesOf(g, n, q, Empty)
           N == Len(n) + 2
           m == [i \in 0..N |-> IF i = N THEN N - 1 ELSE i]
<1>1. \A l \in Outs : q[l] = (IF s[l] # None THEN s[l] ELSE p[l]) /\ Empty[l] = None
  BY DEF Moved, Empty
<1>2. Shape(g, n, q, Empty)
  <2>1. q \in [Outs -> Nat \cup {None}] /\ Empty \in [Outs -> Nat \cup {None}]
    BY DEF Moved, Empty, Shape
  <2>2. QED
    BY <2>1 DEF Shape
<1>3. /\ Len(n) \in Nat /\ N \in Nat /\ N = Len(n) + 2 /\ P \in [0..N -> [Outs -> Int]] /\ Q \in [0..N -> [Outs -> Int]]
      /\ \A l \in Outs : /\ P[0][l] = Q[0][l] /\ P[N - 1][l] = p[l] /\ P[N][l] = s[l]
                         /\ Q[N - 1][l] = q[l] /\ Q[N][l] = None
      /\ \A i \in 1..Len(n), l \in Outs : P[i][l] = Q[i][l]
  <2> HIDE DEF P, Q, q
  <2>1. /\ Len(n) \in Nat /\ P \in [0..N -> [Outs -> Int]]
        /\ \A l \in Outs : P[0][l] = g[l] /\ P[Len(n) + 1][l] = p[l] /\ P[Len(n) + 2][l] = s[l]
        /\ \A i \in 1..Len(n), l \in Outs : P[i][l] = IF l \in DOMAIN n[i][2] THEN n[i][2][l] ELSE None
    <3>1. ArePlaces(P, g, n, p, s)
      BY PlaceFacts DEF P
    <3>2. QED
      BY <3>1 DEF ArePlaces
  <2>2. /\ Q \in [0..N -> [Outs -> Int]]
        /\ \A l \in Outs : Q[0][l] = g[l] /\ Q[Len(n) + 1][l] = q[l] /\ Q[Len(n) + 2][l] = Empty[l]
        /\ \A i \in 1..Len(n), l \in Outs : Q[i][l] = IF l \in DOMAIN n[i][2] THEN n[i][2][l] ELSE None
    <3>1. ArePlaces(Q, g, n, q, Empty)
      BY <1>2, PlaceFacts DEF Q
    <3>2. QED
      BY <3>1 DEF ArePlaces
  <2>3. N \in Nat /\ N = Len(n) + 2 /\ Len(n) + 1 = N - 1
    BY <2>1
  <2> HIDE DEF N
  <2>4. \A l \in Outs : /\ P[0][l] = Q[0][l] /\ P[N - 1][l] = p[l] /\ P[N][l] = s[l]
                         /\ Q[N - 1][l] = q[l] /\ Q[N][l] = None
    BY <1>1, <2>1, <2>2, <2>3
  <2>5. \A i \in 1..Len(n), l \in Outs : P[i][l] = Q[i][l]
    BY <2>1, <2>2
  <2>6. QED
    BY <2>1, <2>2, <2>3, <2>4, <2>5
<1>4. m \in [0..N -> 0..N] /\ \A i \in 0..N : m[i] = IF i = N THEN N - 1 ELSE i
  BY <1>3
<1> HIDE DEF P, Q, q, N, m
<1>5. \A i \in 0..N, l \in Outs : i < N - 1 => P[i][l] = Q[i][l]
  <2>1. \A i \in 0..N : i < N - 1 => i = 0 \/ i \in 1..Len(n)
    BY <1>3
  <2>2. QED
    BY <1>3, <2>1
<1>6. \A l \in Outs : p[l] # None /\ s[l] # None => p[l] =< s[l]
  <2>1. InOrder(P, N) /\ N - 1 \in 0..N /\ N \in 0..N /\ N - 1 < N
    BY <1>3 DEF FlowOf, Flow, P, N
  <2>2. QED
    BY <1>3, <2>1 DEF InOrder
<1>7. Rearranged(P, N, Q, N, m)
  <2>1. ASSUME NEW j \in 0..N, NEW l \in Outs
        PROVE  Q[j][l] = None \/ \E i \in 0..N : m[i] = j /\ Q[j][l] = P[i][l]
    <3>1. CASE j < N - 1
      BY <1>3, <1>4, <1>5, <3>1
    <3>2. CASE j = N
      BY <1>3, <3>2
    <3>3. CASE j = N - 1
      <4>1. N \in 0..N /\ N - 1 \in 0..N /\ m[N] = j /\ m[N - 1] = j
        BY <1>3, <1>4, <3>3
      <4>2. Q[j][l] = P[N][l] \/ Q[j][l] = P[N - 1][l]
        BY <1>1, <1>3, <3>3
      <4>3. QED
        BY <4>1, <4>2
    <3>4. QED
      BY <1>3, <3>1, <3>2, <3>3
  <2>2. ASSUME NEW i \in 0..N, NEW l \in Outs PROVE P[i][l] =< Q[m[i]][l]
    <3>1. CASE i < N - 1
      <4>1. m[i] = i /\ P[i][l] = Q[i][l] /\ P[i][l] \in Int
        BY <1>3, <1>4, <1>5, <3>1
      <4>2. QED
        BY <4>1
    <3>2. CASE i = N \/ i = N - 1
      <4>1. m[i] = N - 1 /\ Q[m[i]][l] = q[l] /\ P[i][l] \in {p[l], s[l]}
        BY <1>3, <1>4, <3>2
      <4>2. p[l] \in Nat \cup {None} /\ s[l] \in Nat \cup {None}
        BY DEF Shape
      <4>3. QED
        BY <1>1, <1>6, <4>1, <4>2 DEF None
    <3>3. N \in Nat
      BY <1>3
    <3>4. QED
      BY <3>1, <3>2, <3>3
  <2>3. ASSUME NEW i \in 0..N, NEW j \in 0..N, i =< j PROVE m[i] =< m[j]
    <3>1. N \in Nat /\ m[i] = (IF i = N THEN N - 1 ELSE i) /\ m[j] = IF j = N THEN N - 1 ELSE j
      BY <1>3, <1>4
    <3>2. QED
      BY <2>3, <3>1
  <2>4. QED
    BY <1>3, <1>4, <2>1, <2>2, <2>3 DEF Rearranged
<1>8. Flow(Q, N, c, h, k)
  <2>1. Flow(P, N, c, h, k) /\ c \in Int /\ c >= None
    BY DEF FlowOf, P, N, None
  <2>2. QED
    BY <1>7, <2>1, Rearrange
<1>9. QED
  BY <1>2, <1>8 DEF FlowOf, Q, N, q

\* linkBuildPut(): what is to be put next is sent.
LEMMA SendOff ==
  ASSUME NEW g, NEW n, NEW p, NEW s, NEW c \in Nat, NEW h \in Nat, NEW k \in 1..Len(WriteSeq) \cup {1}, NEW id,
         Shape(g, n, p, s), FlowOf(g, n, p, s, c, h, k)
  PROVE  /\ Shape(g, Append(n, <<id, Sent(p)>>), Empty, s)
         /\ FlowOf(g, Append(n, <<id, Sent(p)>>), Empty, s, c, h, k)
<1> DEFINE P == PlacesOf(g, n, p, s)
           e == <<id, Sent(p)>>
           a == Append(n, e)
           Q == PlacesOf(g, a, Empty, s)
           N == Len(n) + 2
           m == [i \in 0..N |-> IF i = N THEN N + 1 ELSE i]
<1>1. /\ Len(n) \in Nat /\ Len(a) = Len(n) + 1 /\ a[Len(n) + 1] = e /\ e[2] = Sent(p)
      /\ \A i \in 1..Len(n) : a[i] = n[i]
      /\ \E S : a \in Seq(S)
  <2>1. PICK S : n \in Seq(S)
    BY DEF Shape
  <2>2. n \in Seq(S \cup {e}) /\ e \in S \cup {e}
    BY <2>1
  <2> HIDE DEF e
  <2>3. /\ Len(n) \in Nat /\ Len(a) = Len(n) + 1 /\ a[Len(n) + 1] = e
        /\ \A i \in 1..Len(n) : a[i] = n[i]
        /\ a \in Seq(S \cup {e})
    BY <2>2
  <2>4. e[2] = Sent(p)
    BY DEF e
  <2>5. QED
    BY <2>3, <2>4
<1>2. /\ DOMAIN Sent(p) \subseteq Outs /\ Sent(p) \in [DOMAIN Sent(p) -> Nat]
      /\ \A l \in Outs : p[l] = IF l \in DOMAIN Sent(p) THEN Sent(p)[l] ELSE None
  BY DEF Sent, Shape
<1> HIDE DEF a, e
<1>3. Shape(g, a, Empty, s)
  <2>1. Empty \in [Outs -> Nat \cup {None}]
    BY DEF Empty
  <2>2. ASSUME NEW i \in 1..Len(a)
        PROVE  a[i][2] \in [DOMAIN a[i][2] -> Nat] /\ DOMAIN a[i][2] \subseteq Outs
    <3>1. CASE i = Len(n) + 1
      BY <1>1, <1>2, <3>1
    <3>2. CASE i # Len(n) + 1
      <4>1. i \in 1..Len(n)
        BY <1>1, <3>2
      <4>2. a[i] = n[i]
        BY <1>1, <4>1
      <4>3. QED
        BY <4>1, <4>2 DEF Shape
    <3>3. QED
      BY <3>1, <3>2
  <2>3. QED
    BY <1>1, <2>1, <2>2 DEF Shape
<1>4. /\ N \in Nat /\ N = Len(n) + 2 /\ P \in [0..N -> [Outs -> Int]] /\ Q \in [0..(N + 1) -> [Outs -> Int]]
      /\ \A l \in Outs : P[0][l] = Q[0][l] /\ P[N - 1][l] = Q[N - 1][l] /\ Q[N][l] = None /\ P[N][l] = Q[N + 1][l]
      /\ \A i \in 1..Len(n), l \in Outs : P[i][l] = Q[i][l]
  <2> HIDE DEF P, Q
  <2>1. /\ P \in [0..(Len(n) + 2) -> [Outs -> Int]]
        /\ \A l \in Outs : P[0][l] = g[l] /\ P[Len(n) + 1][l] = p[l] /\ P[Len(n) + 2][l] = s[l]
        /\ \A i \in 1..Len(n), l \in Outs : P[i][l] = IF l \in DOMAIN n[i][2] THEN n[i][2][l] ELSE None
    <3>1. ArePlaces(P, g, n, p, s)
      BY PlaceFacts DEF P
    <3>2. QED
      BY <3>1 DEF ArePlaces
  <2>2. /\ Q \in [0..(Len(a) + 2) -> [Outs -> Int]]
        /\ \A l \in Outs : Q[0][l] = g[l] /\ Q[Len(a) + 1][l] = Empty[l] /\ Q[Len(a) + 2][l] = s[l]
        /\ \A i \in 1..Len(a), l \in Outs : Q[i][l] = IF l \in DOMAIN a[i][2] THEN a[i][2][l] ELSE None
    <3>1. ArePlaces(Q, g, a, Empty, s)
      BY <1>3, PlaceFacts DEF Q
    <3>2. QED
      BY <3>1 DEF ArePlaces
  <2>3. N \in Nat /\ N = Len(n) + 2 /\ Len(n) + 1 = N - 1 /\ Len(a) = N - 1 /\ Len(a) + 1 = N /\ Len(a) + 2 = N + 1
    BY <1>1
  <2> HIDE DEF N
  <2>4. \A l \in Outs : Empty[l] = None
    BY DEF Empty
  <2>5. \A l \in Outs : P[0][l] = Q[0][l] /\ Q[N][l] = None /\ P[N][l] = Q[N + 1][l]
    BY <2>1, <2>2, <2>3, <2>4
  <2>6. \A l \in Outs : P[N - 1][l] = Q[N - 1][l]
    <3>1. N - 1 \in 1..Len(a) /\ a[N - 1][2] = Sent(p)
      BY <1>1, <2>3
    <3>2. ASSUME NEW l \in Outs PROVE P[N - 1][l] = Q[N - 1][l]
      <4>1. P[N - 1][l] = p[l]
        BY <2>1, <2>3
      <4>2. Q[N - 1][l] = IF l \in DOMAIN Sent(p) THEN Sent(p)[l] ELSE None
        BY <2>2, <3>1
      <4>3. QED
        BY <1>2, <4>1, <4>2
    <3>3. QED
      BY <3>2
  <2>7. \A i \in 1..Len(n), l \in Outs : P[i][l] = Q[i][l]
    <3>1. \A i \in 1..Len(n) : i \in 1..Len(a) /\ a[i] = n[i]
      BY <1>1
    <3>2. ASSUME NEW i \in 1..Len(n), NEW l \in Outs PROVE P[i][l] = Q[i][l]
      <4>1. Q[i][l] = IF l \in DOMAIN a[i][2] THEN a[i][2][l] ELSE None
        BY <2>2, <3>1
      <4>2. P[i][l] = IF l \in DOMAIN n[i][2] THEN n[i][2][l] ELSE None
        BY <2>1
      <4>3. QED
        BY <3>1, <4>1, <4>2
    <3>3. QED
      BY <3>2
  <2>8. QED
    BY <2>1, <2>2, <2>3, <2>5, <2>6, <2>7
<1>5. m \in [0..N -> 0..(N + 1)] /\ \A i \in 0..N : m[i] = IF i = N THEN N + 1 ELSE i
  BY <1>4
<1> HIDE DEF P, Q, N, m
<1>6. \A i \in 0..N, l \in Outs : P[i][l] = Q[m[i]][l] /\ P[i][l] \in Int
  <2>1. SUFFICES ASSUME NEW i \in 0..N, NEW l \in Outs PROVE P[i][l] = Q[m[i]][l] /\ P[i][l] \in Int
    OBVIOUS
  <2>2. N \in Nat /\ Len(n) = N - 2
    BY <1>1, <1>4
  <2>3. i = 0 \/ i \in 1..Len(n) \/ i = N - 1 \/ i = N
    BY <2>2
  <2>4. m[i] = IF i = N THEN N + 1 ELSE i
    BY <1>5
  <2>5. QED
    BY <1>4, <2>2, <2>3, <2>4
<1>7. Rearranged(P, N, Q, N + 1, m)
  <2>1. ASSUME NEW j \in 0..(N + 1), NEW l \in Outs
        PROVE  Q[j][l] = None \/ \E i \in 0..N : m[i] = j /\ Q[j][l] = P[i][l]
    <3>1. CASE j = N
      BY <1>4, <3>1
    <3>2. CASE j # N
      <4>1. PICK i \in 0..N : m[i] = j
        <5>1. N \in Nat /\ N \in 0..N
          BY <1>4
        <5>2. CASE j = N + 1
          BY <1>5, <5>1, <5>2
        <5>3. CASE j # N + 1
          <6>1. j \in 0..N
            BY <5>1, <5>3
          <6>2. QED
            BY <1>5, <3>2, <6>1
        <5>4. QED
          BY <5>2, <5>3
      <4>2. QED
        BY <1>6, <4>1
    <3>3. QED
      BY <3>1, <3>2
  <2>2. ASSUME NEW i \in 0..N, NEW l \in Outs PROVE P[i][l] =< Q[m[i]][l]
    BY <1>6
  <2>3. ASSUME NEW i \in 0..N, NEW j \in 0..N, i =< j PROVE m[i] =< m[j]
    <3>1. N \in Nat /\ m[i] = (IF i = N THEN N + 1 ELSE i) /\ m[j] = IF j = N THEN N + 1 ELSE j
      BY <1>4, <1>5
    <3>2. QED
      BY <2>3, <3>1
  <2>4. QED
    BY <1>4, <1>5, <2>1, <2>2, <2>3 DEF Rearranged
<1>8. Flow(Q, N + 1, c, h, k)
  <2>1. Flow(P, N, c, h, k) /\ c \in Int /\ c >= None
    BY DEF FlowOf, P, N, None
  <2>2. QED
    BY <1>7, <2>1, Rearrange
<1>9. N + 1 = Len(a) + 2
  BY <1>1, <1>4
<1>10. QED
  BY <1>3, <1>8, <1>9 DEF FlowOf, Q, a, e

\* The PV receives a put.
LEMMA Arrive ==
  ASSUME NEW g, NEW n, NEW p, NEW s, NEW c \in Nat, NEW h \in Nat, NEW k \in 1..Len(WriteSeq) \cup {1},
         Shape(g, n, p, s), FlowOf(g, n, p, s, c, h, k), n # <<>>
  PROVE  /\ Shape(Stored(Head(n)[2], g), Tail(n), p, s)
         /\ FlowOf(Stored(Head(n)[2], g), Tail(n), p, s, c, h, k)
<1> DEFINE P == PlacesOf(g, n, p, s)
           f == Head(n)[2]
           b == Stored(f, g)
           t == Tail(n)
           Q == PlacesOf(b, t, p, s)
           N == Len(n) + 2
           m == [i \in 0..N |-> IF i = 0 THEN 0 ELSE i - 1]
<1>1. /\ Len(n) \in Nat \ {0} /\ Len(t) = Len(n) - 1 /\ n[1][2] = f
      /\ \A i \in 1..Len(t) : t[i] = n[i + 1]
      /\ \E S : t \in Seq(S)
  <2>1. PICK S : n \in Seq(S)
    BY DEF Shape
  <2>2. /\ Len(n) \in Nat \ {0} /\ Len(t) = Len(n) - 1 /\ n[1] = Head(n)
        /\ \A i \in 1..Len(t) : t[i] = n[i + 1]
        /\ t \in Seq(S)
    BY <2>1
  <2>3. QED
    BY <2>2
<1>2. /\ f \in [DOMAIN f -> Nat] /\ DOMAIN f \subseteq Outs
  BY <1>1 DEF Shape
<1>3. b \in [Outs -> Nat] /\ \A l \in Outs : b[l] = IF l \in DOMAIN f THEN f[l] ELSE g[l]
  <2>1. g \in [Outs -> Nat]
    BY DEF Shape
  <2> HIDE DEF f
  <2>2. b = [l \in Outs |-> IF l \in DOMAIN f THEN f[l] ELSE g[l]]
    BY <1>2, <2>1 DEF Stored
  <2>3. QED
    BY <1>2, <2>1, <2>2
<1> HIDE DEF f, b, t
<1>4. Shape(b, t, p, s)
  <2>1. ASSUME NEW i \in 1..Len(t)
        PROVE  t[i][2] \in [DOMAIN t[i][2] -> Nat] /\ DOMAIN t[i][2] \subseteq Outs
    <3>1. i + 1 \in 1..Len(n) /\ t[i] = n[i + 1]
      BY <1>1
    <3>2. QED
      BY <3>1 DEF Shape
  <2>2. QED
    BY <1>1, <1>3, <2>1 DEF Shape
<1>5. /\ N \in Nat /\ N > 2 /\ P \in [0..N -> [Outs -> Int]] /\ Q \in [0..(N - 1) -> [Outs -> Int]]
      /\ \A l \in Outs : /\ P[0][l] = g[l] /\ P[1][l] = (IF l \in DOMAIN f THEN f[l] ELSE None)
                         /\ Q[0][l] = IF l \in DOMAIN f THEN f[l] ELSE g[l]
      /\ \A i \in 2..N, l \in Outs : P[i][l] = Q[i - 1][l]
  <2> HIDE DEF P, Q
  <2>1. /\ P \in [0..(Len(n) + 2) -> [Outs -> Int]]
        /\ \A l \in Outs : P[0][l] = g[l] /\ P[Len(n) + 1][l] = p[l] /\ P[Len(n) + 2][l] = s[l]
        /\ \A i \in 1..Len(n), l \in Outs : P[i][l] = IF l \in DOMAIN n[i][2] THEN n[i][2][l] ELSE None
    <3>1. ArePlaces(P, g, n, p, s)
      BY PlaceFacts DEF P
    <3>2. QED
      BY <3>1 DEF ArePlaces
  <2>2. /\ Q \in [0..(Len(t) + 2) -> [Outs -> Int]]
        /\ \A l \in Outs : Q[0][l] = b[l] /\ Q[Len(t) + 1][l] = p[l] /\ Q[Len(t) + 2][l] = s[l]
        /\ \A i \in 1..Len(t), l \in Outs : Q[i][l] = IF l \in DOMAIN t[i][2] THEN t[i][2][l] ELSE None
    <3>1. ArePlaces(Q, b, t, p, s)
      BY <1>4, PlaceFacts DEF Q
    <3>2. QED
      BY <3>1 DEF ArePlaces
  <2>3. N \in Nat /\ N > 2 /\ Len(n) = N - 2 /\ Len(n) + 1 = N - 1 /\ Len(n) + 2 = N
        /\ Len(t) = N - 3 /\ Len(t) + 1 = N - 2 /\ Len(t) + 2 = N - 1 /\ 1 \in 1..Len(n)
    BY <1>1
  <2> HIDE DEF N
  <2>4. \A l \in Outs : /\ P[0][l] = g[l] /\ P[1][l] = (IF l \in DOMAIN f THEN f[l] ELSE None)
                        /\ Q[0][l] = IF l \in DOMAIN f THEN f[l] ELSE g[l]
    BY <1>1, <1>3, <2>1, <2>2, <2>3
  <2>5. ASSUME NEW i \in 2..N, NEW l \in Outs PROVE P[i][l] = Q[i - 1][l]
    <3>1. CASE i = N
      BY <2>1, <2>2, <2>3, <3>1
    <3>2. CASE i = N - 1
      <4>1. i - 1 = N - 2
        BY <2>3, <3>2
      <4>2. QED
        BY <2>1, <2>2, <2>3, <3>2, <4>1
    <3>3. CASE i < N - 1
      <4>1. i - 1 \in 1..Len(t) /\ (i - 1) + 1 = i /\ i \in 1..Len(n)
        BY <2>3, <3>3
      <4>2. t[i - 1] = n[i]
        BY <1>1, <4>1
      <4>3. P[i][l] = IF l \in DOMAIN n[i][2] THEN n[i][2][l] ELSE None
        BY <2>1, <4>1
      <4>4. Q[i - 1][l] = IF l \in DOMAIN t[i - 1][2] THEN t[i - 1][2][l] ELSE None
        BY <2>2, <4>1
      <4>5. QED
        BY <4>2, <4>3, <4>4
    <3>4. N \in Nat /\ i \in 2..N
      BY <2>3
    <3>5. i = N \/ i = N - 1 \/ i < N - 1
      BY <3>4
    <3>6. QED
      BY <3>1, <3>2, <3>3, <3>5, Zenon
  <2>6. QED
    BY <2>1, <2>2, <2>3, <2>4, <2>5
<1>6. m \in [0..N -> 0..(N - 1)] /\ \A i \in 0..N : m[i] = IF i = 0 THEN 0 ELSE i - 1
  BY <1>5
<1> HIDE DEF P, Q, N, m
<1>7. \A l \in Outs : l \in DOMAIN f => g[l] =< f[l] /\ f[l] \in Nat /\ f[l] # None
  <2>1. InOrder(P, N) /\ 0 \in 0..N /\ 1 \in 0..N
    BY <1>5 DEF FlowOf, Flow, P, N
  <2>2. \A l \in Outs : g[l] \in Nat /\ g[l] # None
    BY DEF Shape, None
  <2>3. \A l \in Outs : l \in DOMAIN f => f[l] \in Nat /\ f[l] # None
    BY <1>2 DEF None
  <2>4. QED
    BY <1>5, <2>1, <2>2, <2>3 DEF InOrder
<1>8. Rearranged(P, N, Q, N - 1, m)
  <2>1. ASSUME NEW j \in 0..(N - 1), NEW l \in Outs
        PROVE  \E i \in 0..N : m[i] = j /\ Q[j][l] = P[i][l]
    <3>1. CASE j = 0 /\ l \in DOMAIN f
      <4>1. 1 \in 0..N /\ m[1] = 0
        BY <1>5, <1>6
      <4>2. QED
        BY <1>5, <3>1, <4>1
    <3>2. CASE j = 0 /\ l \notin DOMAIN f
      <4>1. 0 \in 0..N /\ m[0] = 0
        BY <1>5, <1>6
      <4>2. QED
        BY <1>5, <3>2, <4>1
    <3>3. CASE j # 0
      <4>1. j + 1 \in 2..N /\ j + 1 \in 0..N /\ (j + 1) - 1 = j
        BY <1>5, <3>3
      <4>2. m[j + 1] = j
        BY <1>6, <4>1
      <4>3. QED
        BY <1>5, <4>1, <4>2
    <3>4. QED
      BY <3>1, <3>2, <3>3
  <2>2. ASSUME NEW i \in 0..N, NEW l \in Outs PROVE P[i][l] =< Q[m[i]][l]
    <3>1. CASE i = 0 \/ i = 1
      <4>1. m[i] = 0
        BY <1>6, <3>1
      <4>2. g[l] \in Nat
        BY DEF Shape
      <4>3. Q[0][l] = (IF l \in DOMAIN f THEN f[l] ELSE g[l]) /\ P[0][l] = g[l]
            /\ P[1][l] = IF l \in DOMAIN f THEN f[l] ELSE None
        BY <1>5
      <4>4. l \in DOMAIN f => g[l] =< f[l] /\ f[l] \in Nat
        BY <1>7
      <4>5. QED
        BY <3>1, <4>1, <4>2, <4>3, <4>4 DEF None
    <3>2. CASE i # 0 /\ i # 1
      <4>1. i \in 2..N /\ m[i] = i - 1
        BY <1>5, <1>6, <3>2
      <4>2. P[i][l] = Q[i - 1][l] /\ P[i][l] \in Int
        BY <1>5, <4>1
      <4>3. QED
        BY <4>1, <4>2
    <3>3. QED
      BY <3>1, <3>2
  <2>3. ASSUME NEW i \in 0..N, NEW j \in 0..N, i =< j PROVE m[i] =< m[j]
    <3>1. N \in Nat /\ m[i] = (IF i = 0 THEN 0 ELSE i - 1) /\ m[j] = IF j = 0 THEN 0 ELSE j - 1
      BY <1>5, <1>6
    <3>2. QED
      BY <2>3, <3>1
  <2>4. N - 1 \in Nat
    BY <1>5
  <2>5. QED
    BY <1>5, <1>6, <2>1, <2>2, <2>3, <2>4 DEF Rearranged
<1>9. Flow(Q, N - 1, c, h, k)
  <2>1. Flow(P, N, c, h, k) /\ c \in Int /\ c >= None
    BY DEF FlowOf, P, N, None
  <2>2. QED
    BY <1>8, <2>1, Rearrange
<1>10. N - 1 = Len(t) + 2
  BY <1>1 DEF N
<1>11. QED
  BY <1>4, <1>9, <1>10 DEF FlowOf, Q, b, t, f

\* A value is written, and waits in the scratch of its link.
Deferred(s, x, v) == [s EXCEPT ![x] = v]

\* A record which writes its output link leaves the values on their way in
\* order (pvaPutValue(), pvalink_lset.cpp).
LEMMA WriteTo ==
  ASSUME NEW g, NEW n, NEW p, NEW s, NEW c \in Nat, NEW h \in Nat, NEW k \in 1..Len(WriteSeq), NEW x \in Outs,
         Shape(g, n, p, s), FlowOf(g, n, p, s, c, h, k), WriteSeq[k] = x
  PROVE  /\ Shape(g, n, p, Deferred(s, x, Run(h, k)))
         /\ FlowOf(g, n, p, Deferred(s, x, Run(h, k)), c, Run(h, k), After(k))
<1> DEFINE v == Run(h, k)
           d == Deferred(s, x, v)
           P == PlacesOf(g, n, p, s)
           Q == PlacesOf(g, n, p, d)
           N == Len(n) + 2
<1>1. v \in Nat
  BY DEF Run
<1>2. \A l \in Outs : d[l] = IF l = x THEN v ELSE s[l]
  BY DEF Deferred, Shape
<1>3. Shape(g, n, p, d)
  <2>1. d \in [Outs -> Nat \cup {None}]
    <3> HIDE DEF v
    <3>1. s \in [Outs -> Nat \cup {None}]
      BY DEF Shape
    <3>2. QED
      BY <1>1, <3>1 DEF Deferred
  <2> HIDE DEF d
  <2>2. QED
    BY <2>1 DEF Shape
<1> HIDE DEF v, d, P, Q
<1>4. ArePlaces(P, g, n, p, s) /\ ArePlaces(Q, g, n, p, d)
  BY <1>3, PlaceFacts DEF P, Q
<1>5. N \in Nat /\ Len(n) = N - 2 /\ Len(n) + 1 = N - 1 /\ Len(n) + 2 = N
  BY <1>4 DEF ArePlaces
<1>6. Flow(P, N, c, h, k)
  BY DEF FlowOf, P
<1>7. Q \in [0..N -> [Outs -> Int]]
  BY <1>4 DEF ArePlaces
<1> HIDE DEF N
<1>8. ASSUME NEW i \in 0..N, NEW l \in Outs
      PROVE  Q[i][l] = IF i = N /\ l = x THEN v ELSE P[i][l]
  <2>1. i = 0 \/ i \in 1..Len(n) \/ i = N - 1 \/ i = N
    BY <1>5
  <2>2. /\ P[0][l] = g[l] /\ P[N - 1][l] = p[l] /\ P[N][l] = s[l]
        /\ Q[0][l] = g[l] /\ Q[N - 1][l] = p[l] /\ Q[N][l] = d[l]
        /\ i \in 1..Len(n) => P[i][l] = Q[i][l]
    BY <1>4, <1>5 DEF ArePlaces
  <2>3. QED
    BY <1>2, <1>5, <2>1, <2>2
<1>9. Flow(Q, N, c, v, After(k))
  <2>1. None =< c
    BY DEF None
  <2>2. Added(P, N, Q, x, Run(h, k))
    BY <1>7, <1>8 DEF Added, v
  <2>3. QED
    BY <1>5, <1>6, <2>1, <2>2, WriteOne DEF v
<1>10. QED
  BY <1>3, <1>9 DEF FlowOf, Q, N, v, d

\* The worker finds the connection lost: what waits may be forgotten.
LEMMA Forget ==
  ASSUME NEW g, NEW n, NEW p, NEW s, NEW q, NEW d, NEW c, NEW h \in Nat, NEW h2 \in Nat, NEW k, NEW k2, h =< h2,
         Shape(g, n, p, s), FlowOf(g, n, p, s, c, h, k),
         q \in [Outs -> Nat \cup {None}], d \in [Outs -> Nat \cup {None}],
         \A l \in Outs : q[l] \in {None, p[l]} /\ d[l] \in {None, s[l]}
  PROVE  Shape(g, n, q, d) /\ FlowOf(g, n, q, d, h2, h2, k2)
<1> DEFINE P == PlacesOf(g, n, p, s)
           Q == PlacesOf(g, n, q, d)
           N == Len(n) + 2
           m == [i \in 0..N |-> i]
<1>1. Shape(g, n, q, d)
  BY DEF Shape
<1> HIDE DEF P, Q
<1>2. ArePlaces(P, g, n, p, s) /\ ArePlaces(Q, g, n, q, d)
  BY <1>1, PlaceFacts DEF P, Q
<1>3. N \in Nat /\ Len(n) = N - 2 /\ Len(n) + 1 = N - 1 /\ Len(n) + 2 = N
  BY <1>2 DEF ArePlaces
<1>4. Flow(P, N, c, h, k)
  BY DEF FlowOf, P
<1>5. Q \in [0..N -> [Outs -> Int]]
  BY <1>2 DEF ArePlaces
<1>6. m \in [0..N -> 0..N] /\ \A i \in 0..N : m[i] = i
  OBVIOUS
<1> HIDE DEF N, m
<1>7. ASSUME NEW i \in 0..N, NEW l \in Outs PROVE Q[i][l] \in {None, P[m[i]][l]}
  <2>1. i = 0 \/ i \in 1..Len(n) \/ i = N - 1 \/ i = N
    BY <1>3
  <2>2. /\ P[0][l] = g[l] /\ P[N - 1][l] = p[l] /\ P[N][l] = s[l]
        /\ Q[0][l] = g[l] /\ Q[N - 1][l] = q[l] /\ Q[N][l] = d[l]
        /\ i \in 1..Len(n) => P[i][l] = Q[i][l]
    BY <1>2, <1>3 DEF ArePlaces
  <2>3. QED
    BY <1>6, <2>1, <2>2
<1>8. \A i, j \in 0..N : i < j => m[i] < m[j]
  BY <1>6
<1>9. Flow(Q, N, h2, h2, k2)
  <2>1. Remaining(P, N, Q, N, m)
    BY <1>3, <1>5, <1>6, <1>7, <1>8 DEF Remaining
  <2>2. QED
    BY <1>4, <2>1, CutOff
<1>10. QED
  BY <1>1, <1>9 DEF FlowOf, Q, N

\* The connection is lost: puts on their way are.
LEMMA LoseAll ==
  ASSUME NEW g, NEW n, NEW p, NEW s, NEW c, NEW h \in Nat, NEW k,
         Shape(g, n, p, s), FlowOf(g, n, p, s, c, h, k)
  PROVE  Shape(g, <<>>, p, s) /\ FlowOf(g, <<>>, p, s, h, h, k)
<1> DEFINE P == PlacesOf(g, n, p, s)
           z == <<>>
           Q == PlacesOf(g, z, p, s)
           N == Len(n) + 2
           m == [i \in 0..2 |-> IF i = 0 THEN 0 ELSE Len(n) + i]
<1>1. Len(z) = 0 /\ z \in Seq({})
  OBVIOUS
<1> HIDE DEF z, P, Q
<1>2. Shape(g, z, p, s)
  BY <1>1 DEF Shape
<1>3. ArePlaces(P, g, n, p, s) /\ ArePlaces(Q, g, z, p, s)
  BY <1>2, PlaceFacts DEF P, Q
<1>4. Len(n) \in Nat /\ N \in Nat
  BY <1>3 DEF ArePlaces
<1>5. Flow(P, N, c, h, k)
  BY DEF FlowOf, P
<1>6. Q \in [0..2 -> [Outs -> Int]]
  BY <1>1, <1>3 DEF ArePlaces
<1>7. m \in [0..2 -> 0..N] /\ \A i \in 0..2 : m[i] = IF i = 0 THEN 0 ELSE Len(n) + i
  BY <1>4
<1> HIDE DEF N, m
<1>8. ASSUME NEW i \in 0..2, NEW l \in Outs PROVE Q[i][l] \in {None, P[m[i]][l]}
  <2>1. P[0][l] = g[l] /\ P[Len(n) + 1][l] = p[l] /\ P[Len(n) + 2][l] = s[l]
    BY <1>3 DEF ArePlaces
  <2>2. Q[0][l] = g[l] /\ Q[1][l] = p[l] /\ Q[2][l] = s[l]
    BY <1>1, <1>3 DEF ArePlaces
  <2>3. i = 0 \/ i = 1 \/ i = 2
    OBVIOUS
  <2>4. QED
    BY <1>7, <2>1, <2>2, <2>3
<1>9. ASSUME NEW i \in 0..2, NEW j \in 0..2, i < j PROVE m[i] < m[j]
  BY <1>4, <1>7, <1>9
<1>10. Flow(Q, 2, h, h, k)
  <2>1. Remaining(P, N, Q, 2, m)
    BY <1>4, <1>6, <1>7, <1>8, <1>9 DEF Remaining
  <2>2. QED
    BY <1>5, <2>1, CutOff
<1>11. QED
  BY <1>1, <1>2, <1>10 DEF FlowOf, Q, z

----------------------------------------------------------------------------
(* Values which are written together                                       *)

\* At first no value is on its way.
LEMMA DeferInit == Init => DeferInv
<1> SUFFICES ASSUME Init PROVE DeferInv
  OBVIOUS
<1> DEFINE z == <<>>
           P == PlacesOf(got, z, pend, scratch)
<1>1. /\ chain = 0 /\ cut = 0 /\ turn = 1 /\ net = z /\ after_put = {} /\ notActive = FALSE
      /\ got = [l \in Outs |-> 0] /\ pend = Empty /\ scratch = Empty
  BY DEF Init, Empty
<1>2. Len(z) = 0 /\ z \in Seq({})
  OBVIOUS
<1> HIDE DEF z, P
<1>3. Shape(got, z, pend, scratch)
  BY <1>1, <1>2 DEF Shape, Empty
<1>4. ArePlaces(P, got, z, pend, scratch)
  BY <1>3, PlaceFacts DEF P
<1>5. P \in [0..2 -> [Outs -> Int]]
  BY <1>2, <1>4 DEF ArePlaces
<1>6. ASSUME NEW i \in 0..2, NEW l \in Outs PROVE P[i][l] = IF i = 0 THEN 0 ELSE None
  <2>1. P[0][l] = got[l] /\ P[1][l] = pend[l] /\ P[2][l] = scratch[l]
    BY <1>2, <1>4 DEF ArePlaces
  <2>2. got[l] = 0 /\ pend[l] = None /\ scratch[l] = None
    BY <1>1 DEF Empty
  <2>3. i = 0 \/ i = 1 \/ i = 2
    OBVIOUS
  <2>4. QED
    BY <2>1, <2>2, <2>3
<1>7. PlaceType(P, 2, 0) /\ InOrder(P, 2)
  BY <1>5, <1>6 DEF PlaceType, InOrder, None
<1>8. Covered(P, 2, 0)
  <2>1. SUFFICES ASSUME NEW i \in 0..2, NEW l \in Outs, P[i][EndLink] > 0 PROVE FALSE
    BY DEF Covered
  <2>2. P[i][EndLink] = IF i = 0 THEN 0 ELSE None
    BY <1>6, EndIsOut
  <2>3. QED
    BY <2>1, <2>2 DEF None
<1>9. Written(P, 2, 0, 0, 1)
  BY DEF Written
<1>10. FlowOf(got, net, pend, scratch, cut, chain, turn)
  BY <1>1, <1>2, <1>7, <1>8, <1>9 DEF FlowOf, Flow, P
<1>11. QED
  BY <1>1, <1>3, <1>10 DEF DeferInv

\* put() leaves nothing in scratch.
LEMMA PutMoves ==
  ASSUME DeferInv, NEW os, NEW old, NEW force, Put(scratch, os, old, force), UNCHANGED <<got, net>>
  PROVE  Shape(got, net, pend, scratch)' /\ FlowOf(got', net', pend', scratch', cut, chain, turn)
<1>1. pend' = Moved(scratch, pend) /\ scratch' = Empty /\ got' = got /\ net' = net
  BY DEF Put, Empty
<1>2. cut \in Nat /\ chain \in Nat /\ turn \in 1..Len(WriteSeq) \cup {1}
      /\ Shape(got, net, pend, scratch) /\ FlowOf(got, net, pend, scratch, cut, chain, turn)
  BY DEF DeferInv
<1>3. /\ Shape(got, net, Moved(scratch, pend), Empty)
      /\ FlowOf(got, net, Moved(scratch, pend), Empty, cut, chain, turn)
  BY <1>2, MoveOn
<1>4. QED
  BY <1>1, <1>3

\* Writing through a link, with and without defer
LEMMA WriteMoves ==
  ASSUME DeferInv, NEW x \in Outs, NEW wait \in BOOLEAN, Write(x, wait)
  PROVE  DeferInv'
<1>1. /\ WriteSeq[turn] = x /\ chain' = Run(chain, turn) /\ turn' = After(turn)
      /\ got' = got /\ net' = net /\ notActive' = notActive
  BY DEF Write, Run, After
<1>2. cut \in Nat /\ cut =< chain /\ chain \in Nat /\ turn \in 1..Len(WriteSeq) \cup {1}
      /\ Shape(got, net, pend, scratch) /\ FlowOf(got, net, pend, scratch, cut, chain, turn)
      /\ after_put \subseteq pact /\ ~notActive
  BY DEF DeferInv
<1>3. Len(WriteSeq) \in Nat \ {0} /\ turn \in 1..Len(WriteSeq)
  BY <1>2, EndIsOut
<1>4. chain' \in Nat /\ chain =< chain' /\ turn' \in 1..Len(WriteSeq) \cup {1}
  <2>1. turn' = IF turn = Len(WriteSeq) THEN 1 ELSE turn + 1
    BY <1>1, <1>3, NextTurn DEF After
  <2>2. QED
    BY <1>1, <1>2, <1>3, <2>1 DEF Run
<1>5. CASE CanWrite(x)
  <2>1. PutValue(x, chain', wait) /\ pact' = (IF wait THEN pact \cup {x} ELSE pact) /\ cut' = cut
    BY <1>5 DEF Write
  <2>2. after_put' \subseteq pact'
    BY <1>2, <2>1 DEF PutValue
  <2> DEFINE d == Deferred(scratch, x, chain')
  <2>3. Shape(got, net, pend, d) /\ FlowOf(got, net, pend, d, cut, chain', turn')
    BY <1>1, <1>2, <1>3, WriteTo
  <2>4. CASE Config[x].defer
    <3>1. scratch' = d /\ pend' = pend
      BY <2>1, <2>4 DEF PutValue, Deferred
    <3>2. Shape(got, net, pend, scratch)' /\ FlowOf(got, net, pend, scratch, cut, chain, turn)'
      BY <1>1, <2>1, <2>3, <3>1
    <3>3. QED
      BY <1>1, <1>2, <1>4, <2>1, <2>2, <3>2 DEF DeferInv
  <2>5. CASE ~Config[x].defer
    <3>1. Put(d, ops, op_put, FALSE)
      BY <2>1, <2>5 DEF PutValue, Deferred
    <3> HIDE DEF d
    <3>2. pend' = Moved(d, pend) /\ scratch' = Empty
      BY <3>1 DEF Put, Empty
    <3>3. Shape(got, net, Moved(d, pend), Empty) /\ FlowOf(got, net, Moved(d, pend), Empty, cut, chain', turn')
      BY <1>2, <1>4, <2>3, MoveOn
    <3>4. Shape(got, net, pend, scratch)' /\ FlowOf(got, net, pend, scratch, cut, chain, turn)'
      BY <1>1, <2>1, <3>2, <3>3
    <3>5. QED
      BY <1>1, <1>2, <1>4, <2>1, <2>2, <3>4 DEF DeferInv
  <2>6. QED
    BY <2>4, <2>5
<1>6. CASE ~CanWrite(x)
  <2>1. pend' = pend /\ scratch' = scratch /\ after_put' = after_put /\ pact' = pact /\ cut' = chain'
    BY <1>6 DEF Write, outVars
  <2>2. /\ pend \in [Outs -> Nat \cup {None}] /\ scratch \in [Outs -> Nat \cup {None}]
        /\ \A l \in Outs : pend[l] \in {None, pend[l]} /\ scratch[l] \in {None, scratch[l]}
    BY <1>2 DEF Shape
  <2>3. Shape(got, net, pend, scratch) /\ FlowOf(got, net, pend, scratch, chain', chain', turn')
    BY <1>2, <1>4, <2>2, Forget
  <2>4. Shape(got, net, pend, scratch)' /\ FlowOf(got, net, pend, scratch, cut, chain, turn)'
    BY <1>1, <2>1, <2>3
  <2>5. QED
    BY <1>1, <1>2, <1>4, <2>1, <2>4 DEF DeferInv
<1>7. QED
  BY <1>5, <1>6

\* The values of the output links, and those who wait for them
flowVars == <<got, net, pend, scratch, cut, chain, turn, after_put, pact, notActive>>

\* Every step of links, worker, records and channel keeps the values on
\* their way in order.
LEMMA DeferStep == DeferInv /\ [Next]_vars => DeferInv'
<1> SUFFICES ASSUME DeferInv, [Next]_vars PROVE DeferInv'
  OBVIOUS
<1> DEFINE Flowing == /\ Shape(got, net, pend, scratch)
                      /\ FlowOf(got, net, pend, scratch, cut, chain, turn)
<1>1. /\ cut \in Nat /\ cut =< chain /\ chain \in Nat /\ turn \in 1..Len(WriteSeq) \cup {1}
      /\ Shape(got, net, pend, scratch) /\ FlowOf(got, net, pend, scratch, cut, chain, turn)
      /\ after_put \subseteq pact /\ ~notActive
  BY DEF DeferInv
\* steps which leave them alone, or only move values
<1>2. ASSUME UNCHANGED flowVars PROVE DeferInv'
  BY <1>2 DEF flowVars, DeferInv
<1>3. ASSUME Flowing', UNCHANGED <<cut, chain, turn, after_put, pact, notActive>> PROVE DeferInv'
  BY <1>1, <1>3 DEF DeferInv
<1>4. ASSUME Flowing', cut' = chain, UNCHANGED <<chain, turn, after_put, pact, notActive>> PROVE DeferInv'
  BY <1>1, <1>4 DEF DeferInv
<1> HIDE DEF Flowing
<1>5. CASE Init_ \/ Close \/ Update \/ Connect
  BY <1>2, <1>5 DEF Init_, Close, Update, Connect, flowVars, outVars, wrVars
<1>6. CASE Lose
  <2>1. /\ net' = <<>> /\ cut' = chain
        /\ UNCHANGED <<got, pend, scratch, chain, turn, after_put, pact, notActive>>
    BY <1>6 DEF Lose
  <2>2. Shape(got, <<>>, pend, scratch) /\ FlowOf(got, <<>>, pend, scratch, chain, chain, turn)
    BY <1>1, LoseAll
  <2>3. Flowing'
    BY <2>1, <2>2 DEF Flowing
  <2>4. QED
    BY <1>4, <2>1, <2>3
<1>7. CASE RunPop
  <2>1. UNCHANGED <<net, got, chain, turn, pact, notActive, after_put>>
    BY <1>7 DEF RunPop, outVars
  <2>2. CASE UNCHANGED <<scratch, pend, cut>>
    BY <1>2, <2>1, <2>2 DEF flowVars
  <2>3. CASE ~UNCHANGED <<scratch, pend, cut>>
    <3>1. /\ cut' = chain
          /\ scratch' = [l \in Outs |-> IF l \in links THEN None ELSE scratch[l]]
          /\ pend' = [l \in Outs |-> IF l \in links THEN None ELSE pend[l]]
      BY <1>7, <2>3 DEF RunPop, Popped, outVars
    <3>2. /\ pend' \in [Outs -> Nat \cup {None}] /\ scratch' \in [Outs -> Nat \cup {None}]
          /\ \A l \in Outs : pend'[l] \in {None, pend[l]} /\ scratch'[l] \in {None, scratch[l]}
      BY <1>1, <3>1 DEF Shape
    <3>3. Shape(got, net, pend', scratch') /\ FlowOf(got, net, pend', scratch', chain, chain, turn)
      BY <1>1, <3>2, Forget
    <3>4. Flowing'
      BY <2>1, <3>1, <3>3 DEF Flowing
    <3>5. QED
      BY <1>4, <2>1, <3>1, <3>4
  <2>4. QED
    BY <2>2, <2>3
<1>8. CASE ScanAtomic \/ UnlockAtomic \/ ScanNonAtomic \/ RunDone \/ RunNull
  BY <1>2, <1>8 DEF ScanAtomic, UnlockAtomic, ScanNonAtomic, RunDone, RunNull, flowVars, outVars, wrVars
<1>9. CASE AfterPut
  <2>1. /\ notActive' = (notActive \/ ~(after_put \subseteq pact))
        /\ pact' = pact \ after_put /\ after_put' = {}
        /\ UNCHANGED <<got, net, pend, scratch, cut, chain, turn>>
    BY <1>9 DEF AfterPut
  <2>2. notActive' = FALSE /\ after_put' \subseteq pact'
    BY <1>1, <2>1
  <2>3. QED
    BY <1>1, <2>1, <2>2 DEF DeferInv
<1>10. ASSUME NEW id \in DOMAIN ops, BuildPut(id) PROVE DeferInv'
  <2>1. /\ net' = Append(net, <<id, Sent(pend)>>) /\ pend' = Empty
        /\ UNCHANGED <<got, scratch, cut, chain, turn, after_put, pact, notActive>>
    BY <1>10 DEF BuildPut, Empty, wrVars
  <2>2. /\ Shape(got, Append(net, <<id, Sent(pend)>>), Empty, scratch)
        /\ FlowOf(got, Append(net, <<id, Sent(pend)>>), Empty, scratch, cut, chain, turn)
    BY <1>1, SendOff
  <2>3. Flowing'
    BY <2>1, <2>2 DEF Flowing
  <2>4. QED
    BY <1>3, <2>1, <2>3
<1>11. ASSUME NEW id \in DOMAIN ops, PutDone(id) PROVE DeferInv'
  <2>1. UNCHANGED <<got, net, cut, chain, turn, after_put, pact, notActive>>
    BY <1>11 DEF PutDone, wrVars
  <2>2. CASE UNCHANGED <<scratch, pend>>
    BY <1>2, <2>1, <2>2 DEF flowVars
  <2>3. CASE \E os : Put(scratch, os, 0, FALSE)
    <3>1. PICK os : Put(scratch, os, 0, FALSE)
      BY <2>3
    <3>2. Shape(got, net, pend, scratch)' /\ FlowOf(got', net', pend', scratch', cut, chain, turn)
      BY <2>1, <3>1, PutMoves
    <3>3. Flowing'
      BY <2>1, <3>2 DEF Flowing
    <3>4. QED
      BY <1>3, <2>1, <3>3
  <2>4. QED
    BY <1>11, <2>2, <2>3 DEF PutDone
<1>12. ASSUME NEW id \in DOMAIN ops, Cancelled(id) PROVE DeferInv'
  BY <1>2, <1>12 DEF Cancelled, flowVars, wrVars
<1>13. CASE Receive
  <2>1. /\ net # <<>> /\ net' = Tail(net) /\ got' = Stored(Head(net)[2], got)
        /\ UNCHANGED <<scratch, pend, cut, chain, turn, after_put, pact, notActive>>
    BY <1>13 DEF Receive, wrVars
  <2>2. /\ Shape(Stored(Head(net)[2], got), Tail(net), pend, scratch)
        /\ FlowOf(Stored(Head(net)[2], got), Tail(net), pend, scratch, cut, chain, turn)
    BY <1>1, <2>1, Arrive
  <2>3. Flowing'
    BY <2>1, <2>2 DEF Flowing
  <2>4. QED
    BY <1>3, <2>1, <2>3
<1>14. CASE Scans
  BY <1>2, <1>14 DEF Scans, ScanOnce, Complete, flowVars, outVars, wrVars
<1>15. ASSUME NEW l \in DOMAIN Type, PvaOpenLink(l) \/ PvaRemoveLink(l) PROVE DeferInv'
  BY <1>2, <1>15 DEF PvaOpenLink, PvaRemoveLink, flowVars, outVars, wrVars
<1>16. ASSUME NEW l \in DOMAIN Type, ScanForward(l) PROVE DeferInv'
  <2>1. /\ Put(scratch, ops, op_put, TRUE)
        /\ UNCHANGED <<got, net, cut, chain, turn, after_put, pact, notActive>>
    BY <1>16 DEF ScanForward, wrVars
  <2>2. Shape(got, net, pend, scratch)' /\ FlowOf(got', net', pend', scratch', cut, chain, turn)
    BY <2>1, PutMoves
  <2>3. Flowing'
    BY <2>1, <2>2 DEF Flowing
  <2>4. QED
    BY <1>3, <2>1, <2>3
<1>17. ASSUME NEW l \in Outs, NEW wait \in BOOLEAN, Write(l, wait) PROVE DeferInv'
  BY <1>17, WriteMoves
<1>18. CASE UNCHANGED vars
  BY <1>2, <1>18 DEF vars, flowVars, outVars, wrVars
<1>19. QED
  BY <1>5, <1>6, <1>7, <1>8, <1>9, <1>10, <1>11, <1>12, <1>13, <1>14, <1>15, <1>16, <1>17, <1>18
     DEF Next, Worker, Client

\* What DeferredTogether says, for any links, order of the chain, puts which
\* replace each other, forward links and losses: the value of the last link
\* comes with those written before it through pvaPutValueX().
THEOREM DeferredAlwaysTogether == Spec => []DeferredTogether
<1>1. DeferInv => DeferredTogether
  <2> SUFFICES ASSUME DeferInv PROVE DeferredTogether
    OBVIOUS
  <2> DEFINE P == PlacesOf(got, net, pend, scratch)
  <2>1. Shape(got, net, pend, scratch) /\ Flow(P, Len(net) + 2, cut, chain, turn) /\ ~notActive
    BY DEF DeferInv, FlowOf
  <2> HIDE DEF P
  <2>2. ArePlaces(P, got, net, pend, scratch)
    BY <2>1, PlaceFacts DEF P
  <2>3. Len(net) \in Nat /\ 0 \in 0..(Len(net) + 2) /\ \A l \in Outs : P[0][l] = got[l]
    BY <2>2 DEF ArePlaces
  <2>4. ASSUME NEW l \in Outs, got[EndLink] > cut PROVE got[l] >= got[EndLink]
    <3>1. P[0][EndLink] = got[EndLink] /\ P[0][EndLink] > cut
      BY <2>3, <2>4, EndIsOut
    <3>2. PICK j \in 0..0 : P[j][l] >= P[0][EndLink]
      BY <2>1, <2>3, <3>1 DEF Flow, Covered
    <3>3. QED
      BY <2>3, <3>1, <3>2
  <2>5. QED
    BY <2>1, <2>4 DEF DeferredTogether, EndLink
<1>2. QED
  BY <1>1, DeferInit, DeferStep, PTL DEF Spec

----------------------------------------------------------------------------
(* Records which are processed together                                    *)

\* Records of atomic links are those of input links which are always there.
LEMMA TogetherFacts ==
  ASSUME InTypes, NEW l \in Together
  PROVE  /\ l \in links /\ l \in Inputs /\ l \notin Async /\ Config[l].atomic /\ Scanned(l) # "no"
         /\ (Scanned(l) = "passive" => l \in Passive) /\ l \in AtStart
BY LinksAssumption DEF Together, CP, Scanned, ScanOnUpdate, Inputs, Of, InTypes

\* A record which is processed keeps its type.
LEMMA RecordTypes ==
  ASSUME InTypes, NEW r \in Inputs
  PROVE  /\ rec[r] \in Record /\ GetValue(r) \in Record /\ Processed(r) \in Record /\ Scan(r) \in Record
<1>1. rec[r] \in Record /\ root \in Int
  BY DEF InTypes
<1>2. 3 \in Sevrs /\ PassedOn(Config[r], Severity[root]) \in Sevrs
  BY <1>1 DEF Sevrs, PassedOn
<1>3. GetValue(r) \in Record
  BY <1>1, <1>2 DEF GetValue, Record
<1>4. Processed(r) \in Record
  <2> DEFINE b == r \in Async
  <2>1. b \in BOOLEAN
    OBVIOUS
  <2>2. Processed(r) = [GetValue(r) EXCEPT !.pact = b]
    BY Zenon DEF Processed
  <2> HIDE DEF b
  <2>3. QED
    BY <1>3, <2>1, <2>2 DEF Record
<1>5. Scan(r) \in Record
  BY <1>1, <1>4 DEF Scan, Record
<1>6. QED
  BY <1>1, <1>3, <1>4, <1>5

\* The worker processes a record of an atomic link.
LEMMA ScanTogether ==
  ASSUME InTypes, Undisturbed, NEW l \in Together
  PROVE  /\ Scan(l).pact = FALSE
         /\ Scan(l).val = IF connected THEN root ELSE rec[l].val
         /\ Scan(l).sevr = IF connected THEN PassedOn(Config[l], Severity[root]) ELSE 3
<1>1. l \in links /\ l \in Inputs /\ l \notin Async /\ (Scanned(l) = "passive" => l \in Passive)
  BY TogetherFacts
<1>2. rec[l] \in Record /\ rec[l].pact = FALSE /\ GetValue(l) \in Record
  BY <1>1, RecordTypes DEF Undisturbed
<1>3. Scan(l) = [GetValue(l) EXCEPT !.pact = FALSE]
  <2>1. Scan(l) = Processed(l)
    BY <1>1, <1>2 DEF Scan
  <2>2. (l \in Async) = FALSE
    BY <1>1
  <2>3. QED
    BY <2>1, <2>2, Zenon DEF Processed
<1>4. GetValue(l) = IF connected THEN [rec[l] EXCEPT !.val = root, !.sevr = PassedOn(Config[l], Severity[root])]
                    ELSE [rec[l] EXCEPT !.sevr = 3]
  BY <1>1 DEF GetValue
<1>5. /\ GetValue(l).val = IF connected THEN root ELSE rec[l].val
      /\ GetValue(l).sevr = IF connected THEN PassedOn(Config[l], Severity[root]) ELSE 3
  BY <1>2, <1>4 DEF Record
<1>6. QED
  BY <1>2, <1>3, <1>5 DEF Record

\* At first all records of atomic links are at the same update.
LEMMA AtomicInit == Init => AtomicInv
<1> SUFFICES ASSUME Init PROVE AtomicInv
  OBVIOUS
<1>1. InTypes
  <2>1. rec \in [Inputs -> Record]
    BY DEF Init, Inputs, Record, Sevrs
  <2>2. mon \in [open : BOOLEAN, q : Seq(Int), needNotify : BOOLEAN]
    BY DEF Init
  <2>3. QED
    <3>1. rval = 0 /\ root = 0 /\ connected = FALSE /\ links = AtStart /\ 0 \in Int
      BY DEF Init
    <3>2. QED
      BY <2>1, <2>2, <3>1, LinksAssumption DEF InTypes
<1>2. \A l \in Together : rec[l] = [val |-> 0, sevr |-> 3, pact |-> FALSE, rpro |-> FALSE]
  BY <1>1, TogetherFacts DEF Init, Inputs
<1>3. Lists
  BY DEF Init, Lists
<1>4. Undisturbed
  <2>1. once = {}
    BY DEF Init
  <2>2. QED
    BY <1>2, <2>1 DEF Undisturbed
<1>5. Updated
  <2>1. pc = "idle" /\ root = 0 /\ connected = FALSE
    BY DEF Init
  <2>2. \A l \in Together : Holds(l, root, connected)
    BY <1>2, <2>1 DEF Holds
  <2>3. QED
    BY <2>1, <2>2 DEF Updated
<1>6. QED
  BY <1>1, <1>3, <1>4, <1>5 DEF AtomicInv

\* The subscription's queue: updates, and the Disconnect exception
LEMMA PushTypes ==
  ASSUME InTypes, NEW e \in Int, Push(e)
  PROVE  mon' \in [open : BOOLEAN, q : Seq(Int), needNotify : BOOLEAN]
<1>1. mon.q \in Seq(Int) /\ Len(mon.q) \in Nat /\ mon.open \in BOOLEAN
  BY DEF InTypes
<1>2. Append(mon.q, e) \in Seq(Int)
  BY <1>1
<1>3. [mon.q EXCEPT ![Len(mon.q)] = e] \in Seq(Int)
  <2>1. mon.q \in [1..Len(mon.q) -> Int]
    BY <1>1
  <2>2. [mon.q EXCEPT ![Len(mon.q)] = e] \in [1..Len(mon.q) -> Int]
    BY <2>1
  <2>3. QED
    BY <1>1, <2>2, SeqDef
<1>4. QED
  BY <1>1, <1>2, <1>3 DEF InTypes, Push

\* A record which is processed, and the others
LEMMA OneRecord ==
  ASSUME InTypes, NEW r \in Inputs, NEW x \in Record, rec' = [rec EXCEPT ![r] = x]
  PROVE  /\ rec' \in [Inputs -> Record] /\ rec'[r] = x
         /\ \A l \in Inputs : l # r => rec'[l] = rec[l]
BY DEF InTypes

\* Every step keeps the records of atomic links together, between two rounds
\* of the worker and, under its locks, during one.
LEMMA AtomicStep == AtomicInv /\ [Next]_vars => AtomicInv'
<1> SUFFICES ASSUME AtomicInv, [Next]_vars PROVE AtomicInv'
  OBVIOUS
<1>1. InTypes /\ Lists /\ Undisturbed /\ Updated
  BY DEF AtomicInv
\* steps of others: the subscription, output links, and the worker at rest
<1>2. ASSUME UNCHANGED <<root, connected, rec, links, links_changed, atomic_records, nonatomic_records, todo,
                         locked, once>>,
             rval' \in Int, mon' \in [open : BOOLEAN, q : Seq(Int), needNotify : BOOLEAN],
             pc' = pc \/ (pc # "atomic" /\ pc' \in {"idle", "exited"})
      PROVE  AtomicInv'
  <2>1. InTypes'
    BY <1>1, <1>2 DEF InTypes
  <2>2. Lists'
    BY <1>1, <1>2 DEF Lists
  <2>3. Undisturbed'
    BY <1>1, <1>2 DEF Undisturbed
  <2>4. \A l, v, valid : Holds(l, v, valid)' <=> Holds(l, v, valid)
    BY <1>2 DEF Holds
  <2>5. Updated'
    BY <1>1, <1>2, <2>4 DEF Updated, Holds
  <2>6. QED
    BY <2>1, <2>2, <2>3, <2>5 DEF AtomicInv
\* records and links which are not atomic
<1>3. ASSUME UNCHANGED <<rval, mon, root, connected, atomic_records, nonatomic_records, locked, pc>>,
             rec' \in [Inputs -> Record],
             \A l \in Together : rec'[l] = rec[l] /\ (l \in once' => l \in once),
             links' \subseteq DOMAIN Type, AtStart \subseteq links',
             links_changed' = links_changed \/ links_changed' = TRUE,
             todo' \subseteq todo, pc = "atomic" => todo' = todo
      PROVE  AtomicInv'
  <2>1. InTypes'
    BY <1>1, <1>3 DEF InTypes
  <2>2. Lists'
    BY <1>1, <1>3 DEF Lists
  <2>3. Undisturbed'
    BY <1>1, <1>3 DEF Undisturbed
  <2>4. \A l \in Together : \A v, valid : Holds(l, v, valid)' <=> Holds(l, v, valid)
    BY <1>3 DEF Holds
  <2>5. Updated'
    <3>1. CASE pc # "atomic"
      BY <1>1, <1>3, <2>4, <3>1 DEF Updated
    <3>2. CASE pc = "atomic"
      <4>1. todo' = todo /\ pc' = "atomic" /\ root' = root /\ connected' = connected
        BY <1>3, <3>2
      <4>2. \A l \in Together \ todo : Holds(l, root, connected)'
        BY <1>1, <2>4, <3>2, <4>1 DEF Updated
      <4>3. ~connected => \A l \in Together : rec'[l].val = root
        BY <1>1, <1>3, <3>2 DEF Updated
      <4>4. \/ locked = atomic_records
            \/ \E v \in Int, valid \in BOOLEAN : \A l \in Together : Holds(l, v, valid)'
        BY <1>1, <2>4, <3>2 DEF Updated
      <4>5. QED
        BY <1>3, <4>1, <4>2, <4>3, <4>4 DEF Updated
    <3>3. QED
      BY <3>1, <3>2
  <2>6. QED
    BY <2>1, <2>2, <2>3, <2>5 DEF AtomicInv
<1>4. rval \in Int /\ mon \in [open : BOOLEAN, q : Seq(Int), needNotify : BOOLEAN] /\ Gone \in Int /\ rval + 1 \in Int
  BY <1>1 DEF InTypes, Gone
<1>5. CASE Init_
  <2>1. mon' \in [open : BOOLEAN, q : Seq(Int), needNotify : BOOLEAN]
    <3>1. CASE up
      <4>1. mon' = [open |-> TRUE, q |-> <<rval>>, needNotify |-> FALSE] /\ <<rval>> \in Seq(Int)
        BY <1>4, <1>5, <3>1 DEF Init_
      <4>2. QED
        BY <4>1
    <3>2. CASE ~up
      BY <1>4, <1>5, <3>2 DEF Init_
    <3>3. QED
      BY <3>1, <3>2
  <2>2. QED
    BY <1>2, <1>4, <1>5, <2>1 DEF Init_, inVars
<1>6. CASE Close
  BY <1>2, <1>4, <1>6 DEF Close, inVars
<1>7. CASE Update \/ Connect \/ Lose
  <2>1. rval' \in Int /\ mon' \in [open : BOOLEAN, q : Seq(Int), needNotify : BOOLEAN]
    <3>1. CASE Update
      <4>1. rval' = rval + 1 /\ (Push(rval') \/ mon' = mon)
        BY <3>1 DEF Update
      <4>2. QED
        BY <1>1, <1>4, <4>1, PushTypes
    <3>2. CASE Connect
      <4>1. rval' = rval /\ (Push(rval) \/ mon' = mon)
        BY <3>2 DEF Connect
      <4>2. QED
        BY <1>1, <1>4, <4>1, PushTypes
    <3>3. CASE Lose
      <4>1. rval' = rval /\ (Push(Gone) \/ mon' = mon)
        BY <3>3 DEF Lose
      <4>2. QED
        BY <1>1, <1>4, <4>1, PushTypes
    <3>4. QED
      BY <1>7, <3>1, <3>2, <3>3
  <2>2. UNCHANGED <<inVars, rec, todo, locked, once, pc>>
    BY <1>7 DEF Update, Connect, Lose
  <2>3. QED
    BY <1>2, <2>1, <2>2 DEF inVars
<1>8. CASE RunDone \/ RunNull \/ AfterPut
  <2>1. UNCHANGED <<rval, mon, inVars, rec, todo, locked, once>> /\ pc # "atomic" /\ pc' \in {"idle", "exited"}
    BY <1>8 DEF RunDone, RunNull, AfterPut
  <2>2. QED
    BY <1>2, <1>4, <2>1 DEF inVars
<1>9. CASE Client
  BY <1>2, <1>4, <1>9 DEF Client, BuildPut, PutDone, Cancelled, Receive, inVars
<1>10. CASE \E l \in DOMAIN Type : ScanForward(l)
  BY <1>2, <1>4, <1>10 DEF ScanForward, inVars
<1>11. CASE \E l \in Outs, wait \in BOOLEAN : Write(l, wait)
  BY <1>2, <1>4, <1>11 DEF Write, inVars
<1>12. CASE UNCHANGED vars
  BY <1>2, <1>4, <1>12 DEF vars, inVars
<1>13. ASSUME NEW r \in Of("INLINK"), ScanOnce(r) PROVE AtomicInv'
  <2> DEFINE x == IF rec[r].pact THEN rec[r] ELSE Processed(r)
  <2>1. r \in Inputs /\ x \in Record /\ r \in once
    BY <1>1, <1>13, RecordTypes DEF ScanOnce, Inputs
  <2>2. once' = once \ {r} /\ UNCHANGED <<rval, mon, inVars, locked, pc, todo>> /\ rec' = [rec EXCEPT ![r] = x]
    BY <1>13 DEF ScanOnce
  <2> HIDE DEF x
  <2>3. rec' \in [Inputs -> Record] /\ \A l \in Inputs : l # r => rec'[l] = rec[l]
    BY <1>1, <2>1, <2>2, OneRecord
  <2>4. r \notin Together
    BY <1>1, <2>1 DEF Undisturbed
  <2>5. \A l \in Together : rec'[l] = rec[l] /\ (l \in once' => l \in once)
    BY <1>1, <2>2, <2>3, <2>4, TogetherFacts
  <2>6. links \subseteq DOMAIN Type /\ AtStart \subseteq links
    BY <1>1 DEF InTypes
  <2>7. QED
    BY <1>3, <2>2, <2>3, <2>5, <2>6 DEF inVars
<1>14. ASSUME NEW r \in Of("INLINK"), Complete(r) PROVE AtomicInv'
  <2> DEFINE x == [rec[r] EXCEPT !.pact = FALSE, !.rpro = FALSE]
  <2>1. r \in Inputs /\ rec[r] \in Record /\ rec[r].pact
    BY <1>1, <1>14, RecordTypes DEF Complete, Inputs
  <2>2. x \in Record
    BY <2>1 DEF Record
  <2>3. once' \subseteq once \cup {r} /\ UNCHANGED <<rval, mon, inVars, locked, pc, todo>>
    BY <1>14 DEF Complete
  <2>4. rec' = [rec EXCEPT ![r] = x]
    BY <1>1, <1>14, <2>1 DEF Complete, InTypes
  <2> HIDE DEF x
  <2>5. rec' \in [Inputs -> Record] /\ \A l \in Inputs : l # r => rec'[l] = rec[l]
    BY <1>1, <2>1, <2>2, <2>4, OneRecord
  <2>6. r \notin Together
    BY <1>1, <2>1 DEF Undisturbed
  <2>7. \A l \in Together : rec'[l] = rec[l] /\ (l \in once' => l \in once)
    BY <1>1, <2>3, <2>5, <2>6, TogetherFacts
  <2>8. links \subseteq DOMAIN Type /\ AtStart \subseteq links
    BY <1>1 DEF InTypes
  <2>9. QED
    BY <1>3, <2>3, <2>5, <2>7, <2>8 DEF inVars
<1>15. ASSUME NEW k \in DOMAIN Type, PvaOpenLink(k) PROVE AtomicInv'
  <2>1. /\ k \notin links /\ links' = links \cup {k} /\ links_changed' = TRUE /\ once' \subseteq once \cup {k}
        /\ UNCHANGED <<rval, mon, root, connected, atomic_records, nonatomic_records, pc, todo, locked, rec>>
    BY <1>15 DEF PvaOpenLink
  <2>2. rec' \in [Inputs -> Record] /\ links' \subseteq DOMAIN Type /\ AtStart \subseteq links'
    BY <1>1, <2>1 DEF InTypes
  <2>3. \A l \in Together : rec'[l] = rec[l] /\ (l \in once' => l \in once)
    BY <1>1, <2>1, TogetherFacts
  <2>4. QED
    BY <1>3, <2>1, <2>2, <2>3
<1>16. ASSUME NEW k \in DOMAIN Type, PvaRemoveLink(k) PROVE AtomicInv'
  <2>1. /\ k \in links \ AtStart /\ links' = links \ {k} /\ links_changed' = TRUE
        /\ UNCHANGED <<rval, mon, root, connected, atomic_records, nonatomic_records, pc, todo, locked, rec, once>>
    BY <1>16 DEF PvaRemoveLink
  <2>2. rec' \in [Inputs -> Record] /\ links' \subseteq DOMAIN Type /\ AtStart \subseteq links'
    BY <1>1, <2>1 DEF InTypes
  <2>3. QED
    BY <1>3, <2>1, <2>2
<1>17. CASE ScanNonAtomic
  <2>1. PICK r \in todo : rec' = [rec EXCEPT ![r] = Scan(r)] /\ todo' = todo \ {r}
    BY <1>17 DEF ScanNonAtomic, ScanNext
  <2>2. pc = "nonatomic" /\ UNCHANGED <<rval, mon, inVars, pc, locked, once>>
    BY <1>17 DEF ScanNonAtomic
  <2>3. r \in Inputs /\ ~Config[r].atomic
    BY <1>1, <2>2 DEF Lists
  <2>4. r \notin Together
    BY <2>3 DEF Together
  <2>5. Scan(r) \in Record
    BY <1>1, <2>3, RecordTypes
  <2>6. rec' \in [Inputs -> Record] /\ \A l \in Inputs : l # r => rec'[l] = rec[l]
    BY <1>1, <2>1, <2>3, <2>5, OneRecord
  <2>7. \A l \in Together : rec'[l] = rec[l]
    BY <1>1, <2>4, <2>6, TogetherFacts
  <2>8. links \subseteq DOMAIN Type /\ AtStart \subseteq links
    BY <1>1 DEF InTypes
  <2>9. QED
    BY <1>3, <2>1, <2>2, <2>6, <2>7, <2>8 DEF inVars
\* the worker
<1>18. CASE RunPop
  <2>1. pc = "idle" /\ UNCHANGED <<rval, rec, once, links>>
    BY <1>18 DEF RunPop, inVars
  <2>2. CASE mon.q = <<>>
    <3>1. /\ mon' = [mon EXCEPT !.needNotify = TRUE] /\ pc' \in {"idle", "exited"}
          /\ UNCHANGED <<inVars, todo, locked>>
      BY <1>18, <2>2 DEF RunPop
    <3>2. QED
      BY <1>2, <1>4, <2>1, <3>1 DEF inVars
  <2>3. CASE mon.q # <<>>
    <3>1. /\ mon' = [mon EXCEPT !.q = Tail(@)] /\ Popped(Head(mon.q))
          /\ links_changed' = FALSE /\ pc' = "atomic" /\ todo' = atomic_records' /\ locked' = {}
          /\ \/ atomic_records' = Tracks(links, TRUE) /\ nonatomic_records' = Tracks(links, FALSE)
             \/ ~links_changed /\ UNCHANGED <<atomic_records, nonatomic_records>>
      BY <1>18, <2>3 DEF RunPop
    <3>2. mon.q \in Seq(Int) /\ Tail(mon.q) \in Seq(Int) /\ Head(mon.q) \in Int
      BY <1>4, <2>3
    <3>3. \/ connected' = TRUE /\ root' = Head(mon.q)
          \/ connected' = FALSE /\ root' = root
      BY <3>1 DEF Popped
    <3>4. InTypes'
      <4>1. mon' \in [open : BOOLEAN, q : Seq(Int), needNotify : BOOLEAN]
        BY <1>4, <3>1, <3>2
      <4>2. root' \in Int /\ connected' \in BOOLEAN
        BY <1>1, <3>2, <3>3 DEF InTypes
      <4>3. QED
        BY <1>1, <2>1, <4>1, <4>2 DEF InTypes
    <3>5. Lists'
      <4>1. CASE atomic_records' = Tracks(links, TRUE) /\ nonatomic_records' = Tracks(links, FALSE)
        <5>1. \A l \in links : Scanned(l) # "no" => l \in Inputs
          BY <1>1 DEF InTypes, Scanned, ScanOnUpdate, Inputs, Of
        <5>2. atomic_records' \subseteq Inputs /\ nonatomic_records' \subseteq Inputs
          BY <4>1, <5>1 DEF Tracks
        <5>3. \A l \in nonatomic_records' : ~Config[l].atomic
          BY <4>1 DEF Tracks
        <5>4. Together \subseteq atomic_records'
          BY <1>1, <4>1, TogetherFacts DEF Tracks
        <5>5. QED
          BY <3>1, <5>2, <5>3, <5>4 DEF Lists
      <4>2. CASE ~links_changed /\ UNCHANGED <<atomic_records, nonatomic_records>>
        BY <1>1, <3>1, <4>2 DEF Lists
      <4>3. QED
        BY <3>1, <4>1, <4>2
    <3>6. Undisturbed'
      BY <1>1, <2>1 DEF Undisturbed
    <3>7. Updated'
      <4>1. \A l \in Together : Holds(l, root, connected)
        BY <1>1, <2>1 DEF Updated
      <4>2. root \in Int /\ connected \in BOOLEAN
        BY <1>1 DEF InTypes
      <4>3. \E v \in Int, valid \in BOOLEAN : \A l \in Together : rec'[l].val = v
              /\ rec'[l].sevr = IF valid THEN PassedOn(Config[l], Severity[v]) ELSE 3
        BY <2>1, <4>1, <4>2 DEF Holds
      <4>4. ~connected' => \A l \in Together : rec'[l].val = root'
        BY <2>1, <3>3, <4>1 DEF Holds
      <4>5. Together \ todo' = {}
        BY <3>1, <3>5 DEF Lists
      <4>6. QED
        BY <3>1, <4>3, <4>4, <4>5 DEF Updated, Holds
    <3>8. QED
      BY <3>4, <3>5, <3>6, <3>7 DEF AtomicInv
  <2>4. QED
    BY <2>2, <2>3
<1>19. CASE ScanAtomic
  <2>1. PICK r \in todo : rec' = [rec EXCEPT ![r] = Scan(r)] /\ todo' = todo \ {r}
    BY <1>19 DEF ScanAtomic, ScanNext
  <2>2. pc = "atomic" /\ locked' = atomic_records /\ UNCHANGED <<rval, mon, inVars, pc, once>>
    BY <1>19 DEF ScanAtomic
  <2>3. r \in Inputs /\ Scan(r) \in Record
    BY <1>1, <2>2, RecordTypes DEF Lists
  <2>4. rec' \in [Inputs -> Record] /\ rec'[r] = Scan(r) /\ \A l \in Inputs : l # r => rec'[l] = rec[l]
    BY <1>1, <2>1, <2>3, OneRecord
  <2>5. InTypes'
    BY <1>1, <2>2, <2>4 DEF InTypes, inVars
  <2>6. Lists'
    BY <1>1, <2>1, <2>2 DEF Lists, inVars
  <2>7. Undisturbed'
    <3>1. SUFFICES ASSUME NEW l \in Together PROVE rec'[l].pact = FALSE /\ l \notin once'
      BY DEF Undisturbed
    <3>2. l \in Inputs /\ (l = r => Scan(l).pact = FALSE)
      BY <1>1, TogetherFacts, ScanTogether
    <3>3. QED
      BY <1>1, <2>2, <2>4, <3>2 DEF Undisturbed
  <2>8. Updated'
    <3>1. \A l \in Together : ~connected => rec[l].val = root
      BY <1>1, <2>2 DEF Updated
    <3>2. ASSUME NEW l \in Together
          PROVE  (~connected => rec'[l].val = root) /\ (l \notin todo' => Holds(l, root, connected)')
      <4>1. root' = root /\ connected' = connected /\ l \in Inputs
        BY <1>1, <2>2, TogetherFacts DEF inVars
      <4>2. CASE l = r
        <5>1. /\ Scan(l).val = IF connected THEN root ELSE rec[l].val
              /\ Scan(l).sevr = IF connected THEN PassedOn(Config[l], Severity[root]) ELSE 3
          BY <1>1, ScanTogether
        <5>2. rec'[l].val = root /\ rec'[l].sevr = IF connected THEN PassedOn(Config[l], Severity[root]) ELSE 3
          BY <2>4, <3>1, <4>2, <5>1
        <5>3. QED
          BY <4>1, <5>2 DEF Holds
      <4>3. CASE l # r
        <5>1. rec'[l] = rec[l] /\ (l \notin todo' => l \notin todo)
          BY <2>1, <2>4, <4>1, <4>3
        <5>2. l \notin todo => Holds(l, root, connected)
          BY <1>1, <2>2 DEF Updated
        <5>3. QED
          BY <3>1, <4>1, <5>1, <5>2 DEF Holds
      <4>4. QED
        BY <4>2, <4>3
    <3>3. QED
      BY <2>2, <3>2 DEF Updated, inVars
  <2>9. QED
    BY <2>5, <2>6, <2>7, <2>8 DEF AtomicInv
<1>20. CASE UnlockAtomic
  <2>1. /\ pc = "atomic" /\ todo = {} /\ pc' = "nonatomic" /\ todo' = nonatomic_records
        /\ UNCHANGED <<rval, mon, inVars, rec, once>>
    BY <1>20 DEF UnlockAtomic
  <2>2. InTypes'
    BY <1>1, <2>1 DEF InTypes, inVars
  <2>3. Lists'
    BY <1>1, <2>1 DEF Lists, inVars
  <2>4. Undisturbed'
    BY <1>1, <2>1 DEF Undisturbed
  <2>5. \A l \in Together : Holds(l, root, connected)
    BY <1>1, <2>1 DEF Updated
  <2>6. Updated'
    BY <2>1, <2>5 DEF Updated, Holds, inVars
  <2>7. QED
    BY <2>2, <2>3, <2>4, <2>6 DEF AtomicInv
<1>21. QED
  BY <1>5, <1>6, <1>7, <1>8, <1>9, <1>10, <1>11, <1>12, <1>13, <1>14, <1>15, <1>16, <1>17, <1>18, <1>19, <1>20
     DEF Next, Worker, Scans

\* What AtomicTogether says, for any links and records, and any number of
\* updates, losses and links which come and go: whoever locks records of
\* atomic links finds them as pvaLinkChannel::run() leaves them for one update.
THEOREM AtomicAlwaysTogether == Spec => []AtomicTogether
<1>1. AtomicInv => AtomicTogether
  <2>1. SUFFICES ASSUME AtomicInv, NEW a \in Together, NEW b \in Together, {a, b} \cap locked = {}
                 PROVE  \E valid \in BOOLEAN : Holds(a, rec[a].val, valid) /\ Holds(b, rec[a].val, valid)
    BY DEF AtomicTogether
  <2>2. Lists /\ Updated /\ connected \in BOOLEAN /\ root \in Int
    BY <2>1 DEF AtomicInv, InTypes
  <2>3. PICK v \in Int, valid \in BOOLEAN : Holds(a, v, valid) /\ Holds(b, v, valid)
    <3>1. CASE pc # "atomic"
      BY <2>2, <3>1 DEF Updated
    <3>2. CASE pc = "atomic"
      <4>1. locked # atomic_records
        BY <2>1, <2>2, <3>2 DEF Lists
      <4>2. QED
        BY <2>2, <3>2, <4>1 DEF Updated
    <3>3. QED
      BY <3>1, <3>2
  <2>4. v = rec[a].val
    BY <2>3 DEF Holds
  <2>5. QED
    BY <2>3, <2>4
<1>2. QED
  BY <1>1, AtomicInit, AtomicStep, PTL DEF Spec
=============================================================================
