----------------------------- MODULE DataSystem -----------------------------
(***************************************************************************)
(* The data path: types, values and their encoding, the framing of the     *)
(* messages that carry them, and the flow of updates from a PV to its      *)
(* subscribers.  A behaviour is about one of them, which its initial state *)
(* chooses: "frame", "flow", or one input of the algorithms ("probe").     *)
(***************************************************************************)
EXTENDS ValueFlow, Framing

CONSTANTS MaxUpdates,       \* bound on updates and connections of a behaviour
          Scripts,          \* sequences of frames a peer may send
          FlowType,         \* type tree of the PV
          FlowDeltas,       \* updates the application may post
          Deltas,           \* updates to copy and to encode
          Requests,         \* for each subscription the tokens of its pvRequest
          TypeTrees,        \* type trees to encode
          MaskSizes,        \* sizes of masks to encode
          Sizes,            \* numbers to encode as a Size
          Exprs             \* pvRequest expressions to evaluate against FlowType

VARIABLES part, script, probe

vars == <<part, script, probe, frameVars, flowVars>>

FlowDescs == BuildTree(FlowType)
MaskFor(tokens) == Request2Mask(FlowDescs, FieldOf(BuildReq(Parse(tokens, NoReq)))).mask

NoProbe == [k |-> "none"]
Probes ==
    {[k |-> "type", t |-> t] : t \in TypeTrees}
    \cup {[k |-> "delta", d |-> d] : d \in Deltas}
    \cup UNION {{[k |-> "mask", n |-> n, bits |-> b, be |-> e] : b \in SUBSET (0..(n - 1)), e \in BOOLEAN} : n \in MaskSizes}
    \cup {[k |-> "size", n |-> n, be |-> e] : n \in Sizes, e \in BOOLEAN}
    \cup {[k |-> "expr", e |-> e] : e \in Exprs}

Init ==
    /\ FlowInit(FlowDescs, Create(FlowDescs), [s \in Subs |-> MaskFor(Requests[s])])
    /\ \/ part = "frame" /\ script \in Scripts /\ probe = NoProbe
       \/ part = "flow" /\ script = <<>> /\ probe = NoProbe
       \/ part = "probe" /\ script = <<>> /\ probe \in Probes
    /\ FrameInit(script)

Frame == part = "frame" /\ FrameNext /\ UNCHANGED flowVars
Flow == part = "flow" /\ FlowNext(FlowDeltas, MaxUpdates) /\ UNCHANGED frameVars
Next == (Frame \/ Flow) /\ UNCHANGED <<part, script, probe>>

Spec == Init /\ [][Next]_vars /\ WF_vars(part = "frame" /\ (\E n \in 1..Len(sock) : Receive(n)) /\ UNCHANGED <<part, script, probe, flowVars>>)
-----------------------------------------------------------------------------
(***************************************************************************)
(* Framing                                                                 *)
(***************************************************************************)
\* The messages of the frames before the first that breaks the protocol.
RECURSIVE MessagesOf(_, _)
MessagesOf(frames, body) ==
    IF frames = <<>> \/ ~Head(frames).good THEN <<>>
    ELSE LET f == Head(frames)
         IN  CASE f.ctrl -> MessagesOf(Tail(frames), body)
               [] f.seg \in {"None", "Last"} ->
                    << [cmd |-> f.cmd, body |-> body \o f.body]>> \o MessagesOf(Tail(frames), <<>>)
               [] OTHER -> MessagesOf(Tail(frames), body \o f.body)

\* However the network cuts the stream into chunks and the peer its messages into
\* segments, handlers are given the peer's messages whole, once, in the order sent
\* (ConnBase::bevRead()).
WholeInOrder == IsPrefix(handled, MessagesOf(script, <<>>))

\* Every message is handled unless the connection is lost: no watermark keeps
\* libevent from reading the rest of a message, however long it is.
ReadProgress == [](part = "frame" => <>(~conn.up \/ handled = MessagesOf(script, <<>>)))
-----------------------------------------------------------------------------
(***************************************************************************)
(* Flow                                                                    *)
(***************************************************************************)
\* The content of field i of a value, without marks.
RECURSIVE Content(_, _)
Content(val, i) ==
    IF StoredAs(val.d[i].code) # "Compound" THEN val.s[i].v
    ELSE [k \in 1..Len(val.s[i].v) |->
            LET held == val.s[i].v[k] IN <<held.idx, [j \in Fields(held.val) |-> Content(held.val, j)]>>]

Leaf(i) == FlowDescs[i].code # "Struct"
Selected(s, i) == Leaf(i) /\ Bit(sub[s].mask, i - 1)
Drained(s) == sub[s].up /\ sub[s].queue = <<>> /\ sub[s].cqueue = <<>>

\* Once a subscriber has popped everything, the last value it popped, and what it
\* collected from the marked fields alone, both agree with the PV on every field it
\* asked for, whatever was squashed on the way, at either end, in entries that
\* several queues share.
UpdatesAgree ==
    \A s \in Subs : Drained(s) =>
        \A i \in DOMAIN FlowDescs : Selected(s, i) =>
            /\ Content(sub[s].last, i) = Content(current, i)
            /\ Content(sub[s].seen, i) = Content(current, i)
-----------------------------------------------------------------------------
(***************************************************************************)
(* Algorithms                                                              *)
(***************************************************************************)
\* The paths of all fields of a tree, in the order of the flat array.
RECURSIVE Paths(_, _)
Paths(node, path) ==
    << path>> \o (IF node.code = "Struct"
                  THEN FlattenSeq([k \in 1..Len(node.kids) |-> Paths(node.kids[k], Append(path, node.kids[k].name))])
                  ELSE <<>>)

\* A type survives being laid out and read back, being sent, and being sent by a
\* peer that names types and refers to them again; a field is found by its path at
\* its place in the tree (build_tree(), copy_tree(), to_wire(), from_wire()).
TypesAgree ==
    probe.k = "type" =>
        LET descs == BuildTree(probe.t)
            wire == TypeFromWire(TypeToWire(descs, 0), <<>>, 0)
            named == TypeFromWire(PeerToWire(probe.t, <<>>).wire, <<>>, 0)
            paths == Paths(probe.t, <<>>)
        IN  /\ Valid(probe.t)
            /\ CopyTree(descs, 0, "") = probe.t
            /\ wire.ok /\ wire.descs = descs /\ wire.rest = <<>>
            /\ named.ok /\ named.descs = descs /\ named.rest = <<>>
            /\ Len(paths) = Len(descs)
            /\ \A i \in 2..Len(paths) : Lookup(Create(descs), paths[i]) = i /\ NameOf(Create(descs), i) = paths[i]

\* Masks and sizes survive encoding, at the edges of bytes and words and in either
\* byte order, with no byte more than needed (to_wire(), from_wire(), findSet()).
PrimitivesAgree ==
    /\ probe.k = "mask" =>
        LET mask == MaskOf(probe.bits, probe.n)
            w == MaskToWire(mask, probe.be)
            r == MaskFromWire(w \o <<99>>, probe.be)
            back == Resize(r.val, probe.n)
            bits == OnlySet(mask, 0)
        IN  /\ r.ok /\ r.rest = <<99>>
            /\ \A b \in 0..(probe.n - 1) : Bit(back, b) <=> b \in probe.bits
            /\ w[1] = (IF probe.bits = {} THEN 0 ELSE Max(probe.bits) \div ByteBits + 1)
            /\ ToSet(bits) = probe.bits
            /\ \A i, j \in 1..Len(bits) : i < j => bits[i] < bits[j]
    /\ probe.k = "size" =>
        LET r == SizeFromWire(SizeToWire(probe.n, probe.be) \o <<99>>, probe.be, FALSE)
            sts == [code |-> probe.n % 4, msg |-> [k \in 1..(probe.n % 300) |-> k], trace |-> <<>>]
            s == StatusFromWire(StatusToWire(sts, probe.be) \o <<99>>, probe.be)
        IN  /\ r.ok /\ r.val = probe.n /\ r.rest = <<99>>
            /\ s.ok /\ s.val = sts /\ s.rest = <<99>>

\* A pvRequest expression selects every leaf at or below a path it names, and no
\* other unless it names none that exists (PVRParser, request2mask()).
SelectionAgrees ==
    probe.k = "expr" =>
        LET req == Parse(probe.e, NoReq)
            r == Request2Mask(FlowDescs, FieldOf(BuildReq(req)))
            paths == Paths(FlowType, <<>>)
            asked == {probe.e[k].path : k \in {j \in 1..Len(probe.e) :
                        probe.e[j].t = "name" /\ (j = Len(probe.e) \/ probe.e[j + 1].t # "=")
                                              /\ (j = 1 \/ probe.e[j - 1].t # "=")}}
            under(i) == \E a \in asked : IsPrefix(a, paths[i]) /\ \A b \in asked : ~IsStrictPrefix(a, b)
        IN  req.ok /\ r.ok =>
                \A i \in DOMAIN FlowDescs : Leaf(i) => (Bit(r.mask, i - 1) <=> (asked = {} \/ under(i)))

\* Copying a value, and sending and decoding it, both give every marked leaf, and
\* nothing else (Value::clone(), imarked(), to_wire_valid(), from_wire_valid()).
CopiesAgree ==
    probe.k = "delta" =>
        LET val == probe.d
            n == Len(val.d)
            r == ValidFromWire(Create(val.d), ValidToWire(val, MaskOf(0..(n - 1), n)), <<>>)
            copy == Clone(val)
            good(v) == \A i \in Fields(val) : Leaf(i) =>
                          Content(v, i) = (IF IsMarked(val, i, TRUE, FALSE) THEN Content(val, i) ELSE Zero(val.d[i].code))
        IN  copy.ok /\ good(copy.val) /\ r.ok /\ r.rest = <<>> /\ good(r.val)

\* The algorithms of types, encodings, pvRequests and marked values agree with
\* their reference definitions, on every probe.
AlgorithmsAgree == TypesAgree /\ PrimitivesAgree /\ SelectionAgrees /\ CopiesAgree
=============================================================================
