------------------------------- MODULE MCData -------------------------------
(* Instances of DataSystem for TLC. *)
EXTENDS DataSystem

\* A PV of a structure, an integer and a union; one subscriber asks for all of it,
\* the other for part of the structure and the union.
MCFlowType ==
    Member("Struct", "", <<
        Member("Struct", "a", <<Member("Int8", "x", <<>>), Member("Bool", "y", <<>>)>>),
        Member("Int64", "n", <<>>),
        Member("Union", "u", <<Member("Int64", "i", <<>>), Member("Struct", "s", <<Member("String", "w", <<>>)>>)>>)>>)

New == Create(BuildTree(MCFlowType))
Put(val, i, st, src) == CopyIn(val, i, st, src).val
\* x; y and n; the structure as a whole; the union, each of its choices
MCFlowDeltas == {
    Put(New, 3, "Integer", <<1>>),
    Put(Put(New, 4, "Bool", <<TRUE>>), 5, "Integer", <<7>>),
    Mark([New EXCEPT !.s[3].v = <<5>>], 2),
    Put(New, 6, "Integer", <<3>>)}
MCDeltas == MCFlowDeltas \cup {
    New, Put(New, 3, "Integer", <<300>>), Put(New, 4, "String", <<Word("true")>>),
    Put(Put(New, 5, "String", <<Num(12)>>), 6, "Compound",
        <<Put(Create(BuildTree(MCFlowType.kids[3].kids[2])), 2, "String", <<Word("w")>>)>>)}

N(path) == [t |-> "name", path |-> path]
P(t) == [t |-> t, path |-> <<>>]
MCRequests == [s \in {1, 2} |-> IF s = 1 THEN <<>> ELSE <<P("field"), P("("), N(<<"a", "x">>), P(","), N(<<"u">>), P(")")>>]
MCExprs == {<<>>, <<N(<<"a">>)>>, <<N(<<"a", "y">>), N(<<"n">>)>>,
    <<P("field"), P("("), P(")")>>,
    <<P("field"), P("("), N(<<"a", "x">>), P(","), N(<<"a", "y">>), P(")")>>,
    <<P("field"), P("("), N(<<"u">>), P(")"), P("record"), P("["), N(<<"n">>), P("="), N(<<"1">>), P("]")>>,
    <<P("record"), P("["), N(<<"q">>), P("="), N(<<"1">>), P(","), N(<<"r">>), P("="), N(<<"2">>), P("]"), N(<<"n">>)>>,
    <<N(<<"z">>), N(<<"n">>)>>, <<N(<<"z">>)>>, <<P("field"), N(<<"a">>)>>,
    <<P("record"), P("["), N(<<"q">>), P("]")>>}

F(cmd, seg, body) == [ctrl |-> FALSE, good |-> TRUE, cmd |-> cmd, seg |-> seg, body |-> body]
Ctrl == [ctrl |-> TRUE, good |-> TRUE, cmd |-> "SetMSB", seg |-> "None", body |-> <<>>]
MCScripts == {
    <<Ctrl, F("get", "None", <<"1">>), F("put", "None", <<>>), F("get", "None", <<"2", "3", "4", "5", "6", "7">>)>>,
    <<F("put", "First", <<"1", "2">>), Ctrl, F("put", "Mid", <<>>), F("put", "Last", <<"3">>), F("get", "None", <<"4">>)>>,
    <<F("get", "None", <<"1">>), [F("get", "None", <<"2">>) EXCEPT !.good = FALSE], F("put", "None", <<"3">>)>>,
    <<F("get", "None", <<"bad">>), F("put", "None", <<"3">>)>>}

MCTypeTrees == {MCFlowType, Member("Int64A", "", <<>>), Member("Struct", "", <<>>),
    Member("Struct", "", <<
        Member("StructA", "p", <<Member("Struct", "q", <<Member("Int64", "r", <<>>)>>)>>),
        Member("Struct", "b", <<Member("Struct", "c", <<Member("Int8", "d", <<>>), Member("Any", "e", <<>>)>>), Member("Bool", "f", <<>>)>>),
        Member("Struct", "c", <<Member("Int8", "d", <<>>), Member("Any", "e", <<>>)>>),
        Member("UnionA", "g", <<Member("Struct", "h", <<Member("Int8", "d", <<>>), Member("Any", "e", <<>>)>>), Member("String", "i", <<>>)>>)>>)}

MCMaskSizes == {1, 4, 5, 9}
MCSizes == {0, 1, 253, 254, 255, 256, 65535, 16777216, 2147483646}
=============================================================================
