------------------------------- MODULE MCQsrv -------------------------------
(***************************************************************************)
(* Records A, B and T of a group grp, of which A and B are written and T   *)
(* refreshes everything; S, which completes later; D which may not be      *)
(* written and X which is put-disabled.                                    *)
(***************************************************************************)
EXTENDS QsrvSystem

MCRecords == {"A", "B", "T", "S", "D", "X"}
MCLockSet == [r \in MCRecords |-> IF r = "T" THEN "B" ELSE r]
MCNameOrder == <<NoName, "a", "b", "c", "d", "t", "x">>

Fld(n, keys) == [name |-> n, keys |-> keys]
Opt(n, v) == [name |-> n, value |-> v]
Grp(g, fields) == [group |-> g, fields |-> fields]
Doc(tree) == [tree |-> tree, tail |-> <<>>]
Info(r, tree, tail) == [rec |-> r, tree |-> tree, tail |-> tail]
In(r) == <<"+channel", <<r, "VAL">>>>
Val == <<"+channel", "VAL">>
Order(n) == <<"+putorder", n>>
Type(t) == <<"+type", t>>
Trig(s) == <<"+trigger", s>>

MCInfoDocs ==
  <<Info("A", <<Grp("grp", <<Fld("a", <<Val, Order(2)>>)>>)>>, <<>>),
    Info("B", <<Grp("grp", <<Fld("b", <<Val, Type("plain"), Order(1)>>), Opt("+atomic", FALSE)>>),
                Grp("none", <<Fld("b", <<Order(1)>>)>>),
                Grp("A", <<Fld("b", <<Val>>)>>)>>, <<Tok("syntax", 0)>>),
    Info("T", <<Grp("grp", <<Opt("+atomic", TRUE),
                             Fld("t", <<Type("plain"), Val, Trig(<<"a", "b", "t", "gone", "c">>)>>),
                             Fld("a", <<Trig(<<"a">>), Type("nonsense")>>),
                             Fld("c", <<Type("const")>>)>>)>>, <<>>)>>

MCFileDocs ==
  [f \in {"deny", "late", "broken", "abort"} |->
     CASE f = "deny" -> Doc(<<Grp("deny", <<Opt("+atomic", FALSE), Fld("a", <<In("A"), Type("any"), Order(0)>>), Fld("d", <<In("D"), Order(1)>>),
                                            Fld("t", <<In("T"), Type("proc")>>)>>),
                             Grp("dis", <<Fld("x", <<In("X"), Order(1)>>)>>),
                             Grp("meta", <<Fld(NoName, <<In("T"), Type("meta")>>), Fld("b", <<In("B"), Trig(<<"*">>)>>), Fld("d", <<Type("structure")>>)>>)>>)
       [] f = "late" -> Doc(<<Grp("deny", <<Opt("+atomic", TRUE), Fld("a", <<Order(5)>>)>>),
                              Grp("lost", <<Fld("a", <<In("A")>>), Fld("b", <<In("gone")>>)>>)>>)
       [] f = "broken" -> [tree |-> <<Grp("b", <<Fld("b", <<In("B")>>)>>)>>, tail |-> <<Tok("syntax", 0)>>]
       [] f = "abort" -> [tree |-> <<>>, tail |-> <<Tok("key", "g"), Start, Tok("key", "f"), Start, Tok("key", "+putorder"), Tok("bad", 0), End>>]]

MCInfos == [i \in DOMAIN MCInfoDocs |-> [rec |-> MCInfoDocs[i].rec, text |-> TextOf(MCInfoDocs[i])]]
MCFiles == [f \in DOMAIN MCFileDocs |-> TextOf(MCFileDocs[f])]

Nothing ==
  [load |-> 0, files |-> {}, reset |-> 0, targets |-> {}, scan |-> 0, scans |-> {}, prop |-> 0, props |-> {}, forces |-> {"unset"},
   get |-> 0, put |-> 0, sub |-> 0, start |-> 0, stop |-> 0, sput |-> 0, sget |-> 0, ssub |-> 0, sstart |-> 0, sstop |-> 0, dbes |-> {{}}, srec |-> "S"]

Loads == [Nothing EXCEPT !.load = 3, !.files = {"deny", "late", "broken", "abort"}, !.reset = 1]
Gets == [Nothing EXCEPT !.targets = {"grp"}, !.get = 1, !.scan = 3, !.scans = {{"A"}, {"B", "T"}}]
Puts == [Nothing EXCEPT !.targets = {"grp"}, !.put = 1, !.scan = 2, !.scans = {{"A"}, {"B", "T"}}, !.forces = {"true", "false", "unset"}]
Denies == [Nothing EXCEPT !.load = 1, !.files = {"deny"}, !.targets = {"deny", "dis"}, !.put = 1, !.scan = 1, !.scans = {{"A"}}]
Subs == [Nothing EXCEPT !.targets = {"grp"}, !.sub = 1, !.start = 2, !.stop = 1, !.scan = 1, !.scans = {{"A"}, {"B", "T"}}, !.prop = 1, !.props = {"A"}]
SubPut == [Nothing EXCEPT !.targets = {"grp"}, !.sub = 1, !.start = 1, !.scan = 1, !.scans = {{"B", "T"}}, !.put = 1]
Metas == [Nothing EXCEPT !.load = 1, !.files = {"deny"}, !.targets = {"meta"}, !.sub = 1, !.start = 1, !.scan = 2, !.scans = {{"B", "T"}}]
SinglePuts == [Nothing EXCEPT !.scan = 1, !.scans = {{"S"}}, !.forces = {"true", "false", "unset"}, !.sput = 2, !.sget = 1, !.ssub = 1, !.sstart = 1]
SingleSync == [Nothing EXCEPT !.scan = 1, !.scans = {{"A"}}, !.sput = 1, !.ssub = 1, !.sstart = 1, !.srec = "A"]
SingleDenied == [Nothing EXCEPT !.sput = 1, !.srec = "D"]
SingleSubs == [Nothing EXCEPT !.scan = 2, !.scans = {{"S"}}, !.prop = 1, !.props = {"S"},
                 !.ssub = 1, !.sstart = 2, !.sstop = 1, !.dbes = {{}, {"alarm"}, {"archive", "property"}}]

MCBudgets == {Loads, Gets, Puts, Denies, Subs, SubPut, Metas, SinglePuts, SingleSync, SingleDenied, SingleSubs}
=============================================================================
