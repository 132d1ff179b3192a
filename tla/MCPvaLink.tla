------------------------------ MODULE MCPvaLink ------------------------------
(***************************************************************************)
(* Links of one record each: a, b with atomic CP, c which comes and goes   *)
(* and completes asynchronously, d which is read but processed by nobody,  *)
(* o1 deferred, o2 written after it, and a forward link f.                 *)
(***************************************************************************)
EXTENDS PvaLink

Item(k, t, v) == [depth |-> 1, key |-> k, t |-> t, v |-> v]
Nested(k, t, v) == [Item(k, t, v) EXCEPT !.depth = 2]
PV == Item("pv", "str", "target")

TextOf(l) ==
  <<PV, Item("Q", "int", 2)>> \o
  (CASE l = "a" -> <<Item("proc", "str", "CP"), Item("atomic", "bool", TRUE), Item("monorder", "int", 1), Item("sevr", "str", "MSS")>>
     [] l = "b" -> <<Item("proc", "str", "CPP"), Item("atomic", "bool", TRUE), Nested("proc", "str", "NPP"), Item("sevr", "str", "MSI")>>
     [] l = "c" -> <<Item("proc", "bool", TRUE), Item("proc", "str", "CP"), Item("sevr", "bool", TRUE)>>
     [] l = "d" -> <<Item("proc", "str", "CP"), Item("proc", "null", 0)>>
     [] l = "o1" -> <<Item("defer", "bool", TRUE)>>
     [] l = "o2" -> <<Item("monorder", "int", 5000), Item("retry", "bool", TRUE)>>
     [] l = "f" -> <<>>)

MCLinks == {"a", "b", "c", "d", "o1", "o2", "f"}
MCText == [l \in MCLinks |-> TextOf(l)]
MCType == [l \in MCLinks |-> CASE l \in {"o1", "o2"} -> "OUTLINK" [] l = "f" -> "FWDLINK" [] OTHER -> "INLINK"]
MCOrder == <<"a", "b", "c", "d", "o1", "o2", "f">>
MCWriteSeq == <<"o1", "o2">>
MCAtStart == MCLinks \ {"c"}
MCPassive == {"a", "b", "c", "d"}
MCAsync == {"c"}
MCSeverity == (0 :> 0) @@ (1 :> 3) @@ (2 :> 1) @@ (3 :> 0)

Budget(u, lo, li, p, f, s, w) == [upd |-> u, loss |-> lo, link |-> li, put |-> p, fwd |-> f, stop |-> s, wait |-> w]

\* updates with a loss; with a link that comes and goes; puts, with a loss, with
\* records that wait, with a forward link; shutdown
MCBudgets ==
  {Budget(2, 1, 1, 0, 0, 0, FALSE), Budget(2, 0, 2, 0, 0, 0, FALSE), Budget(0, 1, 0, 2, 0, 0, TRUE),
   Budget(0, 0, 0, 2, 1, 0, FALSE), Budget(1, 0, 0, 1, 0, 1, TRUE)}
=============================================================================
