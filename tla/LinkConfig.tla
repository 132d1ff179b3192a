----------------------------- MODULE LinkConfig -----------------------------
(***************************************************************************)
(* The configuration of a database link to a PV: what the parser of the    *)
(* JSON link text makes of its items, and what the configuration decides.  *)
(* An item is [depth, key, t, v]: its nesting, its key, the type of its    *)
(* value (null, bool, int or str) and the value.                           *)
(***************************************************************************)
EXTENDS Integers, Sequences, SequencesExt, FiniteSets

\* struct pvaLinkConfig with its defaults
NoConfig ==
  [channelName |-> "", fieldName |-> "", queueSize |-> 4, proc |-> "Default", sevr |-> "NMS",
   defer |-> FALSE, pipeline |-> FALSE, time |-> FALSE, retry |-> FALSE, local |-> FALSE,
   always |-> FALSE, atomic |-> FALSE, monorder |-> 0]

Flags == {"defer", "pipeline", "time", "retry", "local", "always", "atomic"}

Clip(lo, hi, n) == IF n < lo THEN lo ELSE IF n > hi THEN hi ELSE n

ParseNull(c, k) ==
  CASE k = "proc" -> [c EXCEPT !.proc = "Default"]
    [] k = "sevr" -> [c EXCEPT !.sevr = "NMS"]
    [] k = "local" -> [c EXCEPT !.local = FALSE]
    [] OTHER -> c

ParseBool(c, k, v) ==
  CASE k = "proc" -> [c EXCEPT !.proc = IF v THEN "PP" ELSE "NPP"]
    [] k = "sevr" -> [c EXCEPT !.sevr = IF v THEN "MS" ELSE "NMS"]
    [] k \in Flags -> [c EXCEPT ![k] = v]
    [] OTHER -> c

ParseInteger(c, k, v) ==
  CASE k = "Q" -> [c EXCEPT !.queueSize = IF v < 1 THEN 1 ELSE v]
    [] k = "monorder" -> [c EXCEPT !.monorder = Clip(-1024, 1024, v)]
    [] OTHER -> c

\* "MSS" is an alias for "MS"; a word that is not known changes nothing
ParseString(c, k, v) ==
  CASE k = "field" -> [c EXCEPT !.fieldName = v]
    [] k = "proc" /\ v = "" -> [c EXCEPT !.proc = "Default"]
    [] k = "proc" /\ v \in {"CP", "CPP", "PP", "NPP"} -> [c EXCEPT !.proc = v]
    [] k = "sevr" /\ v \in {"NMS", "MS", "MSI"} -> [c EXCEPT !.sevr = v]
    [] k = "sevr" /\ v = "MSS" -> [c EXCEPT !.sevr = "MS"]
    [] OTHER -> c

\* one item of the link text: the PV may be given alone, deeper items are ignored
ParseItem(c, i) ==
  IF i.t = "str" /\ (i.depth = 0 \/ (i.depth = 1 /\ i.key = "pv"))
  THEN [c EXCEPT !.channelName = i.v]
  ELSE IF i.depth # 1 THEN c
  ELSE CASE i.t = "null" -> ParseNull(c, i.key)
         [] i.t = "bool" -> ParseBool(c, i.key, i.v)
         [] i.t = "int" -> ParseInteger(c, i.key, i.v)
         [] i.t = "str" -> ParseString(c, i.key, i.v)

Parse(text) == FoldLeft(ParseItem, NoConfig, text)

\* pvaLink::makeRequest: links share a channel when PV and request are the same
ChannelKey(c) == <<c.channelName, c.pipeline, c.queueSize>>

\* pvaLink::scanOnUpdate of an attached link, type being the type of its field
ScanOnUpdate(type, c) ==
  IF type # "INLINK" THEN "no"
  ELSE CASE c.proc = "CP" -> "yes" [] c.proc = "CPP" -> "passive" [] OTHER -> "no"

\* the severity a link passes on to its record, s being the one of the target
PassedOn(c, s) == IF (s # 0 /\ c.sevr = "MS") \/ (s = 3 /\ c.sevr = "MSI") THEN s ELSE 0
=============================================================================
