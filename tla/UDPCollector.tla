---------------------------- MODULE UDPCollector ----------------------------
(***************************************************************************)
(* UDP messages as the collector of a process handles them                 *)
(* (udp_collector.cpp).  All PVA processes of a host bind the same port: a *)
(* broadcast reaches each of them, a unicast only one, which forwards it   *)
(* to the others, and to itself, by multicast on the loopback interface.   *)
(*                                                                         *)
(* A packet is a record: cmd and dst of the datagram (Bcast, Ucast, Ucast6 *)
(* for IPv6, Lo: the local multicast group),                               *)
(* tag: prefixed by ORIGIN_TAG, and for SEARCH the address in the body to  *)
(* which to reply ("any", or the client's), "tcp" among the protocols, the *)
(* flag mustReply, and the number of the request.                          *)
(***************************************************************************)
EXTENDS Integers, Sequences, FiniteSets

\* UDPCollector::handle_one(): how a datagram came here
OriginOf(pkt) ==
    CASE pkt.dst = "Lo" -> "Forwarded"
      [] pkt.dst \in {"Ucast", "Ucast6"} -> "Forwarding"
      [] OTHER -> "Broadcast"

\* The destination a listener compares with its own.  A forwarded message has
\* none, unless a tag tells the original one.
OrigDest(pkt) == IF pkt.dst = "Lo" THEN IF pkt.tag THEN "Ucast" ELSE "any" ELSE pkt.dst

\* listeners with a matching destination
Hear(listeners, pkt) == {l \in listeners : l = "any" \/ l = OrigDest(pkt)}

\* Mutant: the address to which to reply is left as it is.
ForwardBare(pkt) == [pkt EXCEPT !.dst = "Lo", !.tag = TRUE]
\* forwardM(): the reply goes to the original sender, whose address is put into
\* the body.
ForwardOf(pkt) == [pkt EXCEPT !.dst = "Lo", !.tag = TRUE, !.reply = "client"]

\* process_one() of SEARCH: does this collector forward it?
Forwards(pkt) == pkt.cmd = "SEARCH" /\ OriginOf(pkt) = "Forwarding" /\ pkt.dst # "Ucast6"

\* ... or hand it to the listeners?  "Forwarded SEARCH with reply to sender never
\* works.  Ignore."
Accepts(pkt) ==
    /\ ~Forwards(pkt)
    /\ pkt.tag => OriginOf(pkt) = "Forwarded"
    /\ pkt.cmd = "SEARCH" => ~(OriginOf(pkt) = "Forwarded" /\ pkt.reply = "any")

\* protoTCP is set by a SEARCH with "tcp", and never cleared.
TcpSeen(before, pkt) == before \/ (pkt.cmd = "SEARCH" /\ pkt.tcp)

\* The names handed out: none unless "tcp" was seen
NamesOf(tcp, pkt) == IF tcp THEN pkt.names ELSE {}
=============================================================================
