---------------------------- MODULE MonitorWire ----------------------------
(***************************************************************************)
(* What the two ends of a subscription share: the connection and the       *)
(* options of the pvRequest.                                               *)
(***************************************************************************)
EXTENDS Naturals, Sequences

CONSTANTS QueueSize,    \* record._options.queueSize, agreed by both peers
          Pipeline      \* record._options.pipeline

ASSUME QueueSizeAssumption == QueueSize \in Nat /\ QueueSize >= 2
ASSUME PipelineAssumption == Pipeline \in BOOLEAN

VARIABLES link,         \* the TCP connection: "up" or "down"
          c2s,          \* client to server: FIFO, lost with the connection
          s2c           \* server to client
=============================================================================
