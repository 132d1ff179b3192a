------------------------------ MODULE GPRWire ------------------------------
(***************************************************************************)
(* What the two ends of a Get, Put or RPC share: the connection and what   *)
(* kind of operation it is.                                                *)
(*                                                                         *)
(* The user's requests to one operation are numbered: 0 is the one which   *)
(* an autoExec operation makes by itself, 1..MaxExec are those of          *)
(* reExecGet() and reExecPut().                                            *)
(***************************************************************************)
EXTENDS Naturals, Sequences

CONSTANTS Kinds,        \* the operations considered, among OpKinds
          MaxExec       \* bound: reExecGet() and reExecPut() of one operation

\* op: Operation::operation_t; getOput: a put first reads the current value;
\* autoExec: the request is made as soon as the operation is set up.
OpKinds ==
    {k \in [op : {"Get", "Put", "RPC"}, getOput : BOOLEAN, autoExec : BOOLEAN] :
        (k.getOput => k.op = "Put") /\ (k.op = "RPC" => k.autoExec)}

ASSUME KindsAssumption == Kinds \subseteq OpKinds /\ Kinds # {}
ASSUME MaxExecAssumption == MaxExec \in Nat

Serials == 0..MaxExec

VARIABLES link,         \* the TCP connection: "up" or "down"
          c2s,          \* client to server: FIFO, lost with the connection
          s2c           \* server to client

VARIABLE kind
=============================================================================
