------------------------------ MODULE Framing -------------------------------
(***************************************************************************)
(* Framing of messages on a TCP connection, receiving end: ConnBase        *)
(* (conn.cpp).  The peer's frames reach the input buffer in chunks of any  *)
(* size; bevRead() runs once the buffer holds the low watermark and takes  *)
(* whole frames, joining the segments of a message.                        *)
(*                                                                         *)
(* A frame is [ctrl, good, cmd, seg, body]; on the stream it is HeaderLen  *)
(* units, the first carrying the frame's header, and one unit for each of  *)
(* the body.                                                               *)
(***************************************************************************)
EXTENDS Integers, Sequences, SequencesExt

CONSTANTS HeaderLen,    \* length of a header: 8 in the code
          Readahead     \* high watermark while waiting for a header

VARIABLES sock,         \* units sent by the peer and not yet read
          conn,         \* the connection: see Opened
          handled       \* messages given to handlers, in order

frameVars == <<sock, conn, handled>>

\* [rx, low, high]: input buffer and its watermarks; [segBuf, expectSeg, segCmd]:
\* segments of the message being received; sendBE: byte order to send with;
\* up: bev is there
Opened == [rx |-> <<>>, low |-> HeaderLen, high |-> Readahead, segBuf |-> <<>>,
           expectSeg |-> FALSE, segCmd |-> "", sendBE |-> FALSE, up |-> TRUE]

\* The units of a frame: the peer's end, to_evbuf() and enqueueTxBody().
Units(f) == << [f |-> f, x |-> Len(f.body)]>>
            \o [k \in 1..(HeaderLen - 1) |-> [f |-> f, x |-> -1]]
            \o [k \in 1..Len(f.body) |-> [f |-> [f EXCEPT !.good = FALSE], x |-> f.body[k]]]

Continues(seg) == seg \in {"Mid", "Last"}

\* A complete message goes to its handler, which may drop the connection; what
\* it does not read of the body is discarded.
Handle(st) ==
    LET msg == [cmd |-> st.c.segCmd, body |-> st.c.segBuf]
    IN  [c |-> [st.c EXCEPT !.expectSeg = FALSE, !.segBuf = <<>>, !.up = msg.body # <<"bad">>],
         handled |-> Append(st.handled, msg)]

\* Does a frame begin a message?  Mutant: only one that more segments follow does.
StartsFirst(seg) == seg = "First"
Starts(seg) == seg \in {"None", "First"}

\* One application frame whose body is complete.
Take(st, f, body) ==
    LET c == [st.c EXCEPT !.segBuf = @ \o body]
        next == [st EXCEPT !.c = IF Starts(f.seg) THEN [c EXCEPT !.expectSeg = TRUE, !.segCmd = f.cmd] ELSE c]
    IN  IF Continues(f.seg) # c.expectSeg \/ (Continues(f.seg) /\ f.cmd # c.segCmd)
        THEN [st EXCEPT !.c = [c EXCEPT !.up = FALSE]]
        ELSE IF f.seg \in {"None", "Last"} THEN Handle(next) ELSE next

\* Watermarks for the rest of a body of length len.
\* Mutant: the high one stays what it was.
AwaitLowOnly(c, len) == [c EXCEPT !.low = HeaderLen + len]
AwaitBody(c, len) == [c EXCEPT !.low = HeaderLen + len, !.high = HeaderLen + len + Readahead]
AwaitHeader(c) == [c EXCEPT !.low = HeaderLen, !.high = Readahead]

\* bevRead()
RECURSIVE BevRead(_)
BevRead(st) ==
    LET c == st.c
        f == c.rx[1].f
        len == c.rx[1].x
        after == [c EXCEPT !.rx = SubSeq(@, HeaderLen + len + 1, Len(@))]
    IN  CASE ~c.up -> [st EXCEPT !.c.rx = <<>>]
          [] Len(c.rx) < HeaderLen -> [st EXCEPT !.c = AwaitHeader(c)]
          [] ~f.good -> [st EXCEPT !.c.up = FALSE, !.c.rx = <<>>]
          [] f.ctrl -> BevRead([st EXCEPT !.c = [c EXCEPT !.sendBE = IF f.cmd = "SetMSB" THEN TRUE ELSE @,
                                                          !.rx = SubSeq(@, HeaderLen + 1, Len(@))]])
          [] Len(c.rx) - HeaderLen < len -> [st EXCEPT !.c = AwaitBody(c, len)]
          [] OTHER -> BevRead(Take([st EXCEPT !.c = after], f,
                                   [k \in 1..len |-> c.rx[HeaderLen + k].x]))

\* libevent reads up to n units, never past the high watermark, and calls back
\* once the low one is reached.
Receive(n) ==
    /\ conn.up
    /\ n <= Len(sock)
    /\ Len(conn.rx) + n <= conn.high
    /\ LET rx == conn.rx \o SubSeq(sock, 1, n)
           st == [c |-> [conn EXCEPT !.rx = rx], handled |-> handled]
           done == IF Len(rx) >= conn.low THEN BevRead(st) ELSE st
       IN  /\ conn' = done.c
           /\ handled' = done.handled
    /\ sock' = SubSeq(sock, n + 1, Len(sock))

\* The stream ends or fails: bevEvent() drops the connection.
Lost ==
    /\ conn.up
    /\ conn' = [conn EXCEPT !.up = FALSE, !.rx = <<>>]
    /\ UNCHANGED <<sock, handled>>

FrameInit(frames) ==
    /\ sock = FlattenSeq([k \in 1..Len(frames) |-> Units(frames[k])])
    /\ conn = Opened
    /\ handled = <<>>
FrameNext == (\E n \in 1..Len(sock) : Receive(n)) \/ Lost

=============================================================================
