------------------------------ MODULE UsbStream ------------------------------
(* The notifications of a stream (vsfstream.c) and the bulk endpoints of a     *)
(* serial port that use it (vsf_usbd.c, vsf_usbd_CDC.c): the OUT endpoint puts *)
(* what the host sends into the stream, the IN endpoint sends it back to the   *)
(* host, and each restarts the other through the stream's events.              *)
(*                                                                             *)
(* Both endpoints run in the device's one USB context, so that a handler is    *)
(* one step; the stream is the ring in memory, whose calls MemStream takes     *)
(* apart. The controller hands over one packet at a time. The bytes are left   *)
(* out: positions and counts decide who waits for whom. A port's transfers     *)
(* have no end (total_size is 0).                                              *)
EXTENDS Integers, FiniteSets

CONSTANTS
    EpSize,        \* the endpoints' packet size
    Pipes          \* the rings and the packets the host sends through them

Pipe == [size : Nat \ {0}, packets : SUBSET (0 .. EpSize)]

ASSUME UsbStreamAssumption ==
    /\ EpSize \in Nat \ {0}
    /\ Pipes \subseteq Pipe /\ \A p \in Pipes : IsFiniteSet(p.packets)

VARIABLES
    pipe,          \* the one of this behaviour
    ring,          \* data_size, rpos, wpos, is_writing of the memory stream
    tx,            \* the terminal that fills the stream: the OUT endpoint's
    rx,            \* the terminal that empties it: the IN endpoint's
    out,           \* the OUT endpoint's transfer
    in,            \* the IN endpoint's transfer
    offered        \* sizes of the packets the host tries to send, at most one

state == [ring |-> ring, tx |-> tx, rx |-> rx, out |-> out, in |-> in]
vars  == <<pipe, ring, tx, rx, out, in, offered>>

Becomes(s) ==
    /\ ring' = s.ring /\ tx' = s.tx /\ rx' = s.rx
    /\ out' = s.out /\ in' = s.in

Least(a, b) == IF a < b THEN a ELSE b

(* ----------------------------- the ring ------------------------------- *)

Avail(s) == pipe.size - s.ring.data_size

Wbuf(s) == Least(pipe.size - s.ring.wpos, Avail(s))
Rbuf(s) == Least(pipe.size - s.ring.rpos, s.ring.data_size)

Put(s, n) ==
    LET w == Least(Avail(s), n)
    IN  [s EXCEPT !.ring.data_size = @ + w,
                  !.ring.wpos = (@ + w) % pipe.size,
                  !.ring.is_writing = FALSE]

\* Mutant: an emptied ring starts over although a transfer writes into it.
TakeOverWriter(s, n) ==
    LET d == s.ring.data_size
        r == Least(d, n)
    IN  IF n < d
        THEN [s EXCEPT !.ring.data_size = d - r,
                       !.ring.rpos = (@ + r) % pipe.size]
        ELSE [s EXCEPT !.ring.data_size = d - r,
                       !.ring.rpos = 0, !.ring.wpos = 0]

Take(s, n) ==
    LET d == s.ring.data_size
        r == Least(d, n)
    IN  IF n < d \/ s.ring.is_writing
        THEN [s EXCEPT !.ring.data_size = d - r,
                       !.ring.rpos = (@ + r) % pipe.size]
        ELSE [s EXCEPT !.ring.data_size = d - r,
                       !.ring.rpos = 0, !.ring.wpos = 0]

(* --------------------------- the endpoints ---------------------------- *)

\* The endpoint receives into the ring if a packet fits in one piece, and with
\* no buffer otherwise: then the packet is fetched in parts when it has come.
Recv(s) ==
    LET n == IF Wbuf(s) >= EpSize THEN Wbuf(s) ELSE 0
    IN  [s EXCEPT !.ring.is_writing = TRUE,
                  !.out = [armed |-> TRUE, cur_size |-> n,
                           nSize |-> n, buffer |-> s.ring.wpos]]

\* The OUT endpoint is told that there is room.
TxEvthandler(s) ==
    IF ~s.out.armed /\ Avail(s) >= EpSize THEN Recv(s) ELSE s

Send(s) ==
    [s EXCEPT !.in = [armed |-> TRUE, cur_size |-> Rbuf(s),
                      buffer |-> s.ring.rpos]]

\* The IN endpoint is told that there are bytes.
RxEvthandler(s) ==
    IF ~s.in.armed /\ Rbuf(s) > 0 THEN Send(s) ELSE s

(* ------------------------- the notifications -------------------------- *)

\* Mutant: a terminal that was told once is not told again.
OnWriteOnce(s) ==
    IF s.rx.ready /\ ~s.rx.data_notified
    THEN RxEvthandler([s EXCEPT !.rx.data_notified = TRUE])
    ELSE s

\* A write is room the writer has been told of and has used; the reader is
\* told unless it still has to answer an earlier event.
OnWrite(s) ==
    LET u == [s EXCEPT !.tx.data_notified = FALSE]
    IN  IF u.rx.ready /\ ~u.rx.data_notified
        THEN RxEvthandler([u EXCEPT !.rx.data_notified = TRUE])
        ELSE u

\* Mutant: the writer is told only by the read that empties the ring.
OnReadEmpty(s) ==
    LET u == [s EXCEPT !.rx.data_notified = FALSE]
    IN  IF u.tx.ready /\ ~u.tx.data_notified /\ u.ring.data_size = 0
        THEN TxEvthandler([u EXCEPT !.tx.data_notified = TRUE])
        ELSE u

OnRead(s) ==
    LET u == [s EXCEPT !.rx.data_notified = FALSE]
    IN  IF u.tx.ready /\ ~u.tx.data_notified
        THEN TxEvthandler([u EXCEPT !.tx.data_notified = TRUE])
        ELSE u

Write(s, n) == OnWrite(Put(s, n))
Read(s, n)  == OnRead(Take(s, n))

\* The terminal that connects second starts both ends, itself included, before
\* it is ready. The IN endpoint does not act on the connection.
ConnectRx(s) == RxEvthandler([s EXCEPT !.rx.ready = TRUE])

ConnectTx(s) ==
    LET u == IF s.rx.ready THEN TxEvthandler(s) ELSE s
    IN  TxEvthandler([u EXCEPT !.tx.ready = TRUE])

(* ------------------------------ actions ------------------------------- *)

\* The host sets the control line: both streams of the port are connected,
\* the one to the host first.
Connect ==
    /\ ~rx.ready /\ ~tx.ready
    /\ Becomes(ConnectTx(ConnectRx(state)))
    /\ UNCHANGED <<pipe, offered>>

Offer(n) ==
    /\ offered = {} /\ offered' = {n}
    /\ UNCHANGED <<pipe, ring, tx, rx, out, in>>

\* The transfer is over: what came is in the stream, and the endpoint goes on
\* while there is room for more than a packet.
TxFinish(s, n) ==
    LET w == Write(s, n)
    IN  IF Avail(w) > EpSize
        THEN Recv(w)
        ELSE [w EXCEPT !.out = [armed |-> FALSE, cur_size |-> 0,
                                nSize |-> 0, buffer |-> 0]]

\* A packet of n bytes comes. With a buffer the transfer goes on until it is
\* full or a packet is short, and what does not fit is ignored.
Packet(n) ==
    LET p    == Least(n, out.nSize)
        left == [state EXCEPT !.out.nSize = @ - p]
    IN  /\ out.armed /\ offered = {n} /\ offered' = {}
        /\ Becomes(IF out.cur_size = 0 THEN TxFinish(state, n)
                   ELSE IF left.out.nSize > 0 /\ p = EpSize THEN left
                   ELSE TxFinish(left, out.cur_size - left.out.nSize))
        /\ UNCHANGED pipe

\* Mutant: the endpoint stops after each transfer.
RxFinishStops(s) ==
    [Read(s, s.in.cur_size) EXCEPT
        !.in = [armed |-> FALSE, cur_size |-> 0, buffer |-> 0]]

RxFinish(s) ==
    LET r == Read(s, s.in.cur_size)
    IN  IF Rbuf(r) > 0 THEN Send(r)
        ELSE [r EXCEPT !.in = [armed |-> FALSE, cur_size |-> 0, buffer |-> 0]]

\* The host has read the whole transfer.
Sent ==
    /\ in.armed
    /\ Becomes(RxFinish(state))
    /\ UNCHANGED <<pipe, offered>>

Init ==
    /\ pipe \in Pipes
    /\ ring = [data_size |-> 0, rpos |-> 0, wpos |-> 0, is_writing |-> FALSE]
    /\ tx = [ready |-> FALSE, data_notified |-> FALSE]
    /\ rx = [ready |-> FALSE, data_notified |-> FALSE]
    /\ out = [armed |-> FALSE, cur_size |-> 0, nSize |-> 0, buffer |-> 0]
    /\ in = [armed |-> FALSE, cur_size |-> 0, buffer |-> 0]
    /\ offered = {}

Next ==
    \/ Connect \/ Sent
    \/ \E n \in pipe.packets : Offer(n) \/ Packet(n)

Spec == Init /\ [][Next]_vars

\* The host opens the port, reads what is sent to it and repeats a packet until
\* it is taken.
UsbFairness ==
    /\ WF_vars(Connect) /\ WF_vars(Sent)
    /\ WF_vars(\E n \in pipe.packets : Packet(n))

FairUsbSpec == Spec /\ UsbFairness

(* ----------------------------- properties ----------------------------- *)

\* A transfer under way still has the part of the ring it was started with,
\* whatever the other endpoint has done since: a transfer to the host is of the
\* oldest bytes, and one from the host is of room right behind the newest
\* (vsf_usbd.c:936-957 and 1038-1061, vsf_mem_stream.c:201-211).
TransfersHoldTheirPart ==
    /\ out.armed =>
        /\ out.buffer = ring.wpos
        /\ out.cur_size <= Wbuf(state)
        /\ Avail(state) >= EpSize
    /\ in.armed => in.buffer = ring.rpos /\ in.cur_size \in 1 .. Rbuf(state)

RoomUnused == tx.ready /\ ~out.armed /\ Avail(state) > EpSize
BytesUnsent == rx.ready /\ ~in.armed /\ ring.data_size > 0

\* An endpoint that stands still has been told and has answered by doing
\* nothing: the stream never fails to tell it (vsfstream.c:38-74).
NobodyIsUntold ==
    /\ RoomUnused => tx.data_notified
    /\ BytesUnsent => rx.data_notified

\* Every packet is full and the ring is a number of packets.
Regular(p) == p.packets = {EpSize} /\ p.size % EpSize = 0

\* Told, idle, and not told again: no one will wake this endpoint.
InIsStuck  == ~in.armed /\ rx.data_notified
OutIsStuck == ~out.armed /\ (tx.data_notified \/ InIsStuck)

\* Every packet the host sends is taken. Only when there are short packets, or
\* when the ring is not a number of packets, the OUT endpoint may stop for good:
\* it is told of too little room, does nothing, and is not told of more
\* (vsfstream.c:57-74, vsf_usbd.c:998-1018).
PacketsAreTaken ==
    (tx.ready /\ offered # {}) ~>
        (offered = {} \/ (~Regular(pipe) /\ [](OutIsStuck)))

\* Bytes in the stream are sent to the host. Only when the host sends empty
\* packets, the IN endpoint may stop for good: it is told of nothing and is not
\* told of the bytes that follow (vsfstream.c:38-55, vsf_usbd.c:1063-1083).
BytesAreSent ==
    BytesUnsent ~> (in.armed \/ (0 \in pipe.packets /\ [](InIsStuck)))
=============================================================================
