-------------------------- MODULE UsbStreamProofs --------------------------
(* Theorems about the endpoints of a serial port and its stream, for every    *)
(* packet size, ring and set of packets a host may send.                      *)
EXTENDS UsbStream, TLAPS

(* ------------------------------ types --------------------------------- *)

RingType == [data_size : Nat, rpos : Nat, wpos : Nat, is_writing : BOOLEAN]
EndType  == [ready : BOOLEAN, data_notified : BOOLEAN]
OutType  == [armed : BOOLEAN, cur_size : Nat, nSize : Nat, buffer : Nat]
InType   == [armed : BOOLEAN, cur_size : Nat, buffer : Nat]

StateType == [ring : RingType, tx : EndType, rx : EndType, out : OutType, in : InType]

(* ----------------------- the inductive invariant ---------------------- *)

\* What the ring holds, and where, is inside it.
RingOK(s) ==
    /\ s.ring.data_size <= pipe.size
    /\ s.ring.rpos < pipe.size /\ s.ring.wpos < pipe.size

\* A transfer from the host keeps the ring from starting over, which would move
\* the room it was given.
OutHolds(s) ==
    s.out.armed =>
        /\ s.ring.is_writing
        /\ s.out.buffer = s.ring.wpos
        /\ s.out.nSize <= s.out.cur_size /\ s.out.cur_size <= Wbuf(s)
        /\ Avail(s) >= EpSize

InHolds(s) ==
    s.in.armed => s.in.buffer = s.ring.rpos /\ s.in.cur_size \in 1 .. Rbuf(s)

WriterTold(s) ==
    (s.tx.ready /\ ~s.out.armed /\ Avail(s) > EpSize) => s.tx.data_notified
ReaderTold(s) ==
    (s.rx.ready /\ ~s.in.armed /\ s.ring.data_size > 0) => s.rx.data_notified

\* Until the streams are connected nothing is in them and nothing is under way.
\* The streams are connected together.
Unconnected(s) ==
    /\ s.tx.ready <=> s.rx.ready
    /\ ~s.rx.ready => s.ring.data_size = 0 /\ ~s.out.armed /\ ~s.in.armed

StateInv(s) ==
    /\ s \in StateType
    /\ RingOK(s) /\ OutHolds(s) /\ InHolds(s)
    /\ WriterTold(s) /\ ReaderTold(s) /\ Unconnected(s)

UsbInv ==
    /\ pipe \in Pipe
    /\ StateInv(state)
    /\ offered \subseteq Nat

(* ----------------------------- the ring ------------------------------- *)

LEMMA EpSizeIsPositive == EpSize \in Nat \ {0}
  BY UsbStreamAssumption

LEMMA WrappedIsInside ==
    ASSUME NEW a \in Nat, NEW S \in Nat \ {0}
    PROVE  a % S \in Nat /\ a % S < S
  BY SMT

\* A write adds to the bytes and leaves where they start.
LEMMA PutFacts ==
    ASSUME pipe \in Pipe, NEW s \in StateType, RingOK(s), NEW n \in Nat
    PROVE  /\ Put(s, n) \in StateType /\ RingOK(Put(s, n))
           /\ Put(s, n).tx = s.tx /\ Put(s, n).rx = s.rx
           /\ Put(s, n).out = s.out /\ Put(s, n).in = s.in
           /\ Put(s, n).ring.rpos = s.ring.rpos
           /\ Put(s, n).ring.data_size >= s.ring.data_size
<1> DEFINE w == Least(Avail(s), n)
           u == Put(s, n)
<1>1. /\ pipe.size \in Nat \ {0} /\ s.ring \in RingType
      /\ s.ring.data_size \in Nat /\ s.ring.wpos \in Nat /\ s.ring.rpos \in Nat
  BY DEF Pipe, StateType, RingType
<1>2. w \in Nat /\ w <= pipe.size - s.ring.data_size
  BY <1>1 DEF RingOK, Least, Avail
<1>3. /\ (s.ring.wpos + w) % pipe.size \in Nat
      /\ (s.ring.wpos + w) % pipe.size < pipe.size
  <2>1. s.ring.wpos + w \in Nat
    BY <1>1, <1>2
  <2> QED
    BY <1>1, <2>1, WrappedIsInside
<1>4. u.ring = [data_size |-> s.ring.data_size + w, rpos |-> s.ring.rpos,
                wpos |-> (s.ring.wpos + w) % pipe.size, is_writing |-> FALSE]
  BY <1>1 DEF Put, StateType, RingType
<1>5. /\ u.tx = s.tx /\ u.rx = s.rx /\ u.out = s.out /\ u.in = s.in
      /\ u = [ring |-> u.ring, tx |-> s.tx, rx |-> s.rx, out |-> s.out, in |-> s.in]
  <2> DEFINE s1 == [s EXCEPT !.ring.data_size = @ + w]
             s2 == [s1 EXCEPT !.ring.wpos = (@ + w) % pipe.size]
  <2>1. s1 = [ring |-> s1.ring, tx |-> s.tx, rx |-> s.rx, out |-> s.out, in |-> s.in]
    BY DEF StateType
  <2>2. u = [s2 EXCEPT !.ring.is_writing = FALSE]
    BY DEF Put
  <2> HIDE DEF s1
  <2>3. s2 = [ring |-> s2.ring, tx |-> s.tx, rx |-> s.rx, out |-> s.out, in |-> s.in]
    BY <2>1
  <2> HIDE DEF s2
  <2> DEFINE s3 == [s2 EXCEPT !.ring.is_writing = FALSE]
  <2>4. s3 = [ring |-> s3.ring, tx |-> s.tx, rx |-> s.rx, out |-> s.out, in |-> s.in]
    <3>1. \A b : [s2 EXCEPT !.ring.is_writing = b]
                   = [ring |-> [s2 EXCEPT !.ring.is_writing = b].ring,
                      tx |-> s.tx, rx |-> s.rx, out |-> s.out, in |-> s.in]
      BY <2>3
    <3> QED
      BY ONLY <3>1, Zenon
  <2> HIDE DEF s3, u
  <2>5. u = s3
    BY <2>2 DEF s3
  <2> QED
    BY <2>4, <2>5
<1> HIDE DEF w, u
<1>6. u.ring \in RingType
  BY <1>1, <1>2, <1>3, <1>4 DEF RingType
<1>7. u \in StateType
  BY <1>5, <1>6 DEF StateType
<1>8. RingOK(u)
  BY <1>1, <1>2, <1>3, <1>4 DEF RingOK
<1>9. u.ring.rpos = s.ring.rpos /\ u.ring.data_size >= s.ring.data_size
  BY <1>1, <1>2, <1>4
<1> QED
  BY <1>5, <1>7, <1>8, <1>9 DEF u

\* A read takes bytes away, and while a transfer writes it leaves where the next
\* ones go.
LEMMA TakeFacts ==
    ASSUME pipe \in Pipe, NEW s \in StateType, RingOK(s), NEW n \in Nat
    PROVE  /\ Take(s, n) \in StateType /\ RingOK(Take(s, n))
           /\ Take(s, n).tx = s.tx /\ Take(s, n).rx = s.rx
           /\ Take(s, n).out = s.out /\ Take(s, n).in = s.in
           /\ Take(s, n).ring.is_writing = s.ring.is_writing
           /\ s.ring.is_writing => Take(s, n).ring.wpos = s.ring.wpos
           /\ Take(s, n).ring.data_size <= s.ring.data_size
<1> DEFINE d == s.ring.data_size
           r == Least(d, n)
           u == Take(s, n)
<1>1. /\ pipe.size \in Nat \ {0} /\ s.ring \in RingType
      /\ d \in Nat /\ s.ring.wpos \in Nat /\ s.ring.rpos \in Nat
  BY DEF Pipe, StateType, RingType
<1>2. r \in Nat /\ r <= d /\ d - r \in Nat
  BY <1>1 DEF Least
<1>3. /\ (s.ring.rpos + r) % pipe.size \in Nat
      /\ (s.ring.rpos + r) % pipe.size < pipe.size
  BY <1>1, <1>2, WrappedIsInside
<1>4. \/ u.ring = [data_size |-> d - r, rpos |-> (s.ring.rpos + r) % pipe.size,
                   wpos |-> s.ring.wpos, is_writing |-> s.ring.is_writing]
      \/ /\ ~s.ring.is_writing
         /\ u.ring = [data_size |-> d - r, rpos |-> 0, wpos |-> 0,
                      is_writing |-> s.ring.is_writing]
  BY <1>1 DEF Take, StateType, RingType
<1>5. /\ u.tx = s.tx /\ u.rx = s.rx /\ u.out = s.out /\ u.in = s.in
      /\ u = [ring |-> u.ring, tx |-> s.tx, rx |-> s.rx, out |-> s.out, in |-> s.in]
  BY DEF Take, StateType
<1>6. s.ring.is_writing \in BOOLEAN /\ d <= pipe.size /\ s.ring.wpos < pipe.size
  BY <1>1 DEF RingType, RingOK
<1> HIDE DEF d, r, u
<1>7. u.ring \in RingType
  BY <1>1, <1>2, <1>3, <1>4, <1>6 DEF RingType
<1>8. u \in StateType
  BY <1>5, <1>7 DEF StateType
<1>9. RingOK(u) /\ u.ring.data_size <= d
  BY <1>1, <1>2, <1>3, <1>4, <1>6 DEF RingOK
<1>10. /\ u.ring.is_writing = s.ring.is_writing
       /\ s.ring.is_writing => u.ring.wpos = s.ring.wpos
  BY <1>4
<1> QED
  BY <1>5, <1>8, <1>9, <1>10 DEF u, d
(* ------------------------- parts of a state --------------------------- *)

LEMMA SetFacts ==
    ASSUME NEW s \in StateType, NEW b \in BOOLEAN
    PROVE  /\ LET u == [s EXCEPT !.tx.data_notified = b]
              IN  /\ u \in StateType /\ u.ring = s.ring /\ u.rx = s.rx /\ u.out = s.out /\ u.in = s.in
                  /\ u.tx.ready = s.tx.ready /\ u.tx.data_notified = b
           /\ LET u == [s EXCEPT !.rx.data_notified = b]
              IN  /\ u \in StateType /\ u.ring = s.ring /\ u.tx = s.tx /\ u.out = s.out /\ u.in = s.in
                  /\ u.rx.ready = s.rx.ready /\ u.rx.data_notified = b
           /\ LET u == [s EXCEPT !.tx.ready = b]
              IN  /\ u \in StateType /\ u.ring = s.ring /\ u.rx = s.rx /\ u.out = s.out /\ u.in = s.in
                  /\ u.tx.ready = b /\ u.tx.data_notified = s.tx.data_notified
           /\ LET u == [s EXCEPT !.rx.ready = b]
              IN  /\ u \in StateType /\ u.ring = s.ring /\ u.tx = s.tx /\ u.out = s.out /\ u.in = s.in
                  /\ u.rx.ready = b /\ u.rx.data_notified = s.rx.data_notified
  BY DEF StateType, EndType

LEMMA RecvFacts ==
    ASSUME pipe \in Pipe, NEW s \in StateType, RingOK(s), Avail(s) >= EpSize
    PROVE  /\ Recv(s) \in StateType /\ RingOK(Recv(s)) /\ OutHolds(Recv(s)) /\ Recv(s).out.armed
           /\ Recv(s).tx = s.tx /\ Recv(s).rx = s.rx /\ Recv(s).in = s.in
           /\ Recv(s).ring.data_size = s.ring.data_size /\ Recv(s).ring.rpos = s.ring.rpos
<1> DEFINE m == IF Wbuf(s) >= EpSize THEN Wbuf(s) ELSE 0
           s1 == [s EXCEPT !.ring.is_writing = TRUE]
           o  == [armed |-> TRUE, cur_size |-> m, nSize |-> m, buffer |-> s.ring.wpos]
           u  == Recv(s)
<1>1. /\ pipe.size \in Nat \ {0} /\ s.ring \in RingType
      /\ s.ring.data_size \in Nat /\ s.ring.wpos \in Nat /\ s.ring.rpos \in Nat
  BY DEF Pipe, StateType, RingType
<1>2. Wbuf(s) \in Nat /\ m \in Nat /\ m <= Wbuf(s)
  <2>1. Wbuf(s) \in Nat
    BY <1>1 DEF Wbuf, Avail, Least, RingOK
  <2> QED
    BY <2>1, EpSizeIsPositive
<1>3. /\ s1 \in StateType /\ s1.tx = s.tx /\ s1.rx = s.rx /\ s1.in = s.in
      /\ s1.ring.data_size = s.ring.data_size /\ s1.ring.wpos = s.ring.wpos
      /\ s1.ring.rpos = s.ring.rpos /\ s1.ring.is_writing = TRUE
  <2>1. \A b \in BOOLEAN : LET v == [s EXCEPT !.ring.is_writing = b]
                         IN  /\ v \in StateType /\ v.tx = s.tx /\ v.rx = s.rx /\ v.in = s.in
                             /\ v.ring.data_size = s.ring.data_size /\ v.ring.wpos = s.ring.wpos
                             /\ v.ring.rpos = s.ring.rpos /\ v.ring.is_writing = b
    BY DEF StateType, RingType
  <2>2. TRUE \in BOOLEAN
    OBVIOUS
  <2> QED
    BY ONLY <2>1, <2>2, Zenon
<1>4. u = [s1 EXCEPT !.out = o]
  BY DEF Recv
<1>5. o \in OutType
  BY <1>1, <1>2 DEF OutType
<1> HIDE DEF s1, u
<1>6. /\ u \in StateType /\ u.ring = s1.ring /\ u.tx = s1.tx /\ u.rx = s1.rx /\ u.in = s1.in
      /\ u.out = o
  <2>1. s1 \in StateType
    BY <1>3
  <2> HIDE DEF o
  <2> QED
    BY ONLY <1>4, <1>5, <2>1 DEF StateType
<1>7. /\ o.armed /\ o.cur_size = m /\ o.nSize = m /\ o.buffer = s.ring.wpos
  OBVIOUS
<1> HIDE DEF o, m
<1>8. /\ Wbuf(u) = Wbuf(s) /\ Avail(u) = Avail(s)
  BY <1>3, <1>6 DEF Wbuf, Avail
<1>9. OutHolds(u) /\ u.out.armed
  BY <1>2, <1>3, <1>6, <1>7, <1>8 DEF OutHolds
<1>10. RingOK(u)
  BY <1>3, <1>6 DEF RingOK
<1> QED
  BY <1>3, <1>6, <1>9, <1>10 DEF u

LEMMA SendFacts ==
    ASSUME pipe \in Pipe, NEW s \in StateType, RingOK(s), Rbuf(s) > 0
    PROVE  /\ Send(s) \in StateType /\ InHolds(Send(s)) /\ Send(s).in.armed
           /\ Send(s).ring = s.ring /\ Send(s).tx = s.tx /\ Send(s).rx = s.rx
           /\ Send(s).out = s.out
<1> DEFINE i == [armed |-> TRUE, cur_size |-> Rbuf(s), buffer |-> s.ring.rpos]
           u == Send(s)
<1>1. /\ pipe.size \in Nat \ {0} /\ s.ring \in RingType
      /\ s.ring.data_size \in Nat /\ s.ring.rpos \in Nat
  BY DEF Pipe, StateType, RingType
<1>2. Rbuf(s) \in Nat
  BY <1>1 DEF Rbuf, Least, RingOK
<1>3. i \in InType /\ i.armed /\ i.cur_size = Rbuf(s) /\ i.buffer = s.ring.rpos
  BY <1>1, <1>2 DEF InType
<1>4. u = [s EXCEPT !.in = i]
  BY DEF Send
<1> HIDE DEF i, u
<1>5. /\ u \in StateType /\ u.ring = s.ring /\ u.tx = s.tx /\ u.rx = s.rx /\ u.out = s.out
      /\ u.in = i
  BY ONLY <1>3, <1>4, s \in StateType DEF StateType
<1>6. InHolds(u)
  <2>1. Rbuf(u) = Rbuf(s)
    BY <1>5 DEF Rbuf
  <2> QED
    BY <1>2, <1>3, <1>5, <2>1 DEF InHolds
<1> QED
  BY <1>3, <1>5, <1>6 DEF u
(* --------------------- notifications and handlers --------------------- *)

LEMMA RingNumbers ==
    ASSUME pipe \in Pipe, NEW s \in StateType, RingOK(s)
    PROVE  /\ Wbuf(s) \in Nat /\ Avail(s) \in Nat /\ Rbuf(s) \in Nat
           /\ s.ring.data_size \in Nat
           /\ Rbuf(s) = 0 => s.ring.data_size = 0
           /\ Rbuf(s) <= s.ring.data_size
           /\ s.tx.ready \in BOOLEAN /\ s.rx.ready \in BOOLEAN
           /\ s.out.cur_size \in Nat /\ s.out.nSize \in Nat /\ s.in.cur_size \in Nat
           /\ s.tx \in EndType /\ s.rx \in EndType /\ s.out \in OutType /\ s.in \in InType
<1>1. /\ pipe.size \in Nat \ {0} /\ s.ring \in RingType
      /\ s.ring.data_size \in Nat /\ s.ring.rpos \in Nat /\ s.ring.wpos \in Nat
      /\ s.tx \in EndType /\ s.rx \in EndType /\ s.out \in OutType /\ s.in \in InType
  BY DEF Pipe, StateType, RingType
<1>2. /\ Wbuf(s) \in Nat /\ Avail(s) \in Nat /\ Rbuf(s) \in Nat
      /\ Rbuf(s) = 0 => s.ring.data_size = 0
      /\ Rbuf(s) <= s.ring.data_size
  BY <1>1 DEF RingOK, Wbuf, Avail, Rbuf, Least
<1> QED
  BY <1>1, <1>2 DEF EndType, OutType, InType

\* The handler of the OUT endpoint leaves the reader's end alone, and unless it
\* starts a transfer there is no room for a packet.
LEMMA TxEvthandlerFacts ==
    ASSUME pipe \in Pipe, NEW s \in StateType, RingOK(s), OutHolds(s)
    PROVE  /\ TxEvthandler(s) \in StateType
           /\ RingOK(TxEvthandler(s)) /\ OutHolds(TxEvthandler(s))
           /\ TxEvthandler(s).tx = s.tx /\ TxEvthandler(s).rx = s.rx /\ TxEvthandler(s).in = s.in
           /\ TxEvthandler(s).ring.data_size = s.ring.data_size
           /\ TxEvthandler(s).ring.rpos = s.ring.rpos
           /\ TxEvthandler(s).out.armed \/ Avail(TxEvthandler(s)) < EpSize
<1>1. CASE ~s.out.armed /\ Avail(s) >= EpSize
  <2>1. TxEvthandler(s) = Recv(s)
    BY <1>1 DEF TxEvthandler
  <2> QED
    BY <1>1, <2>1, RecvFacts
<1>2. CASE ~(~s.out.armed /\ Avail(s) >= EpSize)
  <2>1. TxEvthandler(s) = s
    BY <1>2 DEF TxEvthandler
  <2> QED
    BY <1>2, <2>1, RingNumbers, EpSizeIsPositive
<1> QED
  BY <1>1, <1>2

LEMMA RxEvthandlerFacts ==
    ASSUME pipe \in Pipe, NEW s \in StateType, RingOK(s), InHolds(s)
    PROVE  /\ RxEvthandler(s) \in StateType /\ InHolds(RxEvthandler(s))
           /\ RxEvthandler(s).ring = s.ring /\ RxEvthandler(s).out = s.out
           /\ RxEvthandler(s).tx = s.tx /\ RxEvthandler(s).rx = s.rx
           /\ RxEvthandler(s).in.armed \/ s.ring.data_size = 0
<1>1. CASE ~s.in.armed /\ Rbuf(s) > 0
  <2>1. RxEvthandler(s) = Send(s)
    BY <1>1 DEF RxEvthandler
  <2> QED
    BY <1>1, <2>1, SendFacts
<1>2. CASE ~(~s.in.armed /\ Rbuf(s) > 0)
  <2>1. RxEvthandler(s) = s
    BY <1>2 DEF RxEvthandler
  <2> QED
    BY <1>2, <2>1, RingNumbers
<1> QED
  BY <1>1, <1>2

\* What the facts about an end depend on.
LEMMA InHoldsSame ==
    ASSUME NEW s, NEW u, InHolds(s), u.in = s.in, u.ring.rpos = s.ring.rpos,
           u.ring.data_size = s.ring.data_size
    PROVE  InHolds(u)
<1>1. Rbuf(u) = Rbuf(s)
  BY DEF Rbuf
<1> QED
  BY <1>1 DEF InHolds

LEMMA SameRing ==
    ASSUME NEW s, NEW u, u.ring = s.ring
    PROVE  /\ RingOK(u) <=> RingOK(s)
           /\ Avail(u) = Avail(s) /\ Wbuf(u) = Wbuf(s) /\ Rbuf(u) = Rbuf(s)
           /\ u.out = s.out => (OutHolds(u) <=> OutHolds(s))
           /\ u.in = s.in => (InHolds(u) <=> InHolds(s))
<1>1. Avail(u) = Avail(s) /\ Wbuf(u) = Wbuf(s) /\ Rbuf(u) = Rbuf(s)
  BY DEF Avail, Wbuf, Rbuf
<1> QED
  BY <1>1 DEF RingOK, OutHolds, InHolds

\* A write tells a reader that is connected, or has told it already.
LEMMA OnWriteFacts ==
    ASSUME pipe \in Pipe, NEW s \in StateType, RingOK(s), InHolds(s)
    PROVE  /\ OnWrite(s) \in StateType /\ InHolds(OnWrite(s))
           /\ OnWrite(s).ring = s.ring /\ OnWrite(s).out = s.out
           /\ OnWrite(s).tx.ready = s.tx.ready /\ OnWrite(s).rx.ready = s.rx.ready
           /\ s.rx.ready => OnWrite(s).rx.data_notified
           /\ ~s.rx.ready => OnWrite(s).in = s.in
<1> DEFINE u == [s EXCEPT !.tx.data_notified = FALSE]
           v == [u EXCEPT !.rx.data_notified = TRUE]
<1>0. TRUE \in BOOLEAN /\ FALSE \in BOOLEAN
  OBVIOUS
<1>1. /\ u \in StateType /\ u.ring = s.ring /\ u.rx = s.rx /\ u.out = s.out /\ u.in = s.in
      /\ u.tx.ready = s.tx.ready
  BY ONLY <1>0, SetFacts, s \in StateType, Zenon
<1>2. OnWrite(s) = IF u.rx.ready /\ ~u.rx.data_notified THEN RxEvthandler(v) ELSE u
  BY DEF OnWrite
<1> HIDE DEF u
<1>3. /\ v \in StateType /\ v.ring = u.ring /\ v.tx = u.tx /\ v.out = u.out /\ v.in = u.in
      /\ v.rx.ready = u.rx.ready /\ v.rx.data_notified = TRUE
  BY ONLY <1>0, <1>1, SetFacts, Zenon
<1> HIDE DEF v
<1>4. RingOK(u) /\ InHolds(u) /\ RingOK(v) /\ InHolds(v)
  BY <1>1, <1>3, SameRing
<1>5. CASE u.rx.ready /\ ~u.rx.data_notified
  BY <1>1, <1>2, <1>3, <1>4, <1>5, RxEvthandlerFacts
<1>6. CASE ~(u.rx.ready /\ ~u.rx.data_notified)
  BY <1>1, <1>2, <1>4, <1>6
<1> QED
  BY <1>5, <1>6

LEMMA OnReadFacts ==
    ASSUME pipe \in Pipe, NEW s \in StateType, RingOK(s), OutHolds(s)
    PROVE  /\ OnRead(s) \in StateType /\ RingOK(OnRead(s)) /\ OutHolds(OnRead(s))
           /\ OnRead(s).in = s.in
           /\ OnRead(s).ring.rpos = s.ring.rpos /\ OnRead(s).ring.data_size = s.ring.data_size
           /\ OnRead(s).tx.ready = s.tx.ready /\ OnRead(s).rx.ready = s.rx.ready
           /\ s.tx.ready => OnRead(s).tx.data_notified
<1> DEFINE u == [s EXCEPT !.rx.data_notified = FALSE]
           v == [u EXCEPT !.tx.data_notified = TRUE]
<1>0. TRUE \in BOOLEAN /\ FALSE \in BOOLEAN
  OBVIOUS
<1>1. /\ u \in StateType /\ u.ring = s.ring /\ u.tx = s.tx /\ u.out = s.out /\ u.in = s.in
      /\ u.rx.ready = s.rx.ready
  BY ONLY <1>0, SetFacts, s \in StateType, Zenon
<1>2. OnRead(s) = IF u.tx.ready /\ ~u.tx.data_notified THEN TxEvthandler(v) ELSE u
  BY DEF OnRead
<1> HIDE DEF u
<1>3. /\ v \in StateType /\ v.ring = u.ring /\ v.rx = u.rx /\ v.out = u.out /\ v.in = u.in
      /\ v.tx.ready = u.tx.ready /\ v.tx.data_notified = TRUE
  BY ONLY <1>0, <1>1, SetFacts, Zenon
<1> HIDE DEF v
<1>4. RingOK(u) /\ OutHolds(u) /\ RingOK(v) /\ OutHolds(v)
  BY <1>1, <1>3, SameRing
<1>5. CASE u.tx.ready /\ ~u.tx.data_notified
  <2>1. OnRead(s) = TxEvthandler(v)
    BY <1>2, <1>5
  <2> DEFINE x == TxEvthandler(v)
  <2>2. /\ x \in StateType /\ RingOK(x) /\ OutHolds(x) /\ x.tx = v.tx /\ x.rx = v.rx
        /\ x.in = v.in /\ x.ring.data_size = v.ring.data_size /\ x.ring.rpos = v.ring.rpos
    BY <1>3, <1>4, TxEvthandlerFacts
  <2> HIDE DEF x
  <2>3. OnRead(s) = x
    BY <2>1 DEF x
  <2> QED
    BY <1>1, <1>3, <2>2, <2>3
<1>6. CASE ~(u.tx.ready /\ ~u.tx.data_notified)
  BY <1>1, <1>2, <1>4, <1>6
<1> QED
  BY <1>5, <1>6

\* An endpoint that stops.
LEMMA StopFacts ==
    ASSUME NEW s \in StateType
    PROVE  /\ LET u == [s EXCEPT !.out = [armed |-> FALSE, cur_size |-> 0, nSize |-> 0, buffer |-> 0]]
              IN  /\ u \in StateType /\ u.ring = s.ring /\ u.tx = s.tx /\ u.rx = s.rx /\ u.in = s.in
                  /\ ~u.out.armed
           /\ LET u == [s EXCEPT !.in = [armed |-> FALSE, cur_size |-> 0, buffer |-> 0]]
              IN  /\ u \in StateType /\ u.ring = s.ring /\ u.tx = s.tx /\ u.rx = s.rx /\ u.out = s.out
                  /\ ~u.in.armed
<1> DEFINE o == [armed |-> FALSE, cur_size |-> 0, nSize |-> 0, buffer |-> 0]
           i == [armed |-> FALSE, cur_size |-> 0, buffer |-> 0]
<1>1. o \in OutType /\ ~o.armed /\ i \in InType /\ ~i.armed
  BY DEF OutType, InType
<1> SUFFICES /\ LET u == [s EXCEPT !.out = o]
                IN  /\ u \in StateType /\ u.ring = s.ring /\ u.tx = s.tx /\ u.rx = s.rx /\ u.in = s.in
                    /\ ~u.out.armed
             /\ LET u == [s EXCEPT !.in = i]
                IN  /\ u \in StateType /\ u.ring = s.ring /\ u.tx = s.tx /\ u.rx = s.rx /\ u.out = s.out
                    /\ ~u.in.armed
  OBVIOUS
<1> HIDE DEF o, i
<1> QED
  BY <1>1 DEF StateType
(* ------------------------------- steps -------------------------------- *)

\* A write moves nothing that a transfer to the host is under way with.
LEMMA InHoldsPut ==
    ASSUME pipe \in Pipe, NEW s \in StateType, RingOK(s), InHolds(s), NEW m \in Nat
    PROVE  InHolds(Put(s, m))
<1> DEFINE u == Put(s, m)
<1>1. /\ u \in StateType /\ RingOK(u) /\ u.in = s.in /\ u.ring.rpos = s.ring.rpos
      /\ u.ring.data_size >= s.ring.data_size
  BY PutFacts
<1> HIDE DEF u
<1>2. /\ pipe.size \in Nat /\ s.ring.data_size \in Nat /\ u.ring.data_size \in Nat
      /\ s.ring.rpos \in Nat
  BY <1>1 DEF Pipe, StateType, RingType
<1>3. Rbuf(s) \in Nat /\ Rbuf(u) \in Nat /\ Rbuf(s) <= Rbuf(u)
  BY <1>1, <1>2 DEF Rbuf, Least, RingOK
<1>4. InHolds(u)
  BY <1>1, <1>3 DEF InHolds
<1> QED
  BY <1>4 DEF u

\* A read moves nothing that a transfer from the host is under way with.
LEMMA OutHoldsTake ==
    ASSUME pipe \in Pipe, NEW s \in StateType, RingOK(s), OutHolds(s), NEW m \in Nat
    PROVE  OutHolds(Take(s, m))
<1> DEFINE u == Take(s, m)
<1>1. /\ u \in StateType /\ RingOK(u) /\ u.out = s.out
      /\ u.ring.is_writing = s.ring.is_writing
      /\ s.ring.is_writing => u.ring.wpos = s.ring.wpos
      /\ u.ring.data_size <= s.ring.data_size
  BY TakeFacts
<1> HIDE DEF u
<1>2. /\ pipe.size \in Nat /\ s.ring.data_size \in Nat /\ u.ring.data_size \in Nat
      /\ s.ring.wpos \in Nat /\ s.out.cur_size \in Nat /\ s.out.nSize \in Nat
  BY <1>1, RingNumbers DEF Pipe, StateType, RingType
<1>3. ASSUME s.out.armed PROVE OutHolds(u)
  <2>1. /\ s.ring.is_writing /\ u.ring.is_writing /\ u.ring.wpos = s.ring.wpos
        /\ s.out.buffer = s.ring.wpos /\ s.out.nSize <= s.out.cur_size
        /\ s.out.cur_size <= Wbuf(s) /\ Avail(s) >= EpSize
    BY <1>1, <1>3 DEF OutHolds
  <2>2. /\ Wbuf(s) \in Nat /\ Wbuf(u) \in Nat /\ Wbuf(s) <= Wbuf(u)
        /\ Avail(s) \in Nat /\ Avail(u) \in Nat /\ Avail(s) <= Avail(u)
    BY <1>1, <1>2, <2>1 DEF Wbuf, Avail, Least, RingOK
  <2> QED
    BY <1>1, <1>2, <2>1, <2>2, EpSizeIsPositive DEF OutHolds
<1>4. OutHolds(u)
  BY <1>1, <1>3 DEF OutHolds
<1> QED
  BY <1>4 DEF u

\* A finished transfer from the host has told the reader, and goes on or stops
\* with no room for more than a packet.
LEMMA TxFinishInv ==
    ASSUME pipe \in Pipe, NEW s \in StateType, RingOK(s), InHolds(s), NEW m \in Nat,
           s.tx.ready, s.rx.ready
    PROVE  StateInv(TxFinish(s, m))
<1> DEFINE p == Put(s, m)
           w == OnWrite(p)
           u == TxFinish(s, m)
<1>1. p \in StateType /\ RingOK(p) /\ InHolds(p) /\ p.tx = s.tx /\ p.rx = s.rx
  BY PutFacts, InHoldsPut
<1> HIDE DEF p
<1>2. /\ w \in StateType /\ RingOK(w) /\ InHolds(w) /\ w.tx.ready /\ w.rx.ready
      /\ w.rx.data_notified
  <2>1. /\ w \in StateType /\ InHolds(w) /\ w.ring = p.ring
        /\ w.tx.ready = p.tx.ready /\ w.rx.ready = p.rx.ready
        /\ p.rx.ready => w.rx.data_notified
    BY <1>1, OnWriteFacts
  <2> HIDE DEF w
  <2>2. RingOK(w)
    BY <1>1, <2>1, SameRing
  <2> QED
    BY <1>1, <2>1, <2>2
<1>3. u = IF Avail(w) > EpSize THEN Recv(w)
          ELSE [w EXCEPT !.out = [armed |-> FALSE, cur_size |-> 0, nSize |-> 0, buffer |-> 0]]
  BY DEF TxFinish, Write, p
<1> HIDE DEF w, u
<1>4. Avail(w) \in Nat /\ EpSize \in Nat
  BY <1>2, RingNumbers, EpSizeIsPositive
<1>5. ASSUME Avail(w) > EpSize PROVE StateInv(u)
  <2>1. u = Recv(w)
    BY <1>3, <1>5
  <2>2. /\ u \in StateType /\ RingOK(u) /\ OutHolds(u) /\ u.out.armed
        /\ u.tx = w.tx /\ u.rx = w.rx /\ u.in = w.in
        /\ u.ring.data_size = w.ring.data_size /\ u.ring.rpos = w.ring.rpos
    BY <1>2, <1>4, <1>5, <2>1, RecvFacts
  <2>3. InHolds(u)
    BY <1>2, <2>2, InHoldsSame
  <2> QED
    BY <1>2, <2>2, <2>3 DEF StateInv, WriterTold, ReaderTold, Unconnected
<1>6. ASSUME ~(Avail(w) > EpSize) PROVE StateInv(u)
  <2>1. /\ u \in StateType /\ u.ring = w.ring /\ u.tx = w.tx /\ u.rx = w.rx /\ u.in = w.in
        /\ ~u.out.armed
    BY <1>2, <1>3, <1>6, StopFacts
  <2>2. RingOK(u) /\ InHolds(u) /\ Avail(u) = Avail(w)
    BY <1>2, <2>1, SameRing
  <2> QED
    BY <1>2, <1>6, <2>1, <2>2 DEF StateInv, OutHolds, WriterTold, ReaderTold, Unconnected
<1> QED
  BY <1>5, <1>6 DEF u

\* A finished transfer to the host has told the writer, and goes on unless the
\* ring is empty.
LEMMA RxFinishInv ==
    ASSUME pipe \in Pipe, NEW s \in StateType, RingOK(s), OutHolds(s),
           s.tx.ready, s.rx.ready
    PROVE  StateInv(RxFinish(s))
<1> DEFINE t == Take(s, s.in.cur_size)
           r == OnRead(t)
           u == RxFinish(s)
<1>0. s.in.cur_size \in Nat
  BY RingNumbers
<1>1. t \in StateType /\ RingOK(t) /\ OutHolds(t) /\ t.tx = s.tx /\ t.rx = s.rx
  BY <1>0, TakeFacts, OutHoldsTake
<1> HIDE DEF t
<1>2. /\ r \in StateType /\ RingOK(r) /\ OutHolds(r) /\ r.tx.ready /\ r.rx.ready
      /\ r.tx.data_notified
  <2>1. /\ r \in StateType /\ RingOK(r) /\ OutHolds(r)
        /\ r.tx.ready = t.tx.ready /\ r.rx.ready = t.rx.ready
        /\ t.tx.ready => r.tx.data_notified
    BY <1>1, OnReadFacts
  <2> HIDE DEF r
  <2> QED
    BY <1>1, <2>1
<1>3. u = IF Rbuf(r) > 0 THEN Send(r)
          ELSE [r EXCEPT !.in = [armed |-> FALSE, cur_size |-> 0, buffer |-> 0]]
  BY DEF RxFinish, Read, t
<1> HIDE DEF r, u
<1>4. Rbuf(r) \in Nat /\ (Rbuf(r) = 0 => r.ring.data_size = 0)
  BY <1>2, RingNumbers
<1>5. ASSUME Rbuf(r) > 0 PROVE StateInv(u)
  <2>1. u = Send(r)
    BY <1>3, <1>5
  <2>2. /\ u \in StateType /\ InHolds(u) /\ u.in.armed /\ u.ring = r.ring
        /\ u.tx = r.tx /\ u.rx = r.rx /\ u.out = r.out
    BY <1>2, <1>5, <2>1, SendFacts
  <2>3. RingOK(u) /\ OutHolds(u)
    BY <1>2, <2>2, SameRing
  <2> QED
    BY <1>2, <2>2, <2>3 DEF StateInv, WriterTold, ReaderTold, Unconnected
<1>6. ASSUME ~(Rbuf(r) > 0) PROVE StateInv(u)
  <2>1. /\ u \in StateType /\ u.ring = r.ring /\ u.tx = r.tx /\ u.rx = r.rx /\ u.out = r.out
        /\ ~u.in.armed
    BY <1>2, <1>3, <1>6, StopFacts
  <2>2. RingOK(u) /\ OutHolds(u) /\ u.ring.data_size = 0
    BY <1>2, <1>4, <1>6, <2>1, SameRing
  <2> QED
    BY <1>2, <2>1, <2>2 DEF StateInv, InHolds, WriterTold, ReaderTold, Unconnected
<1> QED
  BY <1>5, <1>6 DEF u

\* The connection starts the OUT endpoint, if a packet fits.
LEMMA ConnectInv ==
    ASSUME pipe \in Pipe, NEW s \in StateType, StateInv(s), ~s.rx.ready
    PROVE  StateInv(ConnectTx(ConnectRx(s)))
<1> DEFINE a == [s EXCEPT !.rx.ready = TRUE]
           c == RxEvthandler(a)
           e == TxEvthandler(c)
           f == [e EXCEPT !.tx.ready = TRUE]
           u == TxEvthandler(f)
<1>0. TRUE \in BOOLEAN
  OBVIOUS
<1>1. /\ a \in StateType /\ a.ring = s.ring /\ a.tx = s.tx /\ a.out = s.out /\ a.in = s.in
      /\ a.rx.ready = TRUE
  BY ONLY <1>0, SetFacts, s \in StateType, Zenon
<1>2. ConnectRx(s) = c
  BY DEF ConnectRx
<1> HIDE DEF a
<1>3. RingOK(a) /\ InHolds(a) /\ OutHolds(a)
  BY <1>1, SameRing DEF StateInv
<1>4. /\ c \in StateType /\ c.ring = a.ring /\ c.tx = a.tx /\ c.rx = a.rx /\ c.out = a.out
      /\ InHolds(c)
  BY <1>1, <1>3, RxEvthandlerFacts
<1>5. ConnectTx(c) = u
  <2>1. c.rx.ready
    BY <1>1, <1>4
  <2> QED
    BY <2>1 DEF ConnectTx
<1> HIDE DEF c
<1>6. RingOK(c) /\ OutHolds(c)
  BY <1>3, <1>4, SameRing
<1>7. /\ e \in StateType /\ RingOK(e) /\ OutHolds(e) /\ e.rx = c.rx /\ e.in = c.in
      /\ e.ring.data_size = c.ring.data_size /\ e.ring.rpos = c.ring.rpos
  BY <1>4, <1>6, TxEvthandlerFacts
<1> HIDE DEF e
<1>8. /\ f \in StateType /\ f.ring = e.ring /\ f.rx = e.rx /\ f.out = e.out /\ f.in = e.in
      /\ f.tx.ready = TRUE
  BY ONLY <1>0, <1>7, SetFacts, Zenon
<1> HIDE DEF f
<1>9. RingOK(f) /\ OutHolds(f)
  BY <1>7, <1>8, SameRing
<1>10. /\ u \in StateType /\ RingOK(u) /\ OutHolds(u) /\ u.tx = f.tx /\ u.rx = f.rx /\ u.in = f.in
       /\ u.ring.data_size = f.ring.data_size /\ u.ring.rpos = f.ring.rpos
       /\ u.out.armed \/ Avail(u) < EpSize
  BY <1>8, <1>9, TxEvthandlerFacts
<1> HIDE DEF u
<1>11. InHolds(u)
  BY <1>4, <1>7, <1>8, <1>10, InHoldsSame
<1>12. u.tx.ready /\ u.rx.ready /\ u.ring.data_size = 0
  BY <1>1, <1>4, <1>7, <1>8, <1>10 DEF StateInv, Unconnected
<1>13. Avail(u) \in Nat
  BY <1>10, RingNumbers
<1>14. WriterTold(u) /\ ReaderTold(u) /\ Unconnected(u)
  BY <1>10, <1>12, <1>13, EpSizeIsPositive DEF WriterTold, ReaderTold, Unconnected
<1>15. StateInv(u)
  BY <1>10, <1>11, <1>14 DEF StateInv
<1> QED
  BY <1>2, <1>5, <1>15 DEF c
\* An action that makes s the state keeps what holds of s.
LEMMA BecomesInv ==
    ASSUME pipe \in Pipe, UNCHANGED pipe, NEW s \in StateType, StateInv(s), Becomes(s),
           offered' \subseteq Nat
    PROVE  UsbInv'
<1>1. state' = s
  BY DEF state, Becomes, StateType
<1>2. StateInv(state)'
  BY <1>1 DEF StateInv, RingOK, OutHolds, InHolds, WriterTold, ReaderTold, Unconnected, Wbuf,
              Rbuf, Avail
<1> QED
  BY <1>2 DEF UsbInv

LEMMA PacketInv ==
    ASSUME UsbInv, NEW m \in pipe.packets, Packet(m)
    PROVE  UsbInv'
<1> DEFINE s    == state
           p    == Least(m, out.nSize)
           left == [s EXCEPT !.out.nSize = @ - p]
<1>1. /\ pipe \in Pipe /\ pipe' = pipe /\ StateInv(s) /\ s \in StateType
      /\ s.out = out /\ out.armed /\ offered' = {}
  BY DEF UsbInv, StateInv, Packet, state
<1>2. m \in Nat
  BY <1>1, EpSizeIsPositive DEF Pipe
<1>3. /\ s.tx.ready /\ s.rx.ready /\ RingOK(s) /\ InHolds(s) /\ OutHolds(s)
  BY <1>1 DEF StateInv, Unconnected
<1>4. Becomes(IF out.cur_size = 0 THEN TxFinish(s, m)
              ELSE IF left.out.nSize > 0 /\ p = EpSize THEN left
              ELSE TxFinish(left, out.cur_size - left.out.nSize))
  BY DEF Packet
<1>5. out \in OutType /\ out.nSize \in Nat /\ out.cur_size \in Nat /\ out.nSize <= out.cur_size
  BY <1>1, <1>3, RingNumbers DEF OutHolds
<1>6. p \in Nat /\ p <= out.nSize
  BY <1>2, <1>5 DEF Least
<1> HIDE DEF s, p
<1>7. /\ left \in StateType /\ left.ring = s.ring /\ left.tx = s.tx /\ left.rx = s.rx
      /\ left.in = s.in /\ left.out.nSize = out.nSize - p /\ left.out.cur_size = out.cur_size
      /\ left.out.armed = out.armed /\ left.out.buffer = out.buffer
  <2> DEFINE o == [out EXCEPT !.nSize = out.nSize - p]
  <2>1. out.nSize - p \in Nat
    BY <1>5, <1>6
  <2>2. /\ o \in OutType /\ o.nSize = out.nSize - p /\ o.cur_size = out.cur_size
        /\ o.armed = out.armed /\ o.buffer = out.buffer
    BY <1>5, <2>1 DEF OutType
  <2>3. left = [s EXCEPT !.out = o]
    BY <1>1 DEF StateType, OutType
  <2> HIDE DEF left, o
  <2> QED
    BY <1>1, <2>2, <2>3 DEF StateType
<1> HIDE DEF left
<1>8. StateInv(left) /\ RingOK(left) /\ InHolds(left)
  <2>1. RingOK(left) /\ InHolds(left) /\ Wbuf(left) = Wbuf(s) /\ Avail(left) = Avail(s)
    BY <1>3, <1>7, SameRing
  <2>2. OutHolds(left)
    BY <1>1, <1>3, <1>5, <1>6, <1>7, <2>1 DEF OutHolds
  <2>3. left.out.armed /\ (s.in.armed <=> left.in.armed)
    BY <1>1, <1>7
  <2>4. WriterTold(left) /\ ReaderTold(left) /\ Unconnected(left)
    BY <1>1, <1>3, <1>7, <2>3 DEF StateInv, WriterTold, ReaderTold, Unconnected
  <2> QED
    BY <1>7, <2>1, <2>2, <2>4 DEF StateInv
<1>9. out.cur_size - left.out.nSize \in Nat
  BY <1>5, <1>6, <1>7
<1>10. ASSUME NEW v, StateInv(v), Becomes(v) PROVE UsbInv'
  <2>1. v \in StateType
    BY <1>10 DEF StateInv
  <2> QED
    BY <1>1, <1>10, <2>1, BecomesInv
<1>11. CASE out.cur_size = 0
  BY <1>1, <1>2, <1>3, <1>4, <1>10, <1>11, TxFinishInv
<1>12. CASE out.cur_size # 0 /\ left.out.nSize > 0 /\ p = EpSize
  BY <1>4, <1>8, <1>10, <1>12
<1>13. CASE out.cur_size # 0 /\ ~(left.out.nSize > 0 /\ p = EpSize)
  <2>1. StateInv(TxFinish(left, out.cur_size - left.out.nSize))
    BY <1>1, <1>3, <1>7, <1>8, <1>9, TxFinishInv
  <2> QED
    BY <1>4, <1>10, <1>13, <2>1
<1> QED
  BY <1>11, <1>12, <1>13

LEMMA UsbInvInit == Init => UsbInv
<1> SUFFICES ASSUME Init PROVE UsbInv
  OBVIOUS
<1>1. pipe \in Pipe /\ pipe.size \in Nat \ {0}
  BY UsbStreamAssumption DEF Init, Pipe
<1>2. /\ ring \in RingType /\ tx \in EndType /\ rx \in EndType /\ out \in OutType /\ in \in InType
      /\ ring.data_size = 0 /\ ring.rpos = 0 /\ ring.wpos = 0
      /\ ~tx.ready /\ ~rx.ready /\ ~out.armed /\ ~in.armed
  BY DEF Init, RingType, EndType, OutType, InType
<1>3. /\ state \in StateType /\ state.ring = ring /\ state.tx = tx /\ state.rx = rx
      /\ state.out = out /\ state.in = in
  BY <1>2 DEF state, StateType
<1>4. StateInv(state)
  BY <1>1, <1>2, <1>3 DEF StateInv, RingOK, OutHolds, InHolds, WriterTold, ReaderTold, Unconnected
<1> QED
  BY <1>1, <1>4 DEF Init, UsbInv

LEMMA UsbInvNext == UsbInv /\ [Next]_vars => UsbInv'
<1> SUFFICES ASSUME UsbInv, [Next]_vars PROVE UsbInv'
  OBVIOUS
<1>1. /\ pipe \in Pipe /\ StateInv(state) /\ state \in StateType /\ offered \subseteq Nat
      /\ RingOK(state) /\ OutHolds(state) /\ InHolds(state)
      /\ state.ring = ring /\ state.tx = tx /\ state.rx = rx /\ state.out = out /\ state.in = in
  BY DEF UsbInv, StateInv, state
<1>2. ASSUME UNCHANGED <<pipe, ring, tx, rx, out, in>>, offered' \subseteq Nat PROVE UsbInv'
  <2>1. Becomes(state)
    BY <1>2 DEF Becomes, state
  <2> QED
    BY <1>1, <1>2, <2>1, BecomesInv
<1>3. CASE Connect
  <2>1. StateInv(ConnectTx(ConnectRx(state)))
    BY <1>1, <1>3, ConnectInv DEF Connect
  <2>2. ConnectTx(ConnectRx(state)) \in StateType
    BY <2>1 DEF StateInv
  <2> QED
    BY <1>1, <1>3, <2>1, <2>2, BecomesInv DEF Connect
<1>4. CASE Sent
  <2>1. state.tx.ready /\ state.rx.ready
    BY <1>1, <1>4 DEF Sent, StateInv, Unconnected
  <2>2. StateInv(RxFinish(state))
    BY <1>1, <2>1, RxFinishInv
  <2>3. RxFinish(state) \in StateType
    BY <2>2 DEF StateInv
  <2> QED
    BY <1>1, <1>4, <2>2, <2>3, BecomesInv DEF Sent
<1>5. ASSUME NEW m \in pipe.packets, Offer(m) PROVE UsbInv'
  <2>1. m \in Nat
    BY <1>1, EpSizeIsPositive DEF Pipe
  <2> QED
    BY <1>2, <1>5, <2>1 DEF Offer
<1>6. ASSUME NEW m \in pipe.packets, Packet(m) PROVE UsbInv'
  BY <1>6, PacketInv
<1>7. CASE UNCHANGED vars
  BY <1>1, <1>2, <1>7 DEF vars
<1> QED
  BY <1>3, <1>4, <1>5, <1>6, <1>7 DEF Next

\* The inductive invariant of the two endpoints: what each transfer holds of the
\* ring, and who has been told.
THEOREM UsbInvariance == Spec => []UsbInv
  BY UsbInvInit, UsbInvNext, PTL DEF Spec

(* ------------------------------ theorems ------------------------------ *)

\* Whatever packets come, short or empty ones too, and however the two endpoints
\* interleave, a transfer keeps the part of the ring it was given until it is
\* over: a read never makes the ring start over under a transfer from the host,
\* and a write never moves the bytes of one to the host (vsf_usbd.c:936-957 and
\* 1038-1061, vsf_mem_stream.c:201-211).
THEOREM UsbTransfersHoldTheirPart == Spec => []TransfersHoldTheirPart
<1>1. UsbInv => TransfersHoldTheirPart
  <2> SUFFICES ASSUME UsbInv PROVE TransfersHoldTheirPart
    OBVIOUS
  <2>1. /\ OutHolds(state) /\ InHolds(state)
        /\ state.ring = ring /\ state.out = out /\ state.in = in
    BY DEF UsbInv, StateInv, state
  <2> QED
    BY <2>1 DEF TransfersHoldTheirPart, OutHolds, InHolds
<1> QED
  BY <1>1, UsbInvariance, PTL

\* An endpoint that stands still although it could go on has been told by the
\* stream, for every ring size, also one that is not a number of packets: what
\* stops an endpoint for good is only that it was told too early, and is not told
\* again (vsfstream.c:38-74).
THEOREM UsbNobodyIsUntold == Spec => []NobodyIsUntold
<1>1. UsbInv => NobodyIsUntold
  <2> SUFFICES ASSUME UsbInv PROVE NobodyIsUntold
    OBVIOUS
  <2>1. /\ WriterTold(state) /\ ReaderTold(state)
        /\ state.ring = ring /\ state.out = out /\ state.in = in
        /\ state.tx = tx /\ state.rx = rx
    BY DEF UsbInv, StateInv, state
  <2> QED
    BY <2>1 DEF NobodyIsUntold, RoomUnused, BytesUnsent, WriterTold, ReaderTold
<1> QED
  BY <1>1, UsbInvariance, PTL
=============================================================================
