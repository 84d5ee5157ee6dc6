--------------------------- MODULE MemStreamProofs ---------------------------
(* The ring keeps the stream's promise, for every buffer size, when the       *)
(* writer does not preempt the reader and does not work in the buffer under a *)
(* reader that preempts it.                                                   *)
EXTENDS MemStream, SequenceTheorems, TLAPS

\* The uses of the ring that are safe.
Safe(u) == \/ u.preempts = "none"
           \/ u.preempts = "reader" /\ "writer" \notin u.inPlace

SafeUse == Safe(use)

\* The bytes that are read and released.
Released == Len(received) - (IF rop = "copied" THEN rsize ELSE 0)

ReaderOK ==
    /\ rop # "idle" => rsize <= data_size
    /\ rop \in {"sampled", "copied"} /\ ~rest => rsize = data_size
    /\ rop = "copied" => rsize <= Len(received)

RingOK ==
    /\ wpos = Wrap(rpos + data_size)
    /\ sent = Released + data_size
    /\ \A i \in 0 .. data_size - 1 : buffer[Wrap(rpos + i)] = Released + 1 + i

WriterOK ==
    /\ wop \notin {"idle", "committed"} => wsize <= Size - data_size
    /\ wop \in {"taken", "holds", "filled"} => "writer" \in InPlace
    /\ wop \in {"taken", "holds"} => wptr = wpos
    /\ wop \in {"marked", "copied", "holds", "filled"} => is_writing
    /\ wop \in {"copied", "filled"} =>
          \A i \in 0 .. wsize - 1 : buffer[Wrap(wpos + i)] = sent + 1 + i

\* The inductive invariant.
IInv == TypeOK /\ InOrder /\ ReaderOK /\ RingOK /\ WriterOK

USE MemStreamAssumption

(* ----------------------------- operators ------------------------------ *)

\* A position plus a size wraps to a position (% nSize,
\* vsf_mem_stream.c:172 and 205).
LEMMA WrapType ==
    ASSUME NEW x \in 0 .. 2 * Size - 1
    PROVE  Wrap(x) \in 0 .. Size - 1
  BY DEF Wrap

\* Copying into the buffer (vsf_mem_stream.c:156-167) leaves a buffer.
LEMMA FilledType ==
    ASSUME TypeOK, NEW p \in 0 .. Size - 1, NEW n \in 0 .. Size
    PROVE  Filled(p, n) \in [0 .. Size - 1 -> Nat]
  BY DEF Filled, TypeOK

\* How far position k is behind p, round the buffer.
Behind(p, k) == IF k >= p THEN k - p ELSE k + Size - p

\* What a position holds after a copy.
LEMMA FilledAt ==
    ASSUME NEW p, NEW n, NEW k \in 0 .. Size - 1
    PROVE  Filled(p, n)[k] = IF Behind(p, k) < n THEN sent + 1 + Behind(p, k)
                                                 ELSE buffer[k]
  BY DEF Filled, Behind

\* After a copy the new bytes are where the writer put them.
LEMMA FilledNew ==
    ASSUME NEW p \in 0 .. Size - 1, NEW n \in 0 .. Size, NEW i \in 0 .. n - 1
    PROVE  Filled(p, n)[Wrap(p + i)] = sent + 1 + i
<1>1. Wrap(p + i) \in 0 .. Size - 1 /\ Behind(p, Wrap(p + i)) = i /\ i < n
  BY DEF Wrap, Behind
<1>2. Filled(p, n)[Wrap(p + i)] =
         IF Behind(p, Wrap(p + i)) < n THEN sent + 1 + Behind(p, Wrap(p + i))
                                       ELSE buffer[Wrap(p + i)]
  BY ONLY <1>1, FilledAt
<1> QED
  BY ONLY <1>1, <1>2

\* A copy of no more than the room there is leaves the d bytes that are in the
\* ring as they were.
LEMMA FilledOld ==
    ASSUME NEW d \in 0 .. Size, NEW n \in 0 .. Size - d,
           NEW r \in 0 .. Size - 1, NEW i \in 0 .. d - 1
    PROVE  Filled(Wrap(r + d), n)[Wrap(r + i)] = buffer[Wrap(r + i)]
<1> DEFINE k == Wrap(r + i)
<1>1. k \in 0 .. Size - 1 /\ ~(Behind(Wrap(r + d), k) < n)
  BY DEF Wrap, Behind
<1>2. Filled(Wrap(r + d), n)[k] = buffer[k]
  BY ONLY <1>1, FilledAt
<1> QED
  BY <1>2

\* A copy out (vsf_mem_stream.c:188-199) appends the next n bytes to those
\* received.
LEMMA Received ==
    ASSUME TypeOK, InOrder, NEW n \in 0 .. data_size,
           \A i \in 0 .. data_size - 1 : buffer[Wrap(rpos + i)] = Len(received) + 1 + i,
           NEW r, r = received \o Bytes(rpos, n)
    PROVE  /\ r \in Seq(Nat) /\ Len(r) = Len(received) + n
           /\ \A i \in DOMAIN r : r[i] = i
<1> DEFINE b == Bytes(rpos, n)
<1>1. b \in Seq(Nat) /\ Len(b) = n
  <2>1. \A i \in 1 .. n : Wrap(rpos + i - 1) \in 0 .. Size - 1
    BY DEF TypeOK, Wrap
  <2>2. b \in [1 .. n -> Nat]
    BY <2>1 DEF TypeOK, Bytes
  <2> QED
    BY <2>2, n \in Nat DEF TypeOK
<1>2. \A i \in 1 .. n : b[i] = Len(received) + i
  <2> SUFFICES ASSUME NEW i \in 1 .. n PROVE b[i] = Len(received) + i
    OBVIOUS
  <2>1. i - 1 \in 0 .. data_size - 1 /\ rpos + (i - 1) = rpos + i - 1
    BY DEF TypeOK
  <2>2. b[i] = buffer[Wrap(rpos + (i - 1))]
    BY <2>1 DEF Bytes
  <2>3. Len(received) \in Nat
    BY LenProperties DEF TypeOK
  <2> QED
    BY <2>1, <2>2, <2>3
<1>3. received \in Seq(Nat) /\ Len(received) \in Nat /\ DOMAIN received = 1 .. Len(received)
  BY LenProperties DEF TypeOK
<1> HIDE DEF b
<1>4. /\ received \o b \in Seq(Nat) /\ Len(received \o b) = Len(received) + Len(b)
      /\ \A i \in 1 .. Len(received) + Len(b) : (received \o b)[i] =
            IF i <= Len(received) THEN received[i] ELSE b[i - Len(received)]
  BY ONLY <1>1, <1>3, ConcatProperties
<1>5. r = received \o b
  BY DEF b
<1>6. r \in Seq(Nat) /\ Len(r) = Len(received) + n /\ DOMAIN r = 1 .. Len(received) + n
  BY ONLY <1>1, <1>4, <1>5, LenProperties
<1>7. ASSUME NEW i \in 1 .. Len(received) + n PROVE r[i] = i
  <2>1. i \in Nat /\ n \in Nat /\ 1 <= i /\ i <= Len(received) + n
    BY <1>3, <1>7 DEF TypeOK
  <2>2. r[i] = IF i <= Len(received) THEN received[i] ELSE b[i - Len(received)]
    BY ONLY <1>1, <1>4, <1>5, <1>7
  <2>3. CASE i <= Len(received)
    BY <2>1, <2>2, <2>3, <1>3 DEF InOrder
  <2>4. CASE i > Len(received)
    <3>1. i - Len(received) \in 1 .. n
      BY ONLY <2>1, <2>4, <1>3
    <3>2. b[i - Len(received)] = Len(received) + (i - Len(received))
      BY ONLY <3>1, <1>2
    <3> QED
      BY ONLY <3>2, <2>1, <2>2, <2>4, <1>3
  <2> QED
    BY ONLY <2>1, <2>3, <2>4, <1>3
<1> QED
  BY <1>6, <1>7

(* ------------------------------- steps -------------------------------- *)

\* A new stream (vsf_mem_stream.c:80-92) satisfies the invariant.
LEMMA InitInv ==
    ASSUME Init
    PROVE  IInv
<1>1. received \in Seq(Nat) /\ Len(received) = 0
  BY EmptySeq DEF Init
<1>2. TypeOK
  <2>1. buffer \in [0 .. Size - 1 -> Nat] /\ is_writing \in BOOLEAN /\ rest \in BOOLEAN
    BY DEF Init
  <2> QED
    BY <1>1, <2>1 DEF Init, TypeOK
<1>3. InOrder
  BY <1>1, LenProperties DEF InOrder
<1>4. ReaderOK /\ RingOK /\ WriterOK
  BY <1>1 DEF Init, ReaderOK, RingOK, WriterOK, Released, Wrap
<1> QED
  BY <1>2, <1>3, <1>4 DEF IInv

\* What the writer does keeps the invariant.
LEMMA WriterSteps ==
    ASSUME IInv, SafeUse, WriterNext, UNCHANGED InPlace
    PROVE  IInv'
<1> USE DEF IInv
<1>1. ASSUME NEW n \in 0 .. MaxCount, WriteBegin(n) PROVE IInv'
  <2>1. TypeOK'
    BY <1>1 DEF TypeOK, WriteBegin, Least, Avail, ring, reader
  <2>2. InOrder' /\ ReaderOK' /\ RingOK'
    BY <1>1 DEF InOrder, ReaderOK, RingOK, Released, Wrap, WriteBegin, ring, reader
  <2>3. WriterOK'
    BY <1>1 DEF WriterOK, TypeOK, WriteBegin, Least, Avail, ring
  <2> QED
    BY <2>1, <2>2, <2>3
<1>2. ASSUME NEW n \in 0 .. MaxCount, WriteFilled(n) PROVE IInv'
  <2>1. n \in 0 .. Size - data_size /\ n \in 0 .. Size /\ wptr = wpos /\ wsize' = n
    BY <1>2 DEF WriteFilled, WriterOK, TypeOK, Least, Avail
  <2>2. TypeOK'
    <3>1. buffer' \in [0 .. Size - 1 -> Nat]
      BY <2>1, <1>2, FilledType DEF WriteFilled, TypeOK
    <3> QED
      BY <3>1, <2>1, <1>2 DEF WriteFilled, TypeOK, reader
  <2>3. InOrder' /\ ReaderOK'
    BY <1>2 DEF InOrder, ReaderOK, WriteFilled, reader
  <2>4. RingOK'
    <3>1. \A i \in 0 .. data_size - 1 : buffer'[Wrap(rpos + i)] = buffer[Wrap(rpos + i)]
      BY <2>1, <1>2, FilledOld DEF WriteFilled, RingOK, TypeOK
    <3> QED
      BY <3>1, <1>2 DEF RingOK, Released, WriteFilled, reader, Wrap
  <2>5. WriterOK'
    <3>1. \A i \in 0 .. n - 1 : buffer'[Wrap(wpos + i)] = sent + 1 + i
      BY <2>1, <1>2, FilledNew DEF WriteFilled, TypeOK
    <3>2. /\ wop' = "filled" /\ data_size' = data_size
          /\ wpos' = wpos /\ sent' = sent
      BY <1>2, Zenon DEF WriteFilled
    <3>3. "writer" \in InPlace /\ is_writing'
      BY <1>2, Zenon DEF WriterOK, WriteFilled
    <3>4. wsize' <= Size - data_size'
      <4>1. data_size \in 0 .. Size /\ Size \in Nat
        BY DEF TypeOK
      <4> QED
        BY ONLY <4>1, <3>2, <2>1
    <3>5. \A i \in 0 .. wsize' - 1 : buffer'[Wrap(wpos' + i)] = sent' + 1 + i
      BY <3>1, <3>2, <2>1
    <3> QED
      BY <3>2, <3>3, <3>4, <3>5 DEF WriterOK
  <2> QED
    BY <2>2, <2>3, <2>4, <2>5
<1>3. CASE WriteMark
  <2>1. TypeOK'
    BY <1>3 DEF TypeOK, WriteMark, reader
  <2>2. InOrder' /\ ReaderOK' /\ RingOK'
    BY <1>3 DEF InOrder, ReaderOK, RingOK, Released, Wrap, WriteMark, reader
  <2>3. WriterOK'
    BY <1>3 DEF WriterOK, WriteMark
  <2> QED
    BY <2>1, <2>2, <2>3
<1>4. CASE WriteCopy
  <2>1. wsize \in 0 .. Size - data_size
    BY <1>4 DEF WriteCopy, WriterOK, TypeOK
  <2>2. TypeOK'
    <3>1. buffer' \in [0 .. Size - 1 -> Nat]
      BY <1>4, FilledType DEF WriteCopy, TypeOK
    <3> QED
      BY <3>1, <1>4 DEF WriteCopy, TypeOK, reader
  <2>3. InOrder' /\ ReaderOK'
    BY <1>4 DEF InOrder, ReaderOK, WriteCopy, reader
  <2>4. RingOK'
    <3>1. \A i \in 0 .. data_size - 1 : buffer'[Wrap(rpos + i)] = buffer[Wrap(rpos + i)]
      BY <2>1, <1>4, FilledOld DEF WriteCopy, RingOK, TypeOK
    <3> QED
      BY <3>1, <1>4 DEF RingOK, Released, WriteCopy, reader, Wrap
  <2>5. WriterOK'
    <3>1. \A i \in 0 .. wsize - 1 : buffer'[Wrap(wpos + i)] = sent + 1 + i
      BY <2>1, <1>4, FilledNew DEF WriteCopy, TypeOK
    <3> QED
      BY <3>1, <2>1, <1>4 DEF WriterOK, WriteCopy, Wrap
  <2> QED
    BY <2>2, <2>3, <2>4, <2>5
<1>5. CASE WriteCommit
  <2>1. /\ wsize \in 0 .. Size - data_size
        /\ \A i \in 0 .. wsize - 1 : buffer[Wrap(wpos + i)] = sent + 1 + i
    BY <1>5 DEF WriteCommit, WriterOK, TypeOK
  <2>2. TypeOK'
    BY <2>1, <1>5 DEF WriteCommit, TypeOK, reader, Wrap
  <2>3. InOrder'
    BY <1>5 DEF InOrder, WriteCommit, reader
  <2>4. ReaderOK'
    <3>1. rop \in {"idle", "holds"}
      BY <1>5 DEF WriteCommit, WriterMay, SafeUse, Safe, Preempts, ReaderOut
    <3> QED
      BY <3>1, <2>1, <1>5 DEF ReaderOK, TypeOK, WriteCommit, reader
  <2>5. RingOK'
    <3>1. ASSUME NEW i \in 0 .. data_size + wsize - 1
          PROVE  buffer[Wrap(rpos + i)] = Released + 1 + i
      <4>1. CASE i < data_size
        BY <4>1 DEF RingOK, TypeOK
      <4>2. CASE i >= data_size
        <5> DEFINE j == i - data_size
        <5>1. j \in 0 .. wsize - 1 /\ Wrap(wpos + j) = Wrap(rpos + i)
          BY <4>2, <2>1 DEF RingOK, TypeOK, Wrap
        <5>2. sent + 1 + j = Released + 1 + i
          <6>1. Released \in Int
            BY LenProperties DEF Released, TypeOK
          <6> QED
            BY <6>1, <4>2 DEF RingOK, TypeOK
        <5> QED
          BY <5>1, <5>2, <2>1
      <4> QED
        BY <4>1, <4>2 DEF TypeOK
    <3>2. wpos' = Wrap(rpos + (data_size + wsize))
      BY <2>1, <1>5 DEF WriteCommit, RingOK, TypeOK, Wrap
    <3>3. Released' = Released /\ Released \in Int
      BY <1>5, LenProperties DEF Released, WriteCommit, reader, TypeOK
    <3>4. sent' = Released + (data_size + wsize)
      BY <3>3, <2>1, <1>5 DEF WriteCommit, RingOK, TypeOK
    <3>5. data_size' = data_size + wsize /\ UNCHANGED <<buffer, rpos>>
      BY <1>5 DEF WriteCommit
    <3>6. \A i \in 0 .. data_size' - 1 : buffer'[Wrap(rpos' + i)] = Released' + 1 + i
      <4> SUFFICES ASSUME NEW i \in 0 .. data_size' - 1
                   PROVE  buffer'[Wrap(rpos' + i)] = Released' + 1 + i
        OBVIOUS
      <4>1. i \in 0 .. data_size + wsize - 1
        BY <3>5, <2>1 DEF TypeOK
      <4>2. Wrap(rpos' + i) = Wrap(rpos + i)
        BY <3>5
      <4> QED
        BY <4>1, <4>2, <3>1, <3>3, <3>5
    <3>7. wpos' = Wrap(rpos' + data_size')
      BY <3>2, <3>5
    <3>8. sent' = Released' + data_size'
      BY <3>3, <3>4, <3>5
    <3> QED
      BY <3>6, <3>7, <3>8 DEF RingOK, Wrap
  <2>6. WriterOK'
    BY <1>5 DEF WriterOK, WriteCommit
  <2> QED
    BY <2>2, <2>3, <2>4, <2>5, <2>6
<1>6. CASE WriteUnmark
  <2>1. TypeOK'
    <3>1. is_writing' \in BOOLEAN
      BY <1>6 DEF WriteUnmark
    <3>2. wsize' \in 0 .. Size /\ wptr' \in 0 .. Size - 1
      BY <1>6 DEF WriteUnmark
    <3> QED
      BY <3>1, <3>2, <1>6 DEF TypeOK, WriteUnmark, reader
  <2>2. InOrder' /\ ReaderOK' /\ RingOK'
    BY <1>6 DEF InOrder, ReaderOK, RingOK, Released, Wrap, WriteUnmark, reader
  <2>3. WriterOK'
    BY <1>6 DEF WriterOK, WriteUnmark
  <2> QED
    BY <2>1, <2>2, <2>3
<1>7. CASE GetWbuf
  <2>1. TypeOK'
    BY <1>7 DEF TypeOK, GetWbuf, Least, Avail, ring, reader
  <2>2. InOrder' /\ ReaderOK' /\ RingOK'
    BY <1>7 DEF InOrder, ReaderOK, RingOK, Released, Wrap, GetWbuf, ring, reader
  <2>3. WriterOK'
    BY <1>7 DEF WriterOK, TypeOK, GetWbuf, Least, Avail, ring
  <2> QED
    BY <2>1, <2>2, <2>3
<1>8. CASE GetWbufMark
  <2>1. TypeOK'
    BY <1>8 DEF TypeOK, GetWbufMark, reader
  <2>2. InOrder' /\ ReaderOK' /\ RingOK'
    BY <1>8 DEF InOrder, ReaderOK, RingOK, Released, Wrap, GetWbufMark, reader
  <2>3. WriterOK'
    BY <1>8 DEF WriterOK, GetWbufMark
  <2> QED
    BY <2>1, <2>2, <2>3
<1>9. CASE WriteFilledMark
  <2>1. TypeOK'
    BY <1>9 DEF TypeOK, WriteFilledMark, reader
  <2>2. InOrder' /\ ReaderOK' /\ RingOK'
    BY <1>9 DEF InOrder, ReaderOK, RingOK, Released, Wrap, WriteFilledMark, reader
  <2>3. WriterOK'
    BY <1>9 DEF WriterOK, WriteFilledMark, Wrap
  <2> QED
    BY <2>1, <2>2, <2>3
<1> QED
  BY <1>1, <1>2, <1>3, <1>4, <1>5, <1>6, <1>7, <1>8, <1>9 DEF WriterNext

\* So does what the reader does, while the writer is out of the way or the
\* reader preempts it.
LEMMA ReaderSteps ==
    ASSUME IInv, SafeUse, ReaderNext, UNCHANGED InPlace
    PROVE  IInv'
<1> USE DEF IInv
<1>1. ASSUME NEW n \in 0 .. MaxCount, ReadBegin(n) PROVE IInv'
  <2>1. rsize' = Least(data_size, n) /\ rest' = (n < data_size)
        /\ rop' = "sampled" /\ UNCHANGED <<ring, received, writer>>
    BY <1>1, Zenon DEF ReadBegin
  <2>2. rsize' \in 0 .. data_size /\ data_size' = data_size /\ data_size \in 0 .. Size
        /\ (~(n < data_size) => rsize' = data_size)
    BY <2>1 DEF Least, TypeOK, ring
  <2>3. TypeOK'
    <3>1. rsize' \in 0 .. Size
      BY <2>2
    <3> QED
      BY <3>1, <2>1 DEF TypeOK, ring, writer
  <2>4. ReaderOK'
    <3>1. ~rest' => rsize' = data_size'
      BY <2>1, <2>2, Zenon
    <3>2. rsize' <= data_size'
      BY ONLY <2>2
    <3> QED
      BY <3>1, <3>2, <2>1, Zenon DEF ReaderOK
  <2>5. InOrder' /\ WriterOK'
    BY <2>1 DEF InOrder, WriterOK, ring, writer, Wrap
  <2>6. RingOK'
    BY <1>1 DEF RingOK, Released, Wrap, ReadBegin, ring, writer
  <2> QED
    BY <2>3, <2>4, <2>5, <2>6
<1>2. CASE ReadCopy
  <2>1. /\ rop = "sampled" /\ rop' = "copied"
        /\ received' = received \o Bytes(rpos, rsize)
        /\ UNCHANGED <<buffer, data_size, rpos, wpos, is_writing, rsize, rest, writer>>
    BY <1>2, Zenon DEF ReadCopy, ring
  <2>2. rsize \in 0 .. data_size /\ Released = Len(received)
    BY <2>1, LenProperties DEF ReaderOK, TypeOK, Released
  <2>3. \A i \in 0 .. data_size - 1 : buffer[Wrap(rpos + i)] = Len(received) + 1 + i
    BY <2>2 DEF RingOK
  <2>4. /\ received' \in Seq(Nat) /\ Len(received') = Len(received) + rsize
        /\ \A i \in DOMAIN received' : received'[i] = i
    BY ONLY <2>1, <2>2, <2>3, IInv, Received DEF IInv
  <2>5. Released' = Released
    <3>1. Len(received) \in Nat /\ rsize \in Nat
      BY LenProperties DEF TypeOK
    <3> QED
      BY ONLY <3>1, <2>1, <2>2, <2>4 DEF Released
  <2>6. TypeOK'
    BY <2>1, <2>4 DEF TypeOK, writer
  <2>7. InOrder'
    BY <2>4 DEF InOrder
  <2>8. ReaderOK'
    <3>1. Len(received) \in Nat /\ rsize \in Nat
      BY LenProperties DEF TypeOK
    <3> QED
      BY <3>1, <2>1, <2>2, <2>4 DEF ReaderOK
  <2>9. RingOK' /\ WriterOK'
    BY <2>1, <2>5 DEF RingOK, WriterOK, writer, Wrap
  <2> QED
    BY <2>6, <2>7, <2>8, <2>9
<1>3. CASE GetRbuf
  <2>1. /\ rsize' = Least(Size - rpos, data_size) /\ rop = "idle" /\ rop' = "holds"
        /\ UNCHANGED <<buffer, data_size, rpos, wpos, is_writing, rest, received, writer>>
    BY <1>3, Zenon DEF GetRbuf, ring
  <2>2. rsize' \in 0 .. data_size /\ data_size \in 0 .. Size
    BY <2>1 DEF Least, TypeOK
  <2>3. TypeOK'
    <3>1. rsize' \in 0 .. Size
      BY <2>2
    <3> QED
      BY <3>1, <2>1 DEF TypeOK, writer
  <2>4. ReaderOK'
    BY <2>1, <2>2 DEF ReaderOK
  <2>5. InOrder' /\ WriterOK'
    BY <2>1 DEF InOrder, WriterOK, writer, Wrap
  <2>6. RingOK'
    BY <2>1 DEF RingOK, Released, Wrap, writer
  <2> QED
    BY <2>3, <2>4, <2>5, <2>6
<1>4. ASSUME NEW n \in 0 .. MaxCount, ReadTaken(n) PROVE IInv'
  <2>1. /\ rop = "holds" /\ rop' = "copied" /\ n <= rsize
        /\ received' = received \o Bytes(rpos, n)
        /\ rsize' = Least(data_size, n) /\ rest' = (n < data_size)
        /\ UNCHANGED <<buffer, data_size, rpos, wpos, is_writing, writer>>
    BY <1>4, Zenon DEF ReadTaken, ring
  <2>2. n \in 0 .. data_size /\ rsize' = n /\ Released = Len(received)
        /\ data_size \in 0 .. Size
    BY <2>1, LenProperties DEF ReaderOK, TypeOK, Released, Least
  <2>3. \A i \in 0 .. data_size - 1 : buffer[Wrap(rpos + i)] = Len(received) + 1 + i
    BY <2>2 DEF RingOK
  <2>4. /\ received' \in Seq(Nat) /\ Len(received') = Len(received) + n
        /\ \A i \in DOMAIN received' : received'[i] = i
    BY ONLY <2>1, <2>2, <2>3, IInv, Received DEF IInv
  <2>5. Len(received) \in Nat /\ n \in Nat
    BY LenProperties DEF TypeOK
  <2>6. Released' = Released
    BY ONLY <2>5, <2>1, <2>2, <2>4 DEF Released
  <2>7. TypeOK'
    <3>1. rest' \in BOOLEAN
      BY <2>1
    <3>2. rsize' \in 0 .. Size
      BY <2>2
    <3> QED
      BY <3>1, <3>2, <2>1, <2>4 DEF TypeOK, writer
  <2>8. InOrder'
    BY <2>4 DEF InOrder
  <2>9. ReaderOK'
    <3>1. ~rest' => rsize' = data_size'
      <4>1. ~(n < data_size) => n = data_size
        BY ONLY <2>2
      <4> QED
        BY <4>1, <2>1, <2>2, Zenon
    <3>2. rsize' <= data_size' /\ rsize' <= Len(received')
      BY ONLY <2>1, <2>2, <2>4, <2>5
    <3> QED
      BY <3>1, <3>2, <2>1 DEF ReaderOK
  <2>10. RingOK' /\ WriterOK'
    BY <2>1, <2>6 DEF RingOK, WriterOK, writer, Wrap
  <2> QED
    BY <2>7, <2>8, <2>9, <2>10
<1>5. CASE ReadRelease
  <2>1. /\ rop = "copied" /\ rop' = "idle" /\ rsize' = 0 /\ rest' = FALSE
        /\ data_size' = data_size - rsize
        /\ rpos' = IF StartsOver THEN 0 ELSE Wrap(rpos + rsize)
        /\ wpos' = IF StartsOver THEN 0 ELSE wpos
        /\ UNCHANGED <<buffer, is_writing, received, writer>>
    BY <1>5, Zenon DEF ReadRelease
  <2>2. /\ rsize \in 0 .. data_size /\ data_size \in 0 .. Size /\ rpos \in 0 .. Size - 1
        /\ rsize <= Len(received) /\ Len(received) \in Nat
        /\ Released = Len(received) - rsize /\ Released' = Len(received)
        /\ Released' = Released + rsize
    BY <2>1, LenProperties DEF ReaderOK, TypeOK, Released
  <2>3. StartsOver => rsize = data_size /\ ~is_writing
    BY <2>1, Zenon DEF StartsOver, ReaderOK
  <2>4. TypeOK'
    <3>1. data_size' \in 0 .. Size
      BY ONLY <2>1, <2>2, MemStreamAssumption DEF MemStreamAssumption
    <3>2. Wrap(rpos + rsize) \in 0 .. Size - 1 /\ 0 \in 0 .. Size - 1
          /\ wpos \in 0 .. Size - 1
      BY <2>2 DEF Wrap, TypeOK
    <3>3. rpos' \in 0 .. Size - 1 /\ wpos' \in 0 .. Size - 1
      BY ONLY <2>1, <3>2
    <3>4. rest' \in BOOLEAN /\ rsize' \in 0 .. Size
      <4>1. rest' = FALSE /\ rsize' = 0
        BY <2>1, Zenon
      <4>2. rest' \in BOOLEAN
        BY ONLY <4>1, Zenon
      <4> QED
        BY ONLY <4>1, <4>2, MemStreamAssumption DEF MemStreamAssumption
    <3> QED
      BY <3>1, <3>3, <3>4, <2>1 DEF TypeOK, writer
  <2>5. InOrder' /\ ReaderOK'
    BY <2>1 DEF InOrder, ReaderOK
  <2>6. RingOK'
    <3>1. sent' = Released' + data_size'
      BY <2>1, <2>2 DEF RingOK, writer
    <3>2. CASE StartsOver
      <4>1. rpos' = 0 /\ wpos' = 0 /\ data_size' = 0
        BY <3>2, <2>1, <2>2, <2>3
      <4>2. wpos' = Wrap(rpos' + data_size')
        BY <4>1 DEF Wrap
      <4>3. \A i \in 0 .. data_size' - 1 : buffer'[Wrap(rpos' + i)] = Released' + 1 + i
        BY <4>1
      <4> QED
        BY <3>1, <4>2, <4>3 DEF RingOK, Wrap
    <3>3. CASE ~StartsOver
      <4>1. rpos' = Wrap(rpos + rsize) /\ wpos' = wpos
        BY <3>3, <2>1
      <4>2. Wrap(rpos' + data_size') = Wrap(rpos + data_size)
        BY ONLY <4>1, <2>1, <2>2, MemStreamAssumption DEF Wrap, MemStreamAssumption
      <4>3. wpos' = Wrap(rpos' + data_size')
        BY <4>1, <4>2 DEF RingOK
      <4>4. ASSUME NEW i \in 0 .. data_size' - 1
            PROVE  buffer'[Wrap(rpos' + i)] = Released' + 1 + i
        <5>1. rsize + i \in 0 .. data_size - 1
          BY ONLY <4>4, <2>1, <2>2
        <5>2. Wrap(rpos' + i) = Wrap(rpos + (rsize + i))
          BY ONLY <5>1, <4>1, <4>4, <2>1, <2>2, MemStreamAssumption
             DEF Wrap, MemStreamAssumption
        <5>3. buffer[Wrap(rpos + (rsize + i))] = Released + 1 + (rsize + i)
          BY <5>1 DEF RingOK
        <5>4. Released + 1 + (rsize + i) = Released' + 1 + i
          BY ONLY <5>1, <4>4, <2>1, <2>2
        <5>5. buffer' = buffer
          BY <2>1
        <5> QED
          BY ONLY <5>2, <5>3, <5>4, <5>5
      <4> QED
        BY <3>1, <4>3, <4>4 DEF RingOK, Wrap
    <3> QED
      BY <3>2, <3>3
  <2>7. WriterOK'
    <3>1. UNCHANGED <<buffer, is_writing, wop, wsize, wptr, sent>>
      BY <2>1 DEF writer
    <3>2. wop \notin {"idle", "committed"} => wsize <= Size - data_size'
      <4>1. wsize \in Nat /\ Size \in Nat
        BY DEF TypeOK
      <4>2. wop \notin {"idle", "committed"} => wsize <= Size - data_size
        BY Zenon DEF WriterOK
      <4> QED
        BY ONLY <4>1, <4>2, <2>1, <2>2
    <3>3. wop \in {"taken", "holds", "copied", "filled"} => wpos' = wpos
      <4>1. wop \in {"holds", "copied", "filled"} => ~StartsOver
        BY <2>3, Zenon DEF WriterOK
      <4>2. wop # "taken"
        BY <1>5 DEF ReadRelease, ReaderMay, SafeUse, Safe, Preempts, InPlace, WriterOut, WriterOK
      <4> QED
        BY ONLY <4>1, <4>2, <2>1
    <3> QED
      BY <3>1, <3>2, <3>3 DEF WriterOK, Wrap
  <2> QED
    BY <2>4, <2>5, <2>6, <2>7
<1> QED
  BY <1>1, <1>2, <1>3, <1>4, <1>5 DEF ReaderNext

(* ------------------------------ theorems ------------------------------ *)

\* The invariant speaks of the variables only.
LEMMA Stutter ==
    ASSUME IInv, UNCHANGED vars
    PROVE  IInv'
  BY DEF IInv, TypeOK, InOrder, ReaderOK, RingOK, WriterOK, Released, Wrap,
         InPlace, vars, ring, writer, reader

\* When all uses are safe, the ring satisfies the invariant between any two
\* steps of a read and a write (vsf_mem_stream.c:119-211).
THEOREM Invariance ==
    ASSUME \A u \in Uses : Safe(u)
    PROVE  Spec => [](SafeUse /\ IInv)
<1>1. Init => SafeUse /\ IInv
  BY InitInv DEF Init, SafeUse
<1>2. SafeUse /\ IInv /\ [Next]_vars => (SafeUse /\ IInv)'
  <2> SUFFICES ASSUME SafeUse, IInv, [Next]_vars PROVE (SafeUse /\ IInv)'
    OBVIOUS
  <2>1. use' = use
    BY DEF Next, vars
  <2>2. SafeUse' /\ UNCHANGED InPlace
    BY <2>1 DEF SafeUse, InPlace, Safe
  <2>3. IInv'
    BY <2>2, WriterSteps, ReaderSteps, Stutter DEF Next
  <2> QED
    BY <2>2, <2>3
<1> QED
  BY <1>1, <1>2, PTL DEF Spec

\* When all uses are safe, data_size and both positions (vsf_mem_stream.h:79-82)
\* stay in their ranges, whatever the size of the buffer and wherever one call
\* cuts into the other.
THEOREM TypeCorrect ==
    ASSUME \A u \in Uses : Safe(u)
    PROVE  Spec => []TypeOK
<1>1. IInv => TypeOK
  BY DEF IInv
<1> QED
  BY <1>1, Invariance, PTL

\* When all uses are safe, every byte read is the next one written, wherever a
\* read and a write (vsf_mem_stream.c:148-211) cut into each other.
THEOREM InOrderAlways ==
    ASSUME \A u \in Uses : Safe(u)
    PROVE  Spec => []InOrder
<1>1. IInv => InOrder
  BY DEF IInv
<1> QED
  BY <1>1, Invariance, PTL

(* ----------------------------- refinement ----------------------------- *)

\* The n bytes written after byte a.
Run(a, n) == [i \in 1 .. n |-> a + i]

\* Such a run is a sequence of n numbers.
LEMMA RunType ==
    ASSUME NEW a \in Nat, NEW n \in Nat
    PROVE  Run(a, n) \in Seq(Nat) /\ Len(Run(a, n)) = n
<1>1. Run(a, n) \in [1 .. n -> Nat]
  BY DEF Run
<1> QED
  BY <1>1

\* Two runs, one after the other, are a run.
LEMMA RunConcat ==
    ASSUME NEW a \in Nat, NEW m \in Nat, NEW n \in Nat
    PROVE  Run(a, m) \o Run(a + m, n) = Run(a, m + n)
<1> DEFINE s == Run(a, m)
           t == Run(a + m, n)
           u == Run(a, m + n)
<1>1. /\ s \in Seq(Nat) /\ Len(s) = m /\ t \in Seq(Nat) /\ Len(t) = n
      /\ u \in Seq(Nat) /\ Len(u) = m + n
  <2>1. a + m \in Nat /\ m + n \in Nat
    OBVIOUS
  <2> HIDE DEF s, t, u
  <2>2. s \in Seq(Nat) /\ Len(s) = m
    BY ONLY RunType, a \in Nat, m \in Nat DEF s
  <2>3. t \in Seq(Nat) /\ Len(t) = n
    BY ONLY RunType, <2>1, n \in Nat DEF t
  <2>4. u \in Seq(Nat) /\ Len(u) = m + n
    BY ONLY RunType, <2>1, a \in Nat DEF u
  <2> QED
    BY ONLY <2>2, <2>3, <2>4
<1>2. /\ s \o t \in Seq(Nat) /\ Len(s \o t) = m + n
      /\ \A i \in 1 .. m + n : (s \o t)[i] = IF i <= m THEN s[i] ELSE t[i - m]
  <2> HIDE DEF s, t
  <2> QED
    BY ONLY <1>1, ConcatProperties
<1>3. ASSUME NEW i \in 1 .. m + n PROVE (s \o t)[i] = u[i]
  <2>1. CASE i <= m
    BY <1>2, <2>1 DEF Run
  <2>2. CASE i > m
    <3>1. i - m \in 1 .. n /\ (a + m) + (i - m) = a + i
      BY <2>2
    <3> QED
      BY <1>2, <2>2, <3>1 DEF Run
  <2>3. i <= m \/ i > m
    OBVIOUS
  <2> QED
    BY ONLY <2>1, <2>2, <2>3
<1> HIDE DEF s, t, u
<1>4. s \o t = u
  BY ONLY <1>1, <1>2, <1>3, SeqEqual
<1> QED
  BY <1>4 DEF s, t, u

\* So is what a run leaves when its first n bytes are taken.
LEMMA RunRest ==
    ASSUME NEW a \in Nat, NEW m \in Nat, NEW n \in 1 .. m
    PROVE  SubSeq(Run(a, m), n + 1, m) = Run(a + n, m - n)
<1> DEFINE s == Run(a, m)
<1>1. s \in Seq(Nat) /\ Len(s) = m
  BY RunType
<1>2. SubSeq(s, n + 1, m) = [i \in 1 .. m - n |-> s[i + n]]
  OBVIOUS
<1>3. \A i \in 1 .. m - n : s[i + n] = a + n + i
  BY DEF Run
<1> QED
  BY <1>2, <1>3 DEF Run

\* The ring holds the run of the bytes that follow those released.
LEMMA ContentsAre ==
    ASSUME IInv
    PROVE  /\ Contents = Run(Released, data_size)
           /\ Released \in Nat /\ data_size \in 0 .. Size
<1>1. Released \in Nat /\ data_size \in 0 .. Size
  BY LenProperties DEF IInv, TypeOK, ReaderOK, Released
<1>2. ASSUME NEW i \in 1 .. data_size
      PROVE  buffer[Wrap(rpos + i - 1)] = Released + i
  <2>1. i - 1 \in 0 .. data_size - 1 /\ rpos + (i - 1) = rpos + i - 1
        /\ Released + 1 + (i - 1) = Released + i
    BY <1>1 DEF IInv, TypeOK
  <2>2. buffer[Wrap(rpos + (i - 1))] = Released + 1 + (i - 1)
    BY <2>1 DEF IInv, RingOK
  <2> QED
    BY <2>1, <2>2
<1> QED
  BY <1>1, <1>2 DEF Contents, Bytes, Run

\* What a step does to the stream: nothing, one commit or one release.
LEMMA Effects ==
    ASSUME IInv, [Next]_vars, SafeUse
    PROVE  \/ UNCHANGED <<data_size, sent>> /\ Released' = Released
           \/ \E n \in 0 .. Size - data_size :
                 /\ data_size' = data_size + n /\ sent' = sent + n
                 /\ Released' = Released
           \/ \E n \in 0 .. data_size :
                 /\ data_size' = data_size - n /\ sent' = sent
                 /\ Released' = Released + n
<1> USE DEF IInv
<1>1. CASE UNCHANGED vars
  BY <1>1 DEF vars, ring, writer, reader, Released
<1>2. CASE WriteCommit
  <2>1. wsize \in 0 .. Size - data_size
    BY <1>2 DEF WriteCommit, WriterOK, TypeOK
  <2>2. Released' = Released
    BY <1>2 DEF WriteCommit, reader, Released
  <2> QED
    BY <2>1, <2>2, <1>2 DEF WriteCommit
<1>3. CASE ReadRelease
  <2>1. /\ rop = "copied" /\ rop' = "idle" /\ received' = received
        /\ data_size' = data_size - rsize /\ sent' = sent
    BY <1>3, Zenon DEF ReadRelease, writer
  <2>2. rsize \in 0 .. data_size /\ Len(received) \in Nat
    BY <2>1, LenProperties DEF ReaderOK, TypeOK
  <2>3. Released' = Released + rsize
    BY ONLY <2>1, <2>2 DEF Released
  <2> QED
    BY ONLY <2>1, <2>2, <2>3
<1>4. CASE ReadCopy
  <2>1. Released' = Released
    <3>1. /\ rop = "sampled" /\ rop' = "copied"
          /\ received' = received \o Bytes(rpos, rsize) /\ rsize' = rsize
      BY <1>4, Zenon DEF ReadCopy
    <3>2. rsize \in 0 .. data_size /\ Released = Len(received)
      BY <3>1, LenProperties DEF ReaderOK, TypeOK, Released
    <3>3. \A i \in 0 .. data_size - 1 : buffer[Wrap(rpos + i)] = Len(received) + 1 + i
      BY <3>2 DEF RingOK
    <3>4. Len(received') = Len(received) + rsize
      BY ONLY <3>1, <3>2, <3>3, IInv, Received DEF IInv
    <3>5. Len(received) \in Nat /\ rsize \in Nat
      BY LenProperties DEF TypeOK
    <3> QED
      BY ONLY <3>1, <3>2, <3>4, <3>5 DEF Released
  <2> QED
    BY <2>1, <1>4 DEF ReadCopy, ring, writer
<1>5. ASSUME NEW n \in 0 .. MaxCount, ReadTaken(n)
      PROVE  UNCHANGED <<data_size, sent>> /\ Released' = Released
  <2>1. Released' = Released
    <3>1. /\ rop = "holds" /\ rop' = "copied" /\ n <= rsize
          /\ received' = received \o Bytes(rpos, n) /\ rsize' = Least(data_size, n)
      BY <1>5, Zenon DEF ReadTaken
    <3>2. n \in 0 .. data_size /\ rsize' = n /\ Released = Len(received)
      BY <3>1, LenProperties DEF ReaderOK, TypeOK, Released, Least
    <3>3. \A i \in 0 .. data_size - 1 : buffer[Wrap(rpos + i)] = Len(received) + 1 + i
      BY <3>2 DEF RingOK
    <3>4. Len(received') = Len(received) + n
      BY ONLY <3>1, <3>2, <3>3, IInv, Received DEF IInv
    <3>5. Len(received) \in Nat /\ n \in Nat
      BY LenProperties DEF TypeOK
    <3> QED
      BY ONLY <3>1, <3>2, <3>4, <3>5 DEF Released
  <2> QED
    BY <2>1, <1>5 DEF ReadTaken, ring, writer
<1>6. ASSUME NEW n \in 0 .. MaxCount, ReadBegin(n)
      PROVE  UNCHANGED <<data_size, sent>> /\ Released' = Released
  BY <1>6 DEF ReadBegin, Released, ring, writer
<1>7. CASE GetRbuf
  BY <1>7 DEF GetRbuf, Released, ring, writer
<1>8. ASSUME NEW n \in 0 .. MaxCount, WriteBegin(n) \/ WriteFilled(n)
      PROVE  UNCHANGED <<data_size, sent>> /\ Released' = Released
  BY <1>8 DEF WriteBegin, WriteFilled, Released, ring, reader
<1>9. CASE \/ WriteMark \/ WriteCopy \/ WriteUnmark
          \/ GetWbuf \/ GetWbufMark \/ WriteFilledMark
  BY <1>9 DEF WriteMark, WriteCopy, WriteUnmark, GetWbuf, GetWbufMark,
              WriteFilledMark, Released, ring, reader
<1> QED
  BY <1>1, <1>2, <1>3, <1>4, <1>5, <1>6, <1>7, <1>8, <1>9 DEF Next, WriterNext, ReaderNext

\* When all uses are safe, the ring implements the byte stream: a commit
\* (vsf_mem_stream.c:169-173) puts bytes in, a release (201-209) takes bytes
\* out, and no other step is seen.
THEOREM RingImplementsFifo ==
    ASSUME \A u \in Uses : Safe(u)
    PROVE  Spec => ImplementsFifo
<1>1. Init => Fifo!FifoInit
  <2> SUFFICES ASSUME Init PROVE Fifo!FifoInit
    OBVIOUS
  <2>1. Contents = Run(Released, 0) /\ Released \in Nat
    BY InitInv, ContentsAre DEF Init
  <2>2. Run(Released, 0) = <<>>
    BY <2>1, RunType, EmptySeq
  <2> QED
    BY <2>1, <2>2 DEF Fifo!FifoInit, Init
<1>2. SafeUse /\ IInv /\ IInv' /\ [Next]_vars
         => [Fifo!FifoNext]_<<Contents, sent>>
  <2> SUFFICES ASSUME SafeUse, IInv, IInv', [Next]_vars
               PROVE  Fifo!FifoNext \/ UNCHANGED <<Contents, sent>>
    OBVIOUS
  <2> DEFINE c == Released
             d == data_size
  <2>1. /\ Contents = Run(c, d) /\ c \in Nat /\ d \in 0 .. Size
        /\ Len(Contents) = d
    BY ContentsAre, RunType
  <2>2. Contents' = Run(c', d')
    <3>1. (Contents = Run(Released, data_size))'
      BY ContentsAre, PTL
    <3> QED
      BY <3>1 DEF Run
  <2>3. sent = c + d
    BY DEF IInv, RingOK
  <2>4. CASE UNCHANGED <<data_size, sent>> /\ Released' = Released
    BY <2>1, <2>2, <2>4
  <2>5. ASSUME NEW n \in 0 .. Size - d, d' = d + n, sent' = sent + n, c' = c
        PROVE  Fifo!FifoNext \/ UNCHANGED <<Contents, sent>>
    <3>1. Contents' = Contents \o Run(sent, n)
      <4>1. d \in Nat /\ n \in Nat
        BY <2>1
      <4>2. Run(c, d) \o Run(c + d, n) = Run(c, d + n)
        BY ONLY <2>1, <4>1, RunConcat
      <4>3. Contents' = Run(c, d + n)
        BY <2>2, <2>5
      <4> QED
        BY ONLY <2>1, <2>3, <4>2, <4>3
    <3>2. CASE n = 0
      <4>1. d + n = d /\ sent + n = sent
        BY <2>1, <2>3, <3>2
      <4> QED
        BY <2>1, <2>2, <2>5, <4>1
    <3>3. CASE n # 0
      <4>1. n \in 1 .. Size - Len(Contents)
        BY <2>1, <3>3
      <4> QED
        BY <4>1, <3>1, <2>5 DEF Run, Fifo!FifoNext, Fifo!Put
    <3> QED
      BY <3>2, <3>3
  <2>6. ASSUME NEW n \in 0 .. d, d' = d - n, sent' = sent, c' = c + n
        PROVE  Fifo!FifoNext \/ UNCHANGED <<Contents, sent>>
    <3>1. CASE n = 0
      BY <2>1, <2>2, <2>6, <3>1
    <3>2. CASE n # 0
      <4>1. n \in 1 .. Len(Contents)
        BY <2>1, <3>2
      <4>2. Contents' = SubSeq(Contents, n + 1, Len(Contents))
        BY <2>1, <2>2, <2>6, <4>1, RunRest
      <4> QED
        BY <4>1, <4>2, <2>6 DEF Fifo!FifoNext, Fifo!Get
    <3> QED
      BY <3>1, <3>2
  <2> QED
    BY <2>4, <2>5, <2>6, Effects
<1> QED
  BY <1>1, <1>2, Invariance, PTL DEF Spec, ImplementsFifo, Fifo!FifoSpec
=============================================================================
