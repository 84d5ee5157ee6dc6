------------------------------ MODULE MemStream ------------------------------
(* The byte stream over a ring in memory (vsf_mem_stream.c), written and read *)
(* from two contexts of which one may preempt the other.                      *)
(*                                                                            *)
(* A call is several steps: it samples the ring, copies, and commits with     *)
(* interrupts disabled. The context that preempts runs its calls to their end *)
(* between two steps of the other. Either side may instead work in the buffer *)
(* (get_wbuf, get_rbuf) and then call write or read without one; the time     *)
(* between the two belongs to its client, and the other side runs in it.      *)
(* The n-th byte written is the number n. No stream of the repository sets an *)
(* alignment, so `align` masks nothing and is left out.                       *)
EXTENDS Integers, Sequences

CONSTANTS
    Size,          \* nSize
    MaxCount,      \* bound: the count of a read or a write
    MaxBytes,      \* bound: bytes written in a behaviour
    Uses           \* the uses that are made of streams

Sides == {"writer", "reader"}

\* Which side preempts the other, if any, and which may work in the buffer.
Use == [preempts : Sides \cup {"none"}, inPlace : SUBSET Sides]

ASSUME MemStreamAssumption ==
    /\ Size \in Nat \ {0} /\ MaxCount \in Nat /\ MaxBytes \in Nat
    /\ Uses \subseteq Use

VARIABLES
    use,           \* the use made of this stream
    buffer,
    data_size,
    rpos,
    wpos,
    is_writing,
    wop,           \* where the writer is in its call
    wsize,         \* the bytes it may write; in its own buffer, or in the ring
    wptr,          \* the position get_wbuf gave
    rop,           \* where the reader is in its call
    rsize,
    rest,          \* size < data_len: the read leaves bytes behind
    sent,          \* bytes written
    received       \* bytes read, in order

ring   == <<buffer, data_size, rpos, wpos, is_writing>>
writer == <<wop, wsize, wptr, sent>>
reader == <<rop, rsize, rest, received>>
vars   == <<use, ring, writer, reader>>

Preempts == use.preempts
InPlace  == use.inPlace

Least(a, b) == IF a < b THEN a ELSE b

\* Mutant: the last byte of the buffer is not wrapped.
WrapLate(x) == IF x > Size THEN x - Size ELSE x

\* x % nSize, for the sums of two values up to nSize
Wrap(x) == IF x >= Size THEN x - Size ELSE x

Avail == Size - data_size

\* Between its calls a side is out of the other's way.
WriterOut == wop \in {"idle", "holds"}
ReaderOut == rop \in {"idle", "holds"}
WriterMay == Preempts = "writer" \/ ReaderOut
ReaderMay == Preempts = "reader" \/ WriterOut

(* ------------------------------ writing ------------------------------- *)

\* vsf_stream_write with a buffer samples the room there is.
WriteBegin(n) ==
    /\ WriterMay /\ wop = "idle" /\ sent + n <= MaxBytes
    /\ wop' = "sampled" /\ wsize' = Least(Avail, n)
    /\ UNCHANGED <<ring, wptr, sent, reader>>

WriteMark ==
    /\ WriterMay /\ wop = "sampled"
    /\ is_writing' = TRUE /\ wop' = "marked"
    /\ UNCHANGED <<buffer, data_size, rpos, wpos, wsize, wptr, sent, reader>>

\* n new bytes at position p, the second part at the start of the buffer
Filled(p, n) ==
    [k \in 0 .. Size - 1 |->
        LET i == IF k >= p THEN k - p ELSE k + Size - p
        IN  IF i < n THEN sent + 1 + i ELSE buffer[k]]

WriteCopy ==
    /\ WriterMay /\ wop = "marked"
    /\ buffer' = Filled(wpos, wsize) /\ wop' = "copied"
    /\ UNCHANGED <<data_size, rpos, wpos, is_writing, wsize, wptr, sent, reader>>

WriteCommit ==
    /\ WriterMay /\ wop = "copied"
    /\ data_size' = data_size + wsize
    /\ wpos' = Wrap(wpos + wsize)
    /\ sent' = sent + wsize /\ wop' = "committed"
    /\ UNCHANGED <<buffer, rpos, is_writing, wsize, wptr, reader>>

WriteUnmark ==
    /\ WriterMay /\ wop = "committed"
    /\ is_writing' = FALSE /\ wop' = "idle"
    /\ wsize' = 0 /\ wptr' = 0
    /\ UNCHANGED <<buffer, data_size, rpos, wpos, sent, reader>>

\* get_wbuf takes the position first and says that it writes afterwards.
GetWbuf ==
    /\ WriterMay /\ wop = "idle" /\ "writer" \in InPlace
    /\ wptr' = wpos /\ wsize' = Least(Size - wpos, Avail)
    /\ wop' = "taken"
    /\ UNCHANGED <<ring, sent, reader>>

GetWbufMark ==
    /\ WriterMay /\ wop = "taken"
    /\ is_writing' = TRUE /\ wop' = "holds"
    /\ UNCHANGED <<buffer, data_size, rpos, wpos, wsize, wptr, sent, reader>>

\* The client has put n bytes there and calls write without a buffer, which
\* samples the room again.
WriteFilled(n) ==
    /\ WriterMay /\ wop = "holds" /\ n <= wsize /\ sent + n <= MaxBytes
    /\ buffer' = Filled(wptr, n)
    /\ wsize' = Least(Avail, n)
    /\ wop' = "filled"
    /\ UNCHANGED <<data_size, rpos, wpos, is_writing, wptr, sent, reader>>

WriteFilledMark ==
    /\ WriterMay /\ wop = "filled"
    /\ is_writing' = TRUE /\ wop' = "copied"
    /\ UNCHANGED <<buffer, data_size, rpos, wpos, wsize, wptr, sent, reader>>

(* ------------------------------ reading ------------------------------- *)

ReadBegin(n) ==
    /\ ReaderMay /\ rop = "idle"
    /\ rop' = "sampled"
    /\ rsize' = Least(data_size, n) /\ rest' = (n < data_size)
    /\ UNCHANGED <<ring, received, writer>>

\* n bytes from position p on
Bytes(p, n) == [i \in 1 .. n |-> buffer[Wrap(p + i - 1)]]

ReadCopy ==
    /\ ReaderMay /\ rop = "sampled"
    /\ received' = received \o Bytes(rpos, rsize)
    /\ rop' = "copied"
    /\ UNCHANGED <<ring, rsize, rest, writer>>

\* Mutants: the positions start over while a write is under way, or whatever is
\* left.
StartsOverWriting == ~rest

StartsOverAlways == ~is_writing

\* When nothing is left and nobody writes, both positions start over.
StartsOver == ~rest /\ ~is_writing

ReadRelease ==
    /\ ReaderMay /\ rop = "copied"
    /\ data_size' = data_size - rsize
    /\ rpos' = IF StartsOver THEN 0 ELSE Wrap(rpos + rsize)
    /\ wpos' = IF StartsOver THEN 0 ELSE wpos
    /\ rop' = "idle" /\ rsize' = 0 /\ rest' = FALSE
    /\ UNCHANGED <<buffer, is_writing, received, writer>>

GetRbuf ==
    /\ ReaderMay /\ rop = "idle" /\ "reader" \in InPlace
    /\ rsize' = Least(Size - rpos, data_size)
    /\ rop' = "holds"
    /\ UNCHANGED <<ring, rest, received, writer>>

\* The client has taken n bytes from there and calls read without a buffer,
\* which samples the bytes again.
ReadTaken(n) ==
    /\ ReaderMay /\ rop = "holds" /\ n <= rsize
    /\ received' = received \o Bytes(rpos, n)
    /\ rsize' = Least(data_size, n) /\ rest' = (n < data_size)
    /\ rop' = "copied"
    /\ UNCHANGED <<ring, writer>>

(* --------------------------- specification ---------------------------- *)

Init ==
    /\ use \in Uses
    /\ buffer = [k \in 0 .. Size - 1 |-> 0]
    /\ data_size = 0 /\ rpos = 0 /\ wpos = 0 /\ is_writing = FALSE
    /\ wop = "idle" /\ wsize = 0 /\ wptr = 0 /\ sent = 0
    /\ rop = "idle" /\ rsize = 0 /\ rest = FALSE /\ received = <<>>

WriterNext ==
    \/ \E n \in 0 .. MaxCount : WriteBegin(n) \/ WriteFilled(n)
    \/ WriteMark \/ WriteCopy \/ WriteCommit \/ WriteUnmark
    \/ GetWbuf \/ GetWbufMark \/ WriteFilledMark

ReaderNext ==
    \/ \E n \in 0 .. MaxCount : ReadBegin(n) \/ ReadTaken(n)
    \/ ReadCopy \/ ReadRelease \/ GetRbuf

Next == (WriterNext \/ ReaderNext) /\ UNCHANGED use

Spec == Init /\ [][Next]_vars

(* ----------------------------- properties ----------------------------- *)

\* The ring's fields and both calls' locals stay in their ranges
\* (vsf_mem_stream.h:71-84): above all data_size, which each side adds to or
\* takes from by an amount it worked out some steps before.
TypeOK ==
    /\ buffer \in [0 .. Size - 1 -> Nat]
    /\ data_size \in 0 .. Size
    /\ rpos \in 0 .. Size - 1 /\ wpos \in 0 .. Size - 1
    /\ is_writing \in BOOLEAN
    /\ wop \in {"idle", "sampled", "marked", "copied", "committed",
                 "taken", "holds", "filled"}
    /\ wsize \in 0 .. Size /\ wptr \in 0 .. Size - 1 /\ sent \in Nat
    /\ rop \in {"idle", "sampled", "copied", "holds"}
    /\ rsize \in 0 .. Size /\ rest \in BOOLEAN /\ received \in Seq(Nat)

\* Every byte read is the next one written: what the steps of a read and a
\* write (vsf_mem_stream.c:148-211) leave to each other when they interleave
\* neither loses, repeats nor overtakes a byte.
InOrder == \A i \in DOMAIN received : received[i] = i

\* What is committed to the ring and not released from it, in order.
Contents == Bytes(rpos, data_size)

Fifo == INSTANCE ByteFifo WITH queue <- Contents

\* The ring implements the byte stream: no step of either side, at whatever
\* point of the other's call (vsf_mem_stream.c:119-211), changes a committed
\* byte, and bytes enter at one end and leave at the other.
ImplementsFifo == Fifo!FifoSpec
=============================================================================
