------------------------------ MODULE ByteFifo -------------------------------
(* What a byte stream promises: the bytes come out as they went in, none lost *)
(* or repeated, and no more than the buffer holds are on their way. The n-th  *)
(* byte written is the number n.                                              *)
EXTENDS Integers, Sequences

CONSTANT Size

VARIABLES queue, sent

FifoInit == queue = <<>> /\ sent = 0

\* A write is accepted as a whole, as far as there is room.
Put == \E n \in 1 .. Size - Len(queue) :
          /\ queue' = queue \o [i \in 1 .. n |-> sent + i]
          /\ sent' = sent + n

Get == \E n \in 1 .. Len(queue) :
          /\ queue' = SubSeq(queue, n + 1, Len(queue))
          /\ UNCHANGED sent

FifoNext == Put \/ Get

FifoSpec == FifoInit /\ [][FifoNext]_<<queue, sent>>
=============================================================================
