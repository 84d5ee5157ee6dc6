---------------------------- MODULE MCMemStream ----------------------------
(* Uses of MemStream for TLC.                                               *)
EXTENDS MemStream

\* The reader preempts and may work in the buffer; nobody preempts and both may.
SafeUses == {[preempts |-> "reader", inPlace |-> {"reader"}],
             [preempts |-> "none", inPlace |-> Sides]}

\* The writer is the interrupt, and both sides copy.
WriterPreempts == {[preempts |-> "writer", inPlace |-> {}]}

\* The reader is the interrupt, and the writer works in the buffer: InOrder does
\* not hold either.
ReaderPreemptsWbuf == {[preempts |-> "reader", inPlace |-> {"writer"}]}
============================================================================
