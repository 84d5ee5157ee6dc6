---------------------------- MODULE MCUsbStream ----------------------------
(* Pipes of UsbStream for TLC.                                              *)
EXTENDS UsbStream

\* A ring of whole packets with full packets only, the same with short ones, and
\* a ring that is not a number of packets with empty ones as well.
SomePipes == {[size |-> 12, packets |-> {4}],
              [size |-> 12, packets |-> 1 .. 4],
              [size |-> 9,  packets |-> 0 .. 4]}
============================================================================
