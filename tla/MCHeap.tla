------------------------------- MODULE MCHeap -------------------------------
(* A region of a few blocks and one of a single block.                        *)
EXTENDS Heap

MCRegions == {[base |-> 0, size |-> 24], [base |-> 25, size |-> 9]}
=============================================================================
