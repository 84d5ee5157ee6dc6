------------------------------- MODULE Dlist -------------------------------
(* The doubly linked lists of vsf_list.h, which the event queues and the heap *)
(* are built on: a list is the sequence of the nodes that are linked.         *)
EXTENDS Naturals, Sequences, SequencesExt

Linked(s, e) == \E i \in DOMAIN s : s[i] = e

Place(s, e) == CHOOSE i \in DOMAIN s : s[i] = e

\* Removing a node that is not linked empties the list: its links are NULL.
Unlink(s, e) == IF Linked(s, e) THEN RemoveAt(s, Place(s, e)) ELSE <<>>
=============================================================================
