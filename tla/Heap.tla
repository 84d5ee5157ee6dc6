-------------------------------- MODULE Heap --------------------------------
(* The heap (service/heap/vsf_heap.c) the kernel takes its call frames from:  *)
(* vsf_heap_add(), vsf_heap_malloc_aligned() and vsf_heap_free().             *)
(*                                                                            *)
(* A block starts with an mcb, which tells how far it is to the next and to   *)
(* the previous one; free blocks are in a list, and a block that is not in it *)
(* is allocated. The last mcb of a region ends it. Everything is in units of  *)
(* VSF_HEAP_CFG_MCB_ALIGN, so sizes are rounded up already. What the code     *)
(* does with interrupts disabled is one step: a malloc is, a free takes three *)
(* and the handlers of interrupts may use the heap in between.                *)
EXTENDS Naturals, Sequences, FiniteSets, SequencesExt, FiniteSetsExt, Dlist

CONSTANTS
    Regions,       \* what vsf_heap_add() is given: [base, size]
    Mcb,           \* sizeof(__vsf_heap_mcb_t)
    Sizes, Alignments,
    MaxLive        \* bound: blocks in use at the same time

Contexts == {"main", "irq"}
Spans    == UNION {r.base .. r.base + r.size - 1 : r \in Regions}
Ends     == {r.base + r.size - Mcb : r \in Regions}

ASSUME HeapAssumption ==
    /\ IsFiniteSet(Regions) /\ Regions \subseteq [base : Nat, size : Nat]
    /\ \A r \in Regions : r.size > 2 * Mcb
    /\ \A r, s \in Regions : r # s => r.base + r.size <= s.base \/ s.base + s.size <= r.base
    /\ Mcb \in Nat \ {0} /\ Sizes \subseteq Nat \ {0} /\ Alignments \subseteq Nat \ {0}
    /\ MaxLive \in Nat

VARIABLES
    linear,        \* linear.next and linear.prev of the mcb at each address
    freelist,
    added,         \* the regions that were added
    live,          \* the buffers in use
    freeing,       \* where each context is in vsf_heap_free()
    raced,         \* an interrupt used the heap in the middle of a free
    hung           \* the alignment of a malloc that never ends

vars == <<linear, freelist, added, live, freeing, raced, hung>>

Idle == [at |-> "idle", mcb |-> 0]

Init ==
    /\ linear = [next |-> [a \in Spans |-> 0], prev |-> [a \in Spans |-> 0]]
    /\ freelist = <<>> /\ added = {} /\ live = {}
    /\ freeing = [c \in Contexts |-> Idle]
    /\ raced = FALSE /\ hung = 0

(* ------------------------------- blocks ------------------------------- *)

Free(m) == Linked(freelist, m)

\* Mutant: the block after it is not told.
CutUntold(lin, m, k) ==
    LET size == lin.next[m] IN
    [next |-> [lin.next EXCEPT ![m] = k, ![m + k] = size - k],
     prev |-> [lin.prev EXCEPT ![m + k] = k]]

\* The block at m is cut after k; it takes in the block that is next, whose mcb
\* is then but memory (its content, which nobody reads, is left out: 0).
Cut(lin, m, k) ==
    LET size == lin.next[m] IN
    [next |-> [lin.next EXCEPT ![m] = k, ![m + k] = size - k],
     prev |-> [lin.prev EXCEPT ![m + k] = k, ![m + size] = size - k]]

Joined(lin, m) ==
    LET n    == m + lin.next[m]
        size == lin.next[m] + lin.next[n]
    IN
    [next |-> [lin.next EXCEPT ![n] = 0, ![m] = size],
     prev |-> [lin.prev EXCEPT ![n] = 0, ![m + size] = size]]

(* ---------------------------- vsf_heap_add ---------------------------- *)

Add(r) ==
    /\ r \notin added
    /\ LET offset == r.size - Mcb IN
       /\ linear' = [next |-> [linear.next EXCEPT ![r.base] = offset],
                     prev |-> [linear.prev EXCEPT ![r.base + offset] = offset]]
       /\ freelist' = Append(freelist, r.base)
    /\ added' = added \cup {r}
    /\ UNCHANGED <<live, freeing, raced, hung>>

(* --------------------- vsf_heap_malloc_aligned ------------------------ *)

Unaligned(m, alignment) == (alignment - ((m + Mcb) % alignment)) % alignment

Fits(m, offset, size) == linear.next[m] >= offset + Mcb + size

\* Mutant: also a buffer that need not be moved up.
TooNearZero(offset) == offset \in 0 .. Mcb

\* Between the mcb of the block and that of the buffer is no room for a block.
TooNear(offset) == offset \in 1 .. Mcb

\* The buffer is moved up by the alignment until there is.
Offset(m, alignment) ==
    LET u == Unaligned(m, alignment) IN
    Min({o \in {u + k * alignment : k \in 0 .. Mcb + 1} : ~TooNear(o)})

Gives(m, size, alignment) == Fits(m, Offset(m, alignment), size)

\* A block that fits until the buffer is moved up goes to the head of the list,
\* also when it then does not fit, and the search goes on from there.
GoesToHead(m, size, alignment) ==
    TooNear(Unaligned(m, alignment)) /\ Fits(m, Unaligned(m, alignment), size)

\* Mutant: what is left over may be no more than an mcb.
RemainderAny(span, size) == IF span > Mcb + size THEN Mcb + size ELSE span

\* How much of its span an allocated block keeps.
Remainder(span, size) == IF span - (Mcb + size) > Mcb THEN Mcb + size ELSE span

\* __vsf_heap_mcb_malloc() of a block that is large enough.
Allocated(list, m, size, alignment) ==
    LET offset == Offset(m, alignment)
        new    == m + offset
        span   == linear.next[m] - offset
        keep   == Remainder(span, size)
        lin    == IF offset = 0 THEN linear ELSE Cut(linear, m, offset)
        before == IF offset = 0 THEN <<>> ELSE <<m>>
        after  == IF keep = span THEN <<>> ELSE <<new + keep>>
    IN
    /\ linear' = IF keep = span THEN lin ELSE Cut(lin, new, keep)
    /\ freelist' = after \o before \o Unlink(list, m)
    /\ live' = live \cup {[buffer |-> new + Mcb, size |-> size]}

\* How the search leaves the list when it moves the blocks at these places.
Searched(moved) ==
    IF moved = {} THEN freelist
    ELSE LET m == freelist[Min(moved)] IN <<m>> \o Unlink(freelist, m)

\* __vsf_heap_freelist_malloc(): the first block that gives enough. Two blocks
\* that go to the head before it take turns there for ever.
Malloc(size, alignment) ==
    LET here  == {i \in DOMAIN freelist : Gives(freelist[i], size, alignment)}
        tried == IF here = {} THEN DOMAIN freelist ELSE 1 .. Min(here) - 1
        moved == {i \in tried : GoesToHead(freelist[i], size, alignment)}
    IN
    IF Cardinality(moved) > 1
    THEN hung' = alignment /\ UNCHANGED <<linear, freelist, live>>
    ELSE /\ IF here = {}
            THEN freelist' = Searched(moved) /\ UNCHANGED <<linear, live>>
            ELSE Allocated(Searched(moved), freelist[Min(here)], size, alignment)
         /\ UNCHANGED hung

(* ---------------------------- vsf_heap_free --------------------------- *)

FreeBegins(c, b) ==
    /\ b \in live /\ live' = live \ {b}
    /\ freeing' = [freeing EXCEPT ![c] = [at |-> "next", mcb |-> b.buffer - Mcb]]
    /\ UNCHANGED <<linear, freelist>>

MergeNext(c) ==
    LET m    == freeing[c].mcb
        next == m + linear.next[m]
    IN
    /\ freeing[c].at = "next"
    /\ IF Free(next)
       THEN freelist' = Unlink(freelist, next) /\ linear' = Joined(linear, m)
       ELSE UNCHANGED <<freelist, linear>>
    /\ freeing' = [freeing EXCEPT ![c].at = "prev"]
    /\ UNCHANGED live

\* Mutant: the previous block is not looked at.
MergePrevNever(c) ==
    /\ freeing[c].at = "prev"
    /\ freeing' = [freeing EXCEPT ![c].at = "add"]
    /\ UNCHANGED <<live, linear, freelist>>

MergePrev(c) ==
    LET m    == freeing[c].mcb
        prev == m - linear.prev[m]
    IN
    /\ freeing[c].at = "prev"
    /\ IF linear.prev[m] # 0 /\ Free(prev)
       THEN /\ freelist' = Unlink(freelist, prev)
            /\ linear' = Joined(linear, prev)
            /\ freeing' = [freeing EXCEPT ![c] = [at |-> "add", mcb |-> prev]]
       ELSE /\ UNCHANGED <<freelist, linear>>
            /\ freeing' = [freeing EXCEPT ![c].at = "add"]
    /\ UNCHANGED live

AddFree(c) ==
    /\ freeing[c].at = "add"
    /\ freelist' = <<freeing[c].mcb>> \o freelist
    /\ freeing' = [freeing EXCEPT ![c] = Idle]
    /\ UNCHANGED <<linear, live>>

(* ----------------------------- everything ----------------------------- *)

\* The main loop goes on when no interrupt is being handled.
MayRun(c) == hung = 0 /\ (c = "main" => freeing["irq"] = Idle)

\* Whether an interrupt cuts into a free of the main loop.
Races(c) == raced' = (raced \/ (c = "irq" /\ freeing["main"] # Idle))

Calls(c) ==
    /\ freeing[c] = Idle
    /\ \/ /\ Cardinality(live) < MaxLive
          /\ \E size \in Sizes, alignment \in Alignments : Malloc(size, alignment)
          /\ UNCHANGED freeing
       \/ (\E b \in live : FreeBegins(c, b)) /\ UNCHANGED hung

FreeGoesOn(c) == (MergeNext(c) \/ MergePrev(c) \/ AddFree(c)) /\ UNCHANGED hung

Next ==
    \/ \E r \in Regions : Add(r)
    \/ \E c \in Contexts : /\ MayRun(c)
                           /\ Calls(c) \/ FreeGoesOn(c)
                           /\ Races(c)
                           /\ UNCHANGED added

Spec == Init /\ [][Next]_vars

(* ---------------------------- properties ------------------------------ *)

InFree == {freeing[c].mcb : c \in {c \in Contexts : freeing[c] # Idle}}
Blocks == Range(freelist) \cup {b.buffer - Mcb : b \in live} \cup InFree

\* No two buffers in use share a unit of memory with each other, with a free
\* block or with an mcb, and a block is more than its mcb, whatever alignments are
\* asked for and wherever an interrupt uses the heap in the middle of a free: each
\* has a block of its own.
BuffersAreApart ==
    /\ \A b \in live : b.buffer + b.size <= b.buffer - Mcb + linear.next[b.buffer - Mcb]
    /\ \A m, n \in Blocks : m < n => m + linear.next[m] <= n
    /\ \A m \in Blocks : linear.next[m] > Mcb
    /\ Cardinality(Blocks) = Len(freelist) + Cardinality(live) + Cardinality(InFree)

\* No memory is lost: the blocks make up the regions without gaps, each reaches
\* the next one, and that one knows the way back.
NothingLost ==
    /\ \A m \in Blocks :
          LET n == m + linear.next[m] IN n \in Blocks \cup Ends /\ linear.prev[n] = linear.next[m]
    /\ \A r \in added : r.base \in Blocks /\ linear.prev[r.base] = 0
                        /\ linear.next[r.base + r.size - Mcb] = 0

\* Free blocks that lie side by side are one block. Only a free that is cut into
\* by an interrupt leaves two: each took the other for allocated.
Coalesced ==
    ~raced => \A m \in Range(freelist) : m + linear.next[m] \notin Range(freelist)

\* The search for a block ends when the alignment is that of an mcb, as it is for
\* the kernel's frames. For others it does not: see GoesToHead.
FramesReturn == hung # 1
=============================================================================
