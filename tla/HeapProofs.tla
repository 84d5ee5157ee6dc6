----------------------------- MODULE HeapProofs -----------------------------
(* The heap for any regions, sizes, alignments and number of buffers: blocks  *)
(* never overlap, nothing is lost, and free neighbours are one block as long  *)
(* as no free is cut into. The core is what cutting a block, joining two and  *)
(* adding a region do to the chain of blocks (Tiled).                         *)
EXTENDS Heap, SequenceTheorems, FiniteSetTheorems, WellFoundedInduction, TLAPS

(* ----------------------- the inductive invariant ----------------------- *)

\* No node is linked twice in a list.
Once(s) == \A i, j \in DOMAIN s : s[i] = s[j] => i = j

\* The mcb that ends a region.
EndOf(r) == r.base + r.size - Mcb

Within(lin, m, r) == r.base <= m /\ m + lin.next[m] <= EndOf(r)

\* Each block has more than its mcb and lies in a region.
Placed(lin, B, A) ==
    \A m \in B : Mcb < lin.next[m] /\ \E r \in A : Within(lin, m, r)

Apart(lin, B) == \A m, n \in B : m < n => m + lin.next[m] <= n

\* A block reaches the next one or the end of its region, which knows the way
\* back.
Forward(lin, B, A) ==
    \A m \in B : /\ m + lin.next[m] \in B \cup {EndOf(r) : r \in A}
                 /\ lin.prev[m + lin.next[m]] = lin.next[m]

Back(lin, B) ==
    \A m \in B : lin.prev[m] # 0 => /\ m - lin.prev[m] \in B
                                    /\ lin.next[m - lin.prev[m]] = lin.prev[m]

\* A region begins with a block that has none before it, and ends with an mcb
\* that has none after it.
Whole(lin, B, A) ==
    \A r \in A : r.base \in B /\ lin.prev[r.base] = 0 /\ lin.next[EndOf(r)] = 0

\* Nothing was written to regions that are not added.
Blank(lin, A) ==
    \A r \in Regions \ A : \A a \in r.base .. r.base + r.size - 1 :
        lin.next[a] = 0 /\ lin.prev[a] = 0

\* The blocks B make up the regions A without gaps.
Tiled(lin, B, A) ==
    /\ lin \in [next : [Spans -> Nat], prev : [Spans -> Nat]]
    /\ A \subseteq Regions /\ B \subseteq Spans
    /\ Placed(lin, B, A) /\ Apart(lin, B) /\ Forward(lin, B, A) /\ Back(lin, B)
    /\ Whole(lin, B, A) /\ Blank(lin, A)

\* The block at m is in use, or being freed.
Used(lv, m)    == \E b \in lv : m = b.buffer - Mcb
Freeing(fr, m) == \E c \in Contexts : fr[c] # Idle /\ m = fr[c].mcb

BlocksOf(fl, lv, fr) == {m \in Nat : Linked(fl, m) \/ Used(lv, m) \/ Freeing(fr, m)}

HeapTypes(fl, lv, fr) ==
    /\ fl \in Seq(Nat)
    /\ lv \subseteq [buffer : Nat, size : Sizes] /\ IsFiniteSet(lv)
    /\ \A b \in lv : Mcb <= b.buffer
    /\ fr \in [Contexts -> {Idle} \cup [at : {"next", "prev", "add"}, mcb : Nat]]

\* Each block is free, in use or being freed, and only once.
OneOwner(fl, lv, fr) ==
    /\ Once(fl)
    /\ \A a, b \in lv : a.buffer = b.buffer => a = b
    /\ \A c, d \in Contexts : (fr[c] # Idle /\ fr[d] # Idle /\ fr[c].mcb = fr[d].mcb) => c = d
    /\ \A m \in Nat : /\ ~(Linked(fl, m) /\ Used(lv, m))
                      /\ ~(Linked(fl, m) /\ Freeing(fr, m))
                      /\ ~(Used(lv, m) /\ Freeing(fr, m))

BuffersFit(lin, lv) == \A b \in lv : Mcb + b.size <= lin.next[b.buffer - Mcb]

HeapInv ==
    /\ HeapTypes(freelist, live, freeing)
    /\ OneOwner(freelist, live, freeing)
    /\ Tiled(linear, BlocksOf(freelist, live, freeing), added)
    /\ BuffersFit(linear, live)
    /\ hung # 1

FreeApart(lin, fl) == \A m \in Nat : Linked(fl, m) => ~Linked(fl, m + lin.next[m])

\* No two free blocks lie side by side, and a free has looked at the neighbours
\* that it leaves: the block it merged is not next to a free one when it joins
\* the list.
Merged(lin, fl, fr) ==
    /\ fr["main"] = Idle \/ fr["irq"] = Idle
    /\ FreeApart(lin, fl)
    /\ \A c \in Contexts :
          /\ fr[c].at \in {"prev", "add"} => ~Linked(fl, fr[c].mcb + lin.next[fr[c].mcb])
          /\ fr[c].at = "add" =>
                \A m \in Nat : Linked(fl, m) => m + lin.next[m] # fr[c].mcb

CoalescedInv == ~raced => Merged(linear, freelist, freeing)

(* ------------------------------- lists -------------------------------- *)

LEMMA MinOf ==
    ASSUME NEW S \in SUBSET Nat, S # {}
    PROVE  Min(S) \in S /\ \A y \in S : Min(S) <= y
<1>1. \E x \in S : \A y \in S : ~(<<y, x>> \in OpToRel(<, Nat))
  BY NatLessThanWellFounded, WFMin
<1>2. \E x \in S : \A y \in S : x =< y
  <2>1. PICK x \in S : \A y \in S : ~(<<y, x>> \in OpToRel(<, Nat)) BY <1>1
  <2>2. \A y \in S : y < x => <<y, x>> \in OpToRel(<, Nat) BY DEF OpToRel
  <2>3. \A y \in S : ~(y < x) BY <2>1, <2>2
  <2>4. \A y \in S : x =< y BY <2>3
  <2> QED BY <2>1, <2>4
<1> QED BY <1>2 DEF Min

LEMMA PlaceOf ==
    ASSUME NEW s, NEW e, Linked(s, e)
    PROVE  Place(s, e) \in DOMAIN s /\ s[Place(s, e)] = e
  BY DEF Linked, Place

\* vsf_dlist_remove() unlinks the node and no other.
LEMMA Unlinked ==
    ASSUME NEW S, NEW s \in Seq(S), Once(s), NEW e, Linked(s, e)
    PROVE  /\ Unlink(s, e) \in Seq(S) /\ Once(Unlink(s, e))
           /\ \A x : Linked(Unlink(s, e), x) <=> Linked(s, x) /\ x # e
<1> DEFINE k == Place(s, e)
           a == SubSeq(s, 1, k - 1)
           b == SubSeq(s, k + 1, Len(s))
           t == Unlink(s, e)
<1>1. Len(s) \in Nat /\ DOMAIN s = 1 .. Len(s) /\ \A i \in DOMAIN s : s[i] \in S
  BY LenProperties, ElementOfSeq
<1>2. k \in 1 .. Len(s) /\ s[k] = e
  BY <1>1, PlaceOf
<1>3. t = a \o b
  BY DEF Unlink, RemoveAt
<1> HIDE DEF k
<1>4. a \in Seq(S) /\ Len(a) = k - 1 /\ \A i \in 1 .. k - 1 : a[i] = s[i]
  <2>1. \A i \in 1 .. k - 1 : s[i] \in S BY <1>1, <1>2
  <2> QED BY <1>2, <2>1, SubSeqProperties
<1>5. b \in Seq(S) /\ Len(b) = Len(s) - k /\ \A i \in 1 .. Len(s) - k : b[i] = s[k + i]
  <2>1. \A i \in k + 1 .. Len(s) : s[i] \in S BY <1>1, <1>2
  <2>2. /\ b \in Seq(S) /\ Len(b) = IF k + 1 <= Len(s) THEN Len(s) - (k + 1) + 1 ELSE 0
        /\ \A i \in 1 .. Len(s) - (k + 1) + 1 : b[i] = s[k + 1 + i - 1]
    BY <1>1, <1>2, <2>1, SubSeqProperties
  <2> HIDE DEF b
  <2>3. ASSUME NEW i \in 1 .. Len(s) - k PROVE b[i] = s[k + i]
    <3>1. i \in 1 .. Len(s) - (k + 1) + 1 /\ k + 1 + i - 1 = k + i BY <1>1, <1>2
    <3> QED BY <2>2, <3>1
  <2>4. Len(b) = Len(s) - k
    <3>1. CASE k < Len(s)
      <4>1. k + 1 <= Len(s) /\ Len(s) - (k + 1) + 1 = Len(s) - k BY <1>1, <1>2, <3>1
      <4> QED BY <2>2, <4>1
    <3>2. CASE k = Len(s)
      <4>1. ~(k + 1 <= Len(s)) /\ Len(s) - k = 0 BY <1>1, <1>2, <3>2
      <4> QED BY <2>2, <4>1
    <3>3. k < Len(s) \/ k = Len(s)
      <4>1. Len(s) \in Nat /\ k \in 1 .. Len(s) BY <1>1, <1>2
      <4> QED BY ONLY <4>1
    <3> QED BY ONLY <3>1, <3>2, <3>3, Zenon
  <2> QED BY <2>2, <2>3, <2>4
<1> HIDE DEF a, b, t
<1>6. /\ t \in Seq(S) /\ Len(t) = Len(s) - 1
      /\ \A i \in 1 .. Len(s) - 1 : t[i] = IF i < k THEN s[i] ELSE s[i + 1]
  <2>1. /\ t \in Seq(S) /\ Len(t) = Len(a) + Len(b)
        /\ \A i \in 1 .. Len(a) + Len(b) : t[i] = IF i <= Len(a) THEN a[i] ELSE b[i - Len(a)]
    BY <1>3, <1>4, <1>5, ConcatProperties
  <2>2. \A i \in 1 .. Len(s) - 1 : t[i] = IF i < k THEN s[i] ELSE s[i + 1]
    <3> TAKE i \in 1 .. Len(s) - 1
    <3>0. i \in 1 .. Len(a) + Len(b) /\ (i <= Len(a) <=> i < k) BY <1>1, <1>2, <1>4, <1>5
    <3>1. CASE i < k
      <4>1. i \in 1 .. k - 1 BY <1>2, <3>1
      <4> QED BY <1>4, <2>1, <3>0, <3>1, <4>1
    <3>2. CASE ~(i < k)
      <4>1. i - (k - 1) \in 1 .. Len(s) - k BY <1>1, <1>2, <3>2
      <4>2. b[i - (k - 1)] = s[k + (i - (k - 1))] BY <1>5, <4>1
      <4>3. k + (i - (k - 1)) = i + 1 BY <1>1, <1>2
      <4>4. t[i] = b[i - (k - 1)] BY <1>4, <2>1, <3>0, <3>2
      <4> QED BY <3>2, <4>2, <4>3, <4>4
    <3> QED BY <3>1, <3>2
  <2> QED BY <1>1, <1>2, <1>4, <1>5, <2>1, <2>2
<1>7. DOMAIN t = 1 .. Len(s) - 1
  BY <1>6, LenProperties
<1>8. Once(t)
  <2> SUFFICES ASSUME NEW i \in 1 .. Len(s) - 1, NEW j \in 1 .. Len(s) - 1, t[i] = t[j]
               PROVE  i = j
    BY <1>7 DEF Once
  <2> DEFINE old(x) == IF x < k THEN x ELSE x + 1
  <2>1. old(i) \in DOMAIN s /\ old(j) \in DOMAIN s BY <1>1, <1>2
  <2>2. s[old(i)] = s[old(j)] BY <1>6
  <2>3. old(i) = old(j) BY <2>1, <2>2 DEF Once
  <2> QED BY <1>2, <2>3
<1>9. ASSUME NEW x PROVE Linked(t, x) <=> Linked(s, x) /\ x # e
  <2>1. ASSUME Linked(t, x) PROVE Linked(s, x) /\ x # e
    <3>1. PICK i \in 1 .. Len(s) - 1 : t[i] = x BY <1>7, <2>1 DEF Linked
    <3>2. CASE i < k
      <4>1. s[i] = x /\ i \in DOMAIN s /\ i # k BY <1>1, <1>2, <1>6, <3>1, <3>2
      <4> QED BY <1>1, <1>2, <4>1 DEF Linked, Once
    <3>3. CASE ~(i < k)
      <4>1. s[i + 1] = x /\ i + 1 \in DOMAIN s /\ i + 1 # k BY <1>1, <1>2, <1>6, <3>1, <3>3
      <4> QED BY <1>1, <1>2, <4>1 DEF Linked, Once
    <3> QED BY <3>2, <3>3
  <2>2. ASSUME Linked(s, x), x # e PROVE Linked(t, x)
    <3>1. PICK i \in 1 .. Len(s) : s[i] = x /\ i # k BY <1>1, <1>2, <2>2 DEF Linked
    <3>2. CASE i < k
      <4>1. i \in DOMAIN t /\ t[i] = x BY <1>1, <1>2, <1>6, <1>7, <3>1, <3>2
      <4> QED BY <4>1 DEF Linked
    <3>3. CASE i > k
      <4>1. i - 1 \in 1 .. Len(s) - 1 /\ ~(i - 1 < k) BY <1>1, <1>2, <3>3
      <4>2. t[i - 1] = s[(i - 1) + 1] BY <1>6, <4>1
      <4>3. t[i - 1] = x BY <3>1, <4>2
      <4> QED BY <1>7, <4>1, <4>3 DEF Linked
    <3> QED BY <1>2, <3>1, <3>2, <3>3
  <2> QED BY <2>1, <2>2
<1> QED BY <1>6, <1>8, <1>9 DEF t

\* vsf_dlist_add_to_tail() links one more.
LEMMA Appended ==
    ASSUME NEW S, NEW s \in Seq(S), NEW e \in S, Once(s), ~Linked(s, e)
    PROVE  /\ Append(s, e) \in Seq(S) /\ Once(Append(s, e))
           /\ \A x : Linked(Append(s, e), x) <=> Linked(s, x) \/ x = e
<1> DEFINE t == Append(s, e)
<1>1. Len(s) \in Nat /\ DOMAIN s = 1 .. Len(s)
  BY LenProperties
<1>2. /\ t \in Seq(S) /\ Len(t) = Len(s) + 1
      /\ \A i \in 1 .. Len(s) : t[i] = s[i]
      /\ t[Len(s) + 1] = e
  BY AppendProperties
<1>3. DOMAIN t = 1 .. Len(s) + 1
  BY <1>2, LenProperties
<1> HIDE DEF t
<1>4. \A i \in 1 .. Len(s) : t[i] # e
  BY <1>1, <1>2 DEF Linked
<1>5. Once(t)
  <2> SUFFICES ASSUME NEW i \in 1 .. Len(s) + 1, NEW j \in 1 .. Len(s) + 1, t[i] = t[j]
               PROVE  i = j
    BY <1>3 DEF Once
  <2>1. CASE i \in 1 .. Len(s) /\ j \in 1 .. Len(s) BY <1>1, <1>2, <2>1 DEF Once
  <2>2. CASE i = Len(s) + 1 BY <1>1, <1>2, <1>4, <2>2
  <2>3. CASE j = Len(s) + 1 BY <1>1, <1>2, <1>4, <2>3
  <2> QED BY <1>1, <2>1, <2>2, <2>3
<1>6. ASSUME NEW x PROVE Linked(t, x) <=> Linked(s, x) \/ x = e
  <2>1. ASSUME Linked(t, x), x # e PROVE Linked(s, x)
    BY <1>1, <1>2, <1>3, <2>1 DEF Linked
  <2>2. ASSUME Linked(s, x) PROVE Linked(t, x)
    BY <1>1, <1>2, <1>3, <2>2 DEF Linked
  <2>3. Linked(t, e)
    <3>1. Len(s) + 1 \in DOMAIN t BY <1>1, <1>3
    <3> QED BY <1>2, <3>1 DEF Linked
  <2> QED BY <2>1, <2>2, <2>3
<1> QED BY <1>2, <1>5, <1>6 DEF t

\* vsf_dlist_add_to_head() links one more, and in front.
LEMMA Prepended ==
    ASSUME NEW S, NEW s \in Seq(S), NEW e \in S, Once(s), ~Linked(s, e)
    PROVE  /\ <<e>> \o s \in Seq(S) /\ Once(<<e>> \o s)
           /\ \A x : Linked(<<e>> \o s, x) <=> Linked(s, x) \/ x = e
<1> DEFINE t == <<e>> \o s
<1>1. Len(s) \in Nat /\ DOMAIN s = 1 .. Len(s)
  BY LenProperties
<1>2. <<e>> \in Seq(S) /\ Len(<<e>>) = 1 /\ <<e>>[1] = e
  OBVIOUS
<1>3. /\ t \in Seq(S) /\ Len(t) = 1 + Len(s)
      /\ \A i \in 1 .. 1 + Len(s) : t[i] = IF i <= 1 THEN <<e>>[i] ELSE s[i - 1]
  BY <1>2, ConcatProperties
<1>4. DOMAIN t = 1 .. Len(s) + 1
  BY <1>1, <1>3, LenProperties
<1> HIDE DEF t
<1>5. t[1] = e /\ \A i \in 2 .. Len(s) + 1 : t[i] = s[i - 1] /\ i - 1 \in DOMAIN s
  BY <1>1, <1>2, <1>3
<1>6. Once(t)
  <2> SUFFICES ASSUME NEW i \in 1 .. Len(s) + 1, NEW j \in 1 .. Len(s) + 1, t[i] = t[j]
               PROVE  i = j
    BY <1>4 DEF Once
  <2>1. \A x \in 2 .. Len(s) + 1 : t[x] # t[1]
    BY <1>5 DEF Linked
  <2>3. i # j => i # 1 /\ j # 1
    BY <1>1, <2>1
  <2>2. CASE i # 1 /\ j # 1
    <3>1. i \in 2 .. Len(s) + 1 /\ j \in 2 .. Len(s) + 1 BY <1>1, <2>2
    <3>2. i - 1 = j - 1 BY <1>5, <3>1 DEF Once
    <3> QED BY <1>1, <3>2
  <2> QED BY <2>2, <2>3
<1>7. ASSUME NEW x PROVE Linked(t, x) <=> Linked(s, x) \/ x = e
  <2>1. ASSUME Linked(t, x), x # e PROVE Linked(s, x)
    <3>1. PICK i \in 1 .. Len(s) + 1 : t[i] = x BY <1>4, <2>1 DEF Linked
    <3>2. i \in 2 .. Len(s) + 1 BY <1>1, <1>5, <2>1, <3>1
    <3> QED BY <1>5, <3>1, <3>2 DEF Linked
  <2>2. ASSUME Linked(s, x) PROVE Linked(t, x)
    <3>1. PICK i \in 1 .. Len(s) : s[i] = x BY <1>1, <2>2 DEF Linked
    <3>2. i + 1 \in 2 .. Len(s) + 1 /\ i + 1 \in DOMAIN t /\ (i + 1) - 1 = i BY <1>1, <1>4, <3>1
    <3>3. t[i + 1] = x BY <1>5, <3>1, <3>2
    <3> QED BY <3>2, <3>3 DEF Linked
  <2>3. ASSUME x = e PROVE Linked(t, x)
    BY <1>1, <1>4, <1>5, <2>3 DEF Linked
  <2> QED BY <2>1, <2>2, <2>3
<1> QED BY <1>3, <1>6, <1>7 DEF t

(* ------------------------------ regions ------------------------------- *)

LEMMA RegionFacts ==
    ASSUME NEW r \in Regions
    PROVE  /\ r.base \in Nat /\ r.size \in Nat /\ 2 * Mcb < r.size
           /\ Mcb \in Nat \ {0}
           /\ EndOf(r) \in Nat /\ r.base + Mcb < EndOf(r) /\ EndOf(r) < r.base + r.size
           /\ r.base \in Spans /\ EndOf(r) \in Spans
           /\ r.base .. r.base + r.size - 1 \subseteq Spans
<1>1. r.base \in Nat /\ r.size \in Nat /\ 2 * Mcb < r.size /\ Mcb \in Nat \ {0}
  BY HeapAssumption
<1>2. EndOf(r) \in Nat /\ r.base + Mcb < EndOf(r) /\ EndOf(r) < r.base + r.size
  BY <1>1 DEF EndOf
<1>3. r.base .. r.base + r.size - 1 \subseteq Spans
  BY DEF Spans
<1>4. r.base \in r.base .. r.base + r.size - 1 /\ EndOf(r) \in r.base .. r.base + r.size - 1
  BY <1>1, <1>2
<1> QED BY <1>1, <1>2, <1>3, <1>4

LEMMA SpansAreNat == Spans \subseteq Nat
<1> SUFFICES ASSUME NEW a \in Spans PROVE a \in Nat
  OBVIOUS
<1>1. PICK r \in Regions : a \in r.base .. r.base + r.size - 1
  BY DEF Spans
<1> QED BY <1>1, RegionFacts

\* No unit of memory is in two regions.
LEMMA OneRegion ==
    ASSUME NEW r \in Regions, NEW s \in Regions, NEW a \in Nat,
           r.base <= a, a < r.base + r.size, s.base <= a, a < s.base + s.size
    PROVE  r = s
<1>1. r # s => r.base + r.size <= s.base \/ s.base + s.size <= r.base
  BY HeapAssumption
<1> QED BY <1>1, RegionFacts

(* ------------------------------- blocks ------------------------------- *)

\* Where a block is: in the region it belongs to, with what follows it.
LEMMA BlockFacts ==
    ASSUME NEW lin, NEW B, NEW A, Tiled(lin, B, A), NEW m \in B
    PROVE  /\ m \in Nat /\ m \in Spans
           /\ lin.next[m] \in Nat /\ Mcb < lin.next[m] /\ Mcb \in Nat \ {0}
           /\ m + lin.next[m] \in Spans
           /\ lin.prev[m + lin.next[m]] = lin.next[m]
           /\ m + lin.next[m] \in B \/ m + lin.next[m] \in {EndOf(r) : r \in A}
           /\ \E r \in A : r \in Regions /\ Within(lin, m, r)
<1>1. m \in Spans /\ m \in Nat
  BY SpansAreNat DEF Tiled
<1>2. lin.next[m] \in Nat
  BY <1>1 DEF Tiled
<1>3. PICK r \in A : Within(lin, m, r)
  BY DEF Tiled, Placed
<1>4. r \in Regions /\ Mcb < lin.next[m]
  BY DEF Tiled, Placed
<1>5. m + lin.next[m] \in r.base .. r.base + r.size - 1
  BY <1>1, <1>2, <1>3, <1>4, RegionFacts DEF Within
<1>6. m + lin.next[m] \in Spans
  BY <1>4, <1>5, RegionFacts
<1>7. /\ lin.prev[m + lin.next[m]] = lin.next[m]
      /\ m + lin.next[m] \in B \cup {EndOf(s) : s \in A}
  BY DEF Tiled, Forward
<1> QED BY <1>1, <1>2, <1>3, <1>4, <1>6, <1>7, HeapAssumption

\* Nothing that is inside of a block, or that it reaches and is a block, begins
\* or ends a region.
LEMMA InsideBlock ==
    ASSUME NEW lin, NEW B, NEW A, Tiled(lin, B, A), NEW m \in B,
           NEW a \in Nat, m < a, a < m + lin.next[m]
    PROVE  /\ a \in Spans /\ a \notin B
           /\ \A s \in Regions : a # s.base /\ a # EndOf(s)
<1> USE BlockFacts
<1>1. PICK r \in A : r \in Regions /\ Within(lin, m, r)
  OBVIOUS
<1>2. r.base < a /\ a < EndOf(r)
  BY <1>1, RegionFacts DEF Within
<1>3. a \in Spans
  BY <1>1, <1>2, RegionFacts
<1>4. a \notin B
  BY DEF Tiled, Apart
<1>5. ASSUME NEW s \in Regions PROVE a # s.base /\ a # EndOf(s)
  <2>1. a = s.base \/ a = EndOf(s) => r = s
    BY <1>1, <1>2, RegionFacts, OneRegion
  <2> QED BY <1>1, <1>2, <2>1, RegionFacts
<1> QED BY <1>3, <1>4, <1>5

\* What a block reaches is no beginning of a region, and no other block reaches it.
LEMMA Reached ==
    ASSUME NEW lin, NEW B, NEW A, Tiled(lin, B, A), NEW m \in B
    PROVE  /\ \A s \in Regions : m + lin.next[m] # s.base
           /\ \A x \in B : x + lin.next[x] = m + lin.next[m] => x = m
           /\ \A s \in Regions : m # EndOf(s)
<1> USE BlockFacts
<1>1. PICK r \in A : r \in Regions /\ Within(lin, m, r)
  OBVIOUS
<1>2. /\ r.base <= m /\ m < EndOf(r)
      /\ r.base < m + lin.next[m] /\ m + lin.next[m] <= EndOf(r)
  BY <1>1, RegionFacts DEF Within
<1>3. ASSUME NEW s \in Regions PROVE m + lin.next[m] # s.base /\ m # EndOf(s)
  <2>1. m + lin.next[m] = s.base \/ m = EndOf(s) => r = s
    BY <1>1, <1>2, RegionFacts, OneRegion
  <2> QED BY <1>1, <1>2, <2>1, RegionFacts
<1>4. ASSUME NEW x \in B, x + lin.next[x] = m + lin.next[m] PROVE x = m
  <2>1. x < m => x + lin.next[x] <= m
    BY DEF Tiled, Apart
  <2>2. m < x => m + lin.next[m] <= x
    BY DEF Tiled, Apart
  <2>3. x \in Nat /\ lin.next[x] \in Nat /\ Mcb < lin.next[x]
    OBVIOUS
  <2> QED BY <1>4, <2>1, <2>2, <2>3
<1> QED BY <1>3, <1>4

LEMMA TwoUpdates ==
    ASSUME NEW S, NEW T, NEW f \in [S -> T], NEW a, NEW b, NEW x \in T, NEW y \in T
    PROVE  [f EXCEPT ![a] = x, ![b] = y] \in [S -> T]
<1>1. [f EXCEPT ![a] = x] \in [S -> T]
  OBVIOUS
<1> QED BY <1>1

\* What of a block an allocation leaves is a block, and so is the rest.
LEMMA CutTiled ==
    ASSUME NEW lin, NEW B, NEW A, Tiled(lin, B, A), NEW m \in B,
           NEW k \in Nat, Mcb < k, k + Mcb < lin.next[m], NEW L, L = Cut(lin, m, k)
    PROVE  /\ Tiled(L, B \cup {m + k}, A)
           /\ m + k \in Nat /\ m + k \notin B
           /\ L.next[m] = k
           /\ L.next[m + k] = lin.next[m] - k
           /\ \A x \in B : x # m => L.next[x] = lin.next[x]
<1> DEFINE size == lin.next[m]
           c == m + k
           n == m + size
           BB == B \cup {c}
<1>1. /\ m \in Nat /\ m \in Spans /\ size \in Nat /\ n \in Spans /\ Mcb \in Nat \ {0}
      /\ c \in Nat /\ m < c /\ c < n /\ size - k \in Nat /\ Mcb < size - k
      /\ n = c + (size - k)
  BY BlockFacts
<1>2. c \in Spans /\ c \notin B /\ \A s \in Regions : c # s.base /\ c # EndOf(s)
  BY <1>1, InsideBlock
<1>3. lin.next \in [Spans -> Nat] /\ lin.prev \in [Spans -> Nat]
  BY DEF Tiled
<1>4. /\ L = [next |-> [lin.next EXCEPT ![m] = k, ![c] = size - k],
              prev |-> [lin.prev EXCEPT ![c] = k, ![n] = size - k]]
  BY DEF Cut
<1>5. L.next \in [Spans -> Nat] /\ L.prev \in [Spans -> Nat]
  <2>1. /\ L.next = [lin.next EXCEPT ![m] = k, ![c] = size - k]
        /\ L.prev = [lin.prev EXCEPT ![c] = k, ![n] = size - k]
    BY <1>4
  <2>2. k \in Nat /\ size - k \in Nat
    BY <1>1
  <2>3. [lin.next EXCEPT ![m] = k, ![c] = size - k] \in [Spans -> Nat]
    BY <1>3, <2>2, TwoUpdates
  <2>4. [lin.prev EXCEPT ![c] = k, ![n] = size - k] \in [Spans -> Nat]
    BY <1>3, <2>2, TwoUpdates
  <2> QED BY <2>1, <2>3, <2>4
<1>6. \A x \in Spans : /\ L.next[x] = IF x = m THEN k ELSE IF x = c THEN size - k ELSE lin.next[x]
                       /\ L.prev[x] = IF x = c THEN k ELSE IF x = n THEN size - k ELSE lin.prev[x]
  BY <1>1, <1>2, <1>3, <1>4
<1>7. L \in [next : [Spans -> Nat], prev : [Spans -> Nat]]
  BY <1>4, <1>5
<1>8. /\ L.next[m] = k /\ L.next[c] = size - k
      /\ \A x \in B : x \in Spans /\ x # c /\ (x # m => L.next[x] = lin.next[x])
  <2>1. \A x \in B : x \in Spans BY DEF Tiled
  <2> QED BY <1>1, <1>2, <1>6, <2>1
<1>9. BB \subseteq Spans /\ A \subseteq Regions
  BY <1>2 DEF Tiled
<1>10. Placed(L, BB, A)
  <2>1. PICK r \in A : Within(lin, m, r)
    BY BlockFacts
  <2>2. r.base \in Nat /\ EndOf(r) \in Nat
    BY <1>9, RegionFacts
  <2>3. Mcb < L.next[m] /\ Within(L, m, r) /\ Mcb < L.next[c] /\ Within(L, c, r)
    BY <1>1, <1>8, <2>1, <2>2 DEF Within
  <2>4. ASSUME NEW x \in B, x # m PROVE Mcb < L.next[x] /\ \E s \in A : Within(L, x, s)
    <3>1. PICK s \in A : Within(lin, x, s) /\ Mcb < lin.next[x]
      BY BlockFacts
    <3> QED BY <1>8, <2>4, <3>1 DEF Within
  <2> QED BY <2>3, <2>4 DEF Placed
<1>11. Apart(L, BB)
  <2> SUFFICES ASSUME NEW x \in BB, NEW y \in BB, x < y PROVE x + L.next[x] <= y
    BY DEF Apart
  <2>1. \A z \in B : z \in Nat /\ lin.next[z] \in Nat
    BY BlockFacts
  <2>2. \A u, v \in B : u < v => u + lin.next[u] <= v
    BY DEF Tiled, Apart
  <2>3. CASE x = c
    <3>1. y \in B /\ y \in Nat BY <1>1, <2>1, <2>3
    <3>2. n <= y BY <1>1, <2>2, <2>3, <3>1
    <3> QED BY <1>1, <1>8, <2>3, <3>2
  <2>4. CASE y = c /\ x # c
    <3>1. x \in B BY <2>4
    <3>2. x # m => x < m BY <1>1, <2>1, <2>2, <2>4, <3>1
    <3>3. x # m => x + lin.next[x] <= m BY <2>2, <3>1, <3>2
    <3>4. x = m => x + L.next[x] = c BY <1>8
    <3> QED BY <1>1, <1>8, <2>1, <2>4, <3>1, <3>3, <3>4
  <2>5. CASE x # c /\ y # c
    <3>1. x \in B /\ y \in B BY <2>5
    <3>2. x + lin.next[x] <= y BY <2>2, <3>1
    <3>3. L.next[x] <= lin.next[x]
      <4>1. CASE x = m BY <1>1, <1>8, <4>1
      <4>2. CASE x # m BY <1>8, <2>1, <3>1, <4>2
      <4> QED BY <4>1, <4>2
    <3> QED BY <1>1, <1>8, <2>1, <3>1, <3>2, <3>3
  <2> QED BY <2>3, <2>4, <2>5
<1>12. Forward(L, BB, A)
  <2>1. ASSUME NEW x \in BB PROVE /\ x + L.next[x] \in BB \cup {EndOf(r) : r \in A}
                                  /\ L.prev[x + L.next[x]] = L.next[x]
    <3>1. CASE x = m
      BY <1>1, <1>2, <1>6, <1>8, <3>1
    <3>2. CASE x = c
      <4>1. n \in B \cup {EndOf(r) : r \in A}
        BY BlockFacts
      <4>2. x + L.next[x] = n BY <1>1, <1>8, <3>2
      <4>3. L.prev[n] = size - k BY <1>1, <1>6
      <4> QED BY <1>8, <3>2, <4>1, <4>2, <4>3
    <3>3. CASE x \in B /\ x # m
      <4> DEFINE z == x + lin.next[x]
      <4>1. z \in Spans /\ lin.prev[z] = lin.next[x] /\ z \in B \cup {EndOf(r) : r \in A}
        BY <3>3, BlockFacts
      <4>2. z # n
        BY <3>3, Reached
      <4>3. z # c
        BY <1>2, <1>9, <4>1
      <4>4. x + L.next[x] = z /\ L.next[x] = lin.next[x]
        BY <1>8, <3>3
      <4>5. L.prev[z] = lin.prev[z]
        BY <1>6, <4>1, <4>2, <4>3
      <4> QED BY <4>1, <4>4, <4>5
    <3> QED BY <3>1, <3>2, <3>3
  <2> QED BY <2>1 DEF Forward
<1>13. Back(L, BB)
  <2>1. ASSUME NEW x \in BB, L.prev[x] # 0 PROVE /\ x - L.prev[x] \in BB
                                                 /\ L.next[x - L.prev[x]] = L.prev[x]
    <3>1. CASE x = c
      <4>1. L.prev[x] = k /\ x - k = m BY <1>1, <1>2, <1>6, <3>1
      <4> QED BY <1>8, <4>1
    <3>2. CASE x = n /\ x # c
      <4>1. L.prev[x] = size - k /\ x - (size - k) = c BY <1>1, <1>6, <3>2
      <4> QED BY <1>8, <4>1
    <3>3. CASE x \in B /\ x # n
      <4>1. L.prev[x] = lin.prev[x] BY <1>6, <1>8, <3>3
      <4> DEFINE w == x - lin.prev[x]
      <4>2. w \in B /\ lin.next[w] = lin.prev[x] BY <2>1, <3>3, <4>1 DEF Tiled, Back
      <4>3. x = w + lin.next[w]
        <5>1. x \in Nat /\ lin.prev[x] \in Nat BY <1>3, <1>8, <3>3, SpansAreNat
        <5> QED BY <4>2, <5>1
      <4>4. w # m BY <3>3, <4>3
      <4> QED BY <1>8, <4>1, <4>2, <4>4
    <3> QED BY <3>1, <3>2, <3>3
  <2> QED BY <2>1 DEF Back
<1>14. Whole(L, BB, A)
  <2> SUFFICES ASSUME NEW r \in A PROVE r.base \in BB /\ L.prev[r.base] = 0 /\ L.next[EndOf(r)] = 0
    BY DEF Whole
  <2>1. r \in Regions /\ r.base \in B /\ lin.prev[r.base] = 0 /\ lin.next[EndOf(r)] = 0
    BY DEF Tiled, Whole
  <2>2. r.base \in Spans /\ EndOf(r) \in Spans
    BY <2>1, RegionFacts
  <2>3. r.base # n /\ r.base # c /\ EndOf(r) # c /\ EndOf(r) # m
    BY <1>2, <2>1, Reached
  <2> QED BY <1>6, <2>1, <2>2, <2>3
<1>15. Blank(L, A)
  <2> SUFFICES ASSUME NEW r \in Regions \ A, NEW a \in r.base .. r.base + r.size - 1
               PROVE  L.next[a] = 0 /\ L.prev[a] = 0
    BY DEF Blank
  <2>1. lin.next[a] = 0 /\ lin.prev[a] = 0
    BY DEF Tiled, Blank
  <2>2. PICK s \in A : s \in Regions /\ Within(lin, m, s)
    BY BlockFacts
  <2>3. a \in Spans
    BY RegionFacts
  <2>4. s.base <= m /\ n <= EndOf(s)
    BY <2>2 DEF Within
  <2>5. a # m /\ a # c /\ a # n
    <3>1. \A b \in {m, c, n} : b \in Nat /\ s.base <= b /\ b < s.base + s.size
      BY <1>1, <2>2, <2>4, RegionFacts
    <3>2. a \in Nat /\ r.base <= a /\ a < r.base + r.size
      BY RegionFacts
    <3> QED BY <2>2, <3>1, <3>2, OneRegion
  <2> QED BY <1>6, <2>1, <2>3, <2>5
<1>16. Tiled(L, BB, A)
  BY <1>7, <1>9, <1>10, <1>11, <1>12, <1>13, <1>14, <1>15 DEF Tiled
<1> QED BY <1>1, <1>2, <1>8, <1>16

\* The same in two words, for those who cut twice.
CanCut(lin, B, A, m, k) ==
    Tiled(lin, B, A) /\ m \in B /\ k \in Nat /\ Mcb < k /\ k + Mcb < lin.next[m]

IsCut(lin, B, A, m, k, L) ==
    /\ Tiled(L, B \cup {m + k}, A)
    /\ m + k \in Nat /\ m + k \notin B
    /\ L.next[m] = k
    /\ L.next[m + k] = lin.next[m] - k
    /\ \A x \in B : x # m => L.next[x] = lin.next[x]

LEMMA CutOnce ==
    ASSUME NEW lin, NEW B, NEW A, NEW m, NEW k, CanCut(lin, B, A, m, k)
    PROVE  IsCut(lin, B, A, m, k, Cut(lin, m, k))
<1> DEFINE L == Cut(lin, m, k)
<1>1. Tiled(lin, B, A) /\ m \in B /\ k \in Nat /\ Mcb < k /\ k + Mcb < lin.next[m]
  BY DEF CanCut
<1>2. L = Cut(lin, m, k)
  OBVIOUS
<1> HIDE DEF L
<1>3. /\ Tiled(L, B \cup {m + k}, A)
      /\ m + k \in Nat /\ m + k \notin B
      /\ L.next[m] = k
      /\ L.next[m + k] = lin.next[m] - k
      /\ \A x \in B : x # m => L.next[x] = lin.next[x]
  BY ONLY <1>1, <1>2, CutTiled
<1> QED BY <1>2, <1>3 DEF IsCut

\* A block that takes in the next one is a block.
LEMMA JoinedTiled ==
    ASSUME NEW lin, NEW B, NEW A, Tiled(lin, B, A), NEW m \in B, m + lin.next[m] \in B,
           NEW L, L = Joined(lin, m)
    PROVE  /\ Tiled(L, B \ {m + lin.next[m]}, A)
           /\ m + lin.next[m] # m
           /\ L.next[m] = lin.next[m] + lin.next[m + lin.next[m]]
           /\ \A x \in B : x # m /\ x # m + lin.next[m] => L.next[x] = lin.next[x]
<1> DEFINE n == m + lin.next[m]
           size == lin.next[m] + lin.next[n]
           e == m + size
           BB == B \ {n}
<1>1. /\ m \in Nat /\ m \in Spans /\ n \in Nat /\ n \in Spans /\ e \in Spans /\ e \in Nat
      /\ size \in Nat /\ Mcb \in Nat \ {0} /\ m < n /\ n < e /\ e = n + lin.next[n]
      /\ lin.next[m] \in Nat /\ lin.next[n] \in Nat /\ Mcb < lin.next[m] /\ Mcb < size
  <2>1. /\ m \in Nat /\ m \in Spans /\ lin.next[m] \in Nat /\ Mcb < lin.next[m] /\ Mcb \in Nat \ {0}
    BY BlockFacts
  <2>2. /\ n \in Nat /\ n \in Spans /\ lin.next[n] \in Nat /\ Mcb < lin.next[n]
        /\ n + lin.next[n] \in Spans
    BY BlockFacts
  <2> QED BY <2>1, <2>2
<1>2. lin.next \in [Spans -> Nat] /\ lin.prev \in [Spans -> Nat]
  BY DEF Tiled
<1>3. /\ L = [next |-> [lin.next EXCEPT ![n] = 0, ![m] = size],
              prev |-> [lin.prev EXCEPT ![n] = 0, ![e] = size]]
  BY DEF Joined
<1>4. L.next \in [Spans -> Nat] /\ L.prev \in [Spans -> Nat]
  <2>1. /\ L.next = [lin.next EXCEPT ![n] = 0, ![m] = size]
        /\ L.prev = [lin.prev EXCEPT ![n] = 0, ![e] = size]
    BY <1>3
  <2>2. 0 \in Nat /\ size \in Nat
    BY <1>1
  <2>3. [lin.next EXCEPT ![n] = 0, ![m] = size] \in [Spans -> Nat]
    BY <1>2, <2>2, TwoUpdates
  <2>4. [lin.prev EXCEPT ![n] = 0, ![e] = size] \in [Spans -> Nat]
    BY <1>2, <2>2, TwoUpdates
  <2> QED BY <2>1, <2>3, <2>4
<1>5. \A x \in Spans : /\ L.next[x] = IF x = m THEN size ELSE IF x = n THEN 0 ELSE lin.next[x]
                       /\ L.prev[x] = IF x = e THEN size ELSE IF x = n THEN 0 ELSE lin.prev[x]
  BY <1>1, <1>2, <1>3
<1>6. L \in [next : [Spans -> Nat], prev : [Spans -> Nat]]
  BY <1>3, <1>4
<1>7. /\ L.next[m] = size /\ m \in BB
      /\ \A x \in B : x \in Spans /\ (x # m /\ x # n => L.next[x] = lin.next[x])
  <2>1. \A x \in B : x \in Spans BY DEF Tiled
  <2>2. L.next[m] = size /\ m \in BB
    BY <1>1, <1>5
  <2>3. \A x \in B : x # m /\ x # n => L.next[x] = lin.next[x]
    BY <1>5, <2>1
  <2> QED BY <2>1, <2>2, <2>3
<1>8. BB \subseteq Spans /\ A \subseteq Regions
  BY DEF Tiled
<1>9. Placed(L, BB, A)
  <2> SUFFICES ASSUME NEW x \in BB PROVE Mcb < L.next[x] /\ \E r \in A : Within(L, x, r)
    BY DEF Placed
  <2>1. CASE x = m
    <3>1. PICK r \in A : r \in Regions /\ Within(lin, m, r) BY BlockFacts
    <3>2. PICK s \in A : s \in Regions /\ Within(lin, n, s) BY BlockFacts
    <3>3. /\ r.base <= m /\ n <= EndOf(r) /\ s.base <= n /\ e <= EndOf(s)
      BY <1>1, <3>1, <3>2 DEF Within
    <3>4. r = s
      <4>1. r.base <= n /\ n < r.base + r.size /\ s.base <= n /\ n < s.base + s.size
        BY <1>1, <3>1, <3>2, <3>3, RegionFacts
      <4> QED BY <1>1, <3>1, <3>2, <4>1, OneRegion
    <3>5. Within(L, m, r)
      BY <1>7, <3>3, <3>4 DEF Within
    <3> QED BY <1>1, <1>7, <2>1, <3>5
  <2>2. CASE x # m
    <3>1. PICK s \in A : Within(lin, x, s) /\ Mcb < lin.next[x]
      BY BlockFacts
    <3> QED BY <1>7, <2>2, <3>1 DEF Within
  <2> QED BY <2>1, <2>2
<1>10. Apart(L, BB)
  <2> SUFFICES ASSUME NEW x \in BB, NEW y \in BB, x < y PROVE x + L.next[x] <= y
    BY DEF Apart
  <2>1. \A u, v \in B : u < v => u + lin.next[u] <= v
    BY DEF Tiled, Apart
  <2>2. x \in Nat /\ y \in Nat
    BY BlockFacts
  <2>3. CASE x = m
    <3>1. n <= y BY <2>1, <2>3
    <3>2. n < y BY <1>1, <2>2, <3>1
    <3>3. e <= y BY <1>1, <2>1, <3>2
    <3> QED BY <1>7, <2>3, <3>3
  <2>4. CASE x # m
    <3>1. x + lin.next[x] <= y BY <2>1
    <3> QED BY <1>7, <2>4, <3>1
  <2> QED BY <2>3, <2>4
<1>11. Forward(L, BB, A)
  <2>1. ASSUME NEW x \in BB PROVE /\ x + L.next[x] \in BB \cup {EndOf(r) : r \in A}
                                  /\ L.prev[x + L.next[x]] = L.next[x]
    <3>1. CASE x = m
      <4>1. e \in B \cup {EndOf(r) : r \in A} /\ e # n
        BY <1>1, BlockFacts
      <4>2. x + L.next[x] = e /\ L.prev[e] = size BY <1>1, <1>5, <1>7, <3>1
      <4> QED BY <1>7, <3>1, <4>1, <4>2
    <3>2. CASE x # m
      <4> DEFINE z == x + lin.next[x]
      <4>1. z \in Spans /\ lin.prev[z] = lin.next[x] /\ z \in B \cup {EndOf(r) : r \in A}
        BY BlockFacts
      <4>2. z # n
        BY <3>2, Reached
      <4>3. z # e
        BY <1>1, <3>2, Reached
      <4>4. x + L.next[x] = z /\ L.next[x] = lin.next[x]
        BY <1>7, <3>2
      <4>5. L.prev[z] = lin.prev[z]
        BY <1>5, <4>1, <4>2, <4>3
      <4> QED BY <4>1, <4>2, <4>4, <4>5
    <3> QED BY <3>1, <3>2
  <2> QED BY <2>1 DEF Forward
<1>12. Back(L, BB)
  <2>1. ASSUME NEW x \in BB, L.prev[x] # 0 PROVE /\ x - L.prev[x] \in BB
                                                 /\ L.next[x - L.prev[x]] = L.prev[x]
    <3>1. CASE x = e
      <4>1. L.prev[x] = size /\ x - size = m BY <1>1, <1>5, <3>1
      <4> QED BY <1>7, <4>1
    <3>2. CASE x # e
      <4>1. L.prev[x] = lin.prev[x] BY <1>5, <1>7, <3>2
      <4> DEFINE w == x - lin.prev[x]
      <4>2. w \in B /\ lin.next[w] = lin.prev[x] BY <2>1, <4>1 DEF Tiled, Back
      <4>3. x = w + lin.next[w]
        <5>1. x \in Nat /\ lin.prev[x] \in Nat BY <1>2, <1>7, SpansAreNat
        <5> QED BY <4>2, <5>1
      <4>4. w # m BY <4>3
      <4>5. w # n BY <1>1, <3>2, <4>3
      <4> QED BY <1>7, <4>1, <4>2, <4>4, <4>5
    <3> QED BY <3>1, <3>2
  <2> QED BY <2>1 DEF Back
<1>13. Whole(L, BB, A)
  <2> SUFFICES ASSUME NEW r \in A PROVE r.base \in BB /\ L.prev[r.base] = 0 /\ L.next[EndOf(r)] = 0
    BY DEF Whole
  <2>1. r \in Regions /\ r.base \in B /\ lin.prev[r.base] = 0 /\ lin.next[EndOf(r)] = 0
    BY DEF Tiled, Whole
  <2>2. r.base \in Spans /\ EndOf(r) \in Spans
    BY <2>1, RegionFacts
  <2>3. r.base # n /\ r.base # e /\ EndOf(r) # m
    BY <1>1, <2>1, Reached
  <2> QED BY <1>5, <2>1, <2>2, <2>3
<1>14. Blank(L, A)
  <2> SUFFICES ASSUME NEW r \in Regions \ A, NEW a \in r.base .. r.base + r.size - 1
               PROVE  L.next[a] = 0 /\ L.prev[a] = 0
    BY DEF Blank
  <2>1. lin.next[a] = 0 /\ lin.prev[a] = 0
    BY DEF Tiled, Blank
  <2>2. PICK s \in A : s \in Regions /\ Within(L, m, s)
    BY <1>7, <1>8, <1>9 DEF Placed
  <2>3. a \in Spans
    BY RegionFacts
  <2>4. s.base <= m /\ e <= EndOf(s)
    BY <1>7, <2>2 DEF Within
  <2>5. a # m /\ a # n /\ a # e
    <3>1. \A b \in {m, n, e} : b \in Nat /\ s.base <= b /\ b < s.base + s.size
      BY <1>1, <2>2, <2>4, RegionFacts
    <3>2. a \in Nat /\ r.base <= a /\ a < r.base + r.size
      BY RegionFacts
    <3> QED BY <2>2, <3>1, <3>2, OneRegion
  <2> QED BY <1>5, <2>1, <2>3, <2>5
<1>15. Tiled(L, BB, A)
  BY <1>6, <1>8, <1>9, <1>10, <1>11, <1>12, <1>13, <1>14 DEF Tiled
<1> QED BY <1>1, <1>7, <1>15

\* The same in two words.
CanJoin(lin, B, A, m) == Tiled(lin, B, A) /\ m \in B /\ m + lin.next[m] \in B

IsJoined(lin, B, A, m, L) ==
    LET n == m + lin.next[m] IN
    /\ Tiled(L, B \ {n}, A) /\ n # m
    /\ L.next[m] = lin.next[m] + lin.next[n]
    /\ \A x \in B : x # m /\ x # n => L.next[x] = lin.next[x]

LEMMA JoinOnce ==
    ASSUME NEW lin, NEW B, NEW A, NEW m, CanJoin(lin, B, A, m)
    PROVE  IsJoined(lin, B, A, m, Joined(lin, m))
<1> DEFINE L == Joined(lin, m)
<1>1. Tiled(lin, B, A) /\ m \in B /\ m + lin.next[m] \in B
  BY DEF CanJoin
<1>2. L = Joined(lin, m)
  OBVIOUS
<1> HIDE DEF L
<1>3. /\ Tiled(L, B \ {m + lin.next[m]}, A)
      /\ m + lin.next[m] # m
      /\ L.next[m] = lin.next[m] + lin.next[m + lin.next[m]]
      /\ \A x \in B : x # m /\ x # m + lin.next[m] => L.next[x] = lin.next[x]
  BY ONLY <1>1, <1>2, JoinedTiled
<1> QED BY <1>2, <1>3 DEF IsJoined

\* A region that is added is one block and the mcb that ends it.
Grown(lin, r) == [next |-> [lin.next EXCEPT ![r.base] = r.size - Mcb],
                  prev |-> [lin.prev EXCEPT ![r.base + (r.size - Mcb)] = r.size - Mcb]]

IsGrown(lin, B, A, r, L) ==
    /\ Tiled(L, B \cup {r.base}, A \cup {r})
    /\ r.base \notin B /\ L.next[r.base] = r.size - Mcb
    /\ \A x \in B : L.next[x] = lin.next[x]
    /\ \A x \in B : x + lin.next[x] # r.base
    /\ EndOf(r) \notin B \cup {r.base}

LEMMA AddedTiled ==
    ASSUME NEW lin, NEW B, NEW A, Tiled(lin, B, A), NEW r, r \in Regions \ A
    PROVE  IsGrown(lin, B, A, r, Grown(lin, r))
<1> DEFINE L == Grown(lin, r)
<1>0. L = [next |-> [lin.next EXCEPT ![r.base] = r.size - Mcb],
           prev |-> [lin.prev EXCEPT ![r.base + (r.size - Mcb)] = r.size - Mcb]]
  BY DEF Grown
<1> HIDE DEF L
<1> DEFINE b == r.base
           o == r.size - Mcb
           e == EndOf(r)
           BB == B \cup {b}
           AA == A \cup {r}
<1>1. /\ b \in Nat /\ o \in Nat /\ b + o = e /\ e \in Nat /\ Mcb < o /\ Mcb \in Nat \ {0}
      /\ b \in Spans /\ e \in Spans /\ b < e /\ e < b + r.size
  BY RegionFacts DEF EndOf
<1>2. lin.next \in [Spans -> Nat] /\ lin.prev \in [Spans -> Nat] /\ A \subseteq Regions
      /\ B \subseteq Spans
  BY DEF Tiled
<1>3. L \in [next : [Spans -> Nat], prev : [Spans -> Nat]]
  BY <1>0, <1>1, <1>2
<1>4. \A x \in Spans : /\ L.next[x] = IF x = b THEN o ELSE lin.next[x]
                       /\ L.prev[x] = IF x = e THEN o ELSE lin.prev[x]
  BY <1>0, <1>1, <1>2
<1>5. \A a \in r.base .. r.base + r.size - 1 : lin.next[a] = 0 /\ lin.prev[a] = 0
  BY DEF Tiled, Blank
<1>6. \A x \in B : /\ x # b /\ x # e /\ x \in Spans /\ x \in Nat
                   /\ x + lin.next[x] # b /\ x + lin.next[x] # e /\ x + lin.next[x] \in Spans
                   /\ lin.next[x] \in Nat /\ Mcb < lin.next[x]
                   /\ x < b => x + lin.next[x] <= b
                   /\ b < x => e <= x
  <2> SUFFICES ASSUME NEW x \in B
               PROVE  /\ x # b /\ x # e /\ x \in Spans /\ x \in Nat
                      /\ x + lin.next[x] # b /\ x + lin.next[x] # e /\ x + lin.next[x] \in Spans
                      /\ lin.next[x] \in Nat /\ Mcb < lin.next[x]
                      /\ x < b => x + lin.next[x] <= b
                      /\ b < x => e <= x
    OBVIOUS
  <2> USE BlockFacts
  <2>1. PICK s \in A : s \in Regions /\ Within(lin, x, s)
    OBVIOUS
  <2>2. s # r
    BY <2>1
  <2>3. x \in Nat /\ lin.next[x] \in Nat /\ Mcb < lin.next[x]
    OBVIOUS
  <2>4. s.base <= x /\ x + lin.next[x] < s.base + s.size
    BY <2>1, <2>3, RegionFacts DEF Within
  <2>5. s.base + s.size <= r.base \/ r.base + r.size <= s.base
    BY <2>1, <2>2, HeapAssumption
  <2>6. s.base \in Nat /\ s.size \in Nat /\ r.size \in Nat
    BY <2>1, RegionFacts
  <2>7. CASE s.base + s.size <= r.base
    BY <1>1, <2>3, <2>4, <2>6, <2>7
  <2>8. CASE r.base + r.size <= s.base
    BY <1>1, <2>3, <2>4, <2>6, <2>8
  <2> QED BY <2>5, <2>7, <2>8
<1>7. L.next[b] = o /\ L.next[e] = 0 /\ L.prev[b] = 0 /\ L.prev[e] = o
  <2>1. b \in r.base .. r.base + r.size - 1 /\ e \in r.base .. r.base + r.size - 1
    BY <1>1, RegionFacts
  <2> QED BY <1>1, <1>4, <1>5, <2>1
<1>8. /\ \A x \in B : L.next[x] = lin.next[x] /\ L.prev[x] = lin.prev[x]
      /\ \A x \in B : L.prev[x + lin.next[x]] = lin.prev[x + lin.next[x]]
  BY <1>4, <1>6
<1> HIDE DEF b, o, e
<1>9. Placed(L, BB, AA)
  <2>1. Mcb < L.next[b] /\ Within(L, b, r)
    BY <1>1, <1>7 DEF Within, b, e
  <2>2. ASSUME NEW x \in B PROVE Mcb < L.next[x] /\ \E s \in AA : Within(L, x, s)
    <3>1. PICK s \in A : Within(lin, x, s) BY BlockFacts
    <3> QED BY <1>6, <1>8, <3>1 DEF Within
  <2> QED BY <2>1, <2>2 DEF Placed
<1>10. Apart(L, BB)
  <2> SUFFICES ASSUME NEW x \in BB, NEW y \in BB, x < y PROVE x + L.next[x] <= y
    BY DEF Apart
  <2>1. CASE x = b BY <1>1, <1>6, <1>7, <2>1
  <2>2. CASE y = b /\ x # b BY <1>6, <1>8, <2>2
  <2>3. CASE x # b /\ y # b
    <3>1. x + lin.next[x] <= y BY <2>3 DEF Tiled, Apart
    <3> QED BY <1>8, <2>3, <3>1
  <2> QED BY <2>1, <2>2, <2>3
<1>11. Forward(L, BB, AA)
  <2>1. ASSUME NEW x \in BB PROVE /\ x + L.next[x] \in BB \cup {EndOf(s) : s \in AA}
                                  /\ L.prev[x + L.next[x]] = L.next[x]
    <3>1. CASE x = b BY <1>1, <1>7, <3>1 DEF e
    <3>2. CASE x # b
      <4>1. /\ x + lin.next[x] \in B \cup {EndOf(s) : s \in A}
            /\ lin.prev[x + lin.next[x]] = lin.next[x]
        BY <3>2 DEF Tiled, Forward
      <4>2. L.next[x] = lin.next[x] /\ L.prev[x + lin.next[x]] = lin.prev[x + lin.next[x]]
        BY <1>8, <3>2
      <4> QED BY <4>1, <4>2
    <3> QED BY <3>1, <3>2
  <2> QED BY <2>1 DEF Forward
<1>12. Back(L, BB)
  <2>1. ASSUME NEW x \in BB, L.prev[x] # 0 PROVE /\ x - L.prev[x] \in BB
                                                 /\ L.next[x - L.prev[x]] = L.prev[x]
    <3>1. x # b BY <1>7, <2>1
    <3>2. L.prev[x] = lin.prev[x] BY <1>8, <3>1
    <3>3. x - lin.prev[x] \in B /\ lin.next[x - lin.prev[x]] = lin.prev[x]
      BY <2>1, <3>1, <3>2 DEF Tiled, Back
    <3> QED BY <1>8, <3>2, <3>3
  <2> QED BY <2>1 DEF Back
<1>13. Whole(L, BB, AA)
  <2>1. b = r.base /\ e = EndOf(r) BY DEF b, e
  <2>2. ASSUME NEW s \in A PROVE s.base \in BB /\ L.prev[s.base] = 0 /\ L.next[EndOf(s)] = 0
    <3>1. s.base \in B /\ lin.prev[s.base] = 0 /\ lin.next[EndOf(s)] = 0 /\ s \in Regions
      BY DEF Tiled, Whole
    <3>2. EndOf(s) # b
      <4>1. EndOf(s) = b => s = r
        BY <1>1, <3>1, RegionFacts, OneRegion DEF b
      <4> QED BY <4>1
    <3>3. EndOf(s) \in Spans BY <3>1, RegionFacts
    <3> QED BY <1>4, <1>8, <3>1, <3>2, <3>3
  <2> QED BY <1>7, <2>1, <2>2 DEF Whole
<1>14. Blank(L, AA)
  <2> SUFFICES ASSUME NEW s \in Regions \ AA, NEW a \in s.base .. s.base + s.size - 1
               PROVE  L.next[a] = 0 /\ L.prev[a] = 0
    BY DEF Blank
  <2>1. lin.next[a] = 0 /\ lin.prev[a] = 0
    BY DEF Tiled, Blank
  <2>2. a # b /\ a # e
    <3>1. a \in Nat /\ s.base <= a /\ a < s.base + s.size
      BY RegionFacts
    <3>2. a = b \/ a = e => s = r
      BY <1>1, <3>1, RegionFacts, OneRegion DEF b
    <3> QED BY <3>2
  <2>3. a \in Spans BY RegionFacts
  <2> QED BY <1>4, <2>1, <2>2, <2>3
<1>15. Tiled(L, BB, AA)
  <2>1. BB \subseteq Spans /\ AA \subseteq Regions
    BY <1>1, <1>2
  <2> QED BY <1>3, <1>9, <1>10, <1>11, <1>12, <1>13, <1>14, <2>1 DEF Tiled
<1>16. b \notin B /\ e \notin BB
  BY <1>1, <1>6
<1> QED BY <1>6, <1>7, <1>8, <1>15, <1>16 DEF IsGrown, L, b, o, e

(* ------------------------------ malloc -------------------------------- *)

LEMMA UnalignedIsNat ==
    ASSUME NEW m \in Nat, NEW alignment \in Nat \ {0}
    PROVE  Unaligned(m, alignment) \in Nat
<1>1. Mcb \in Nat /\ (m + Mcb) \in Nat
  BY HeapAssumption
<1>2. (m + Mcb) % alignment \in 0 .. alignment - 1
  BY <1>1
<1>3. alignment - ((m + Mcb) % alignment) \in Nat
  BY <1>2
<1>4. (alignment - ((m + Mcb) % alignment)) % alignment \in 0 .. alignment - 1
  BY <1>3
<1> QED BY <1>4 DEF Unaligned

\* Memory is given out where the block begins, or with room for a block before.
LEMMA OffsetFacts ==
    ASSUME NEW m \in Nat, NEW alignment \in Nat \ {0}
    PROVE  Offset(m, alignment) \in Nat /\ (Offset(m, alignment) = 0 \/ Mcb < Offset(m, alignment))
<1> DEFINE u == Unaligned(m, alignment)
           S == {o \in {u + k * alignment : k \in 0 .. Mcb + 1} : ~TooNear(o)}
<1>1. u \in Nat /\ Mcb \in Nat \ {0}
  BY UnalignedIsNat, HeapAssumption
<1> HIDE DEF u
<1>2. \A k \in 0 .. Mcb + 1 : u + k * alignment \in Nat
  BY <1>1
<1>3. S \in SUBSET Nat
  BY <1>2
<1>4. Mcb + 1 <= (Mcb + 1) * alignment
  BY <1>1
<1>5. u + (Mcb + 1) * alignment \in S
  <2>1. ~(u + (Mcb + 1) * alignment \in 1 .. Mcb)
    BY <1>1, <1>4
  <2> QED BY <1>1, <2>1 DEF TooNear
<1>6. Offset(m, alignment) = Min(S)
  BY DEF Offset, u
<1>7. Min(S) \in S
  BY <1>3, <1>5, MinOf
<1>8. Min(S) \in Nat /\ ~TooNear(Min(S))
  BY <1>3, <1>7
<1> QED BY <1>1, <1>6, <1>8 DEF TooNear

\* The list t is s with e in front of it, or just s.
Headed(s, e, p, t) ==
    /\ t \in Seq(Nat) /\ Once(t)
    /\ \A x : Linked(t, x) <=> Linked(s, x) \/ (x = e /\ p)

LEMMA InFront ==
    ASSUME NEW s \in Seq(Nat), Once(s), NEW e \in Nat, NEW p, p => ~Linked(s, e)
    PROVE  Headed(s, e, p, (IF p THEN <<e>> ELSE <<>>) \o s)
<1>1. CASE p
  BY <1>1, Prepended DEF Headed
<1>2. CASE ~p
  <2>1. (IF p THEN <<e>> ELSE <<>>) \o s = s
    BY <1>2, ConcatEmptySeq
  <2> QED BY <1>2, <2>1 DEF Headed
<1> QED BY <1>1, <1>2

\* A search reorders the list.
LEMMA SearchedFacts ==
    ASSUME freelist \in Seq(Nat), Once(freelist), NEW moved \in SUBSET DOMAIN freelist
    PROVE  /\ Searched(moved) \in Seq(Nat) /\ Once(Searched(moved))
           /\ \A x : Linked(Searched(moved), x) <=> Linked(freelist, x)
<1>1. CASE moved = {}
  BY <1>1 DEF Searched
<1>2. CASE moved # {}
  <2> DEFINE m == freelist[Min(moved)]
  <2>1. DOMAIN freelist \subseteq Nat
    BY LenProperties
  <2>2. Min(moved) \in DOMAIN freelist
    BY <1>2, <2>1, MinOf
  <2>3. m \in Nat /\ Linked(freelist, m)
    BY <2>2, ElementOfSeq DEF Linked
  <2>4. Searched(moved) = <<m>> \o Unlink(freelist, m)
    BY <1>2 DEF Searched
  <2> HIDE DEF m
  <2>5. /\ Unlink(freelist, m) \in Seq(Nat) /\ Once(Unlink(freelist, m))
        /\ \A x : Linked(Unlink(freelist, m), x) <=> Linked(freelist, x) /\ x # m
    BY <2>3, Unlinked
  <2>6. /\ <<m>> \o Unlink(freelist, m) \in Seq(Nat) /\ Once(<<m>> \o Unlink(freelist, m))
        /\ \A x : Linked(<<m>> \o Unlink(freelist, m), x) <=>
                      Linked(Unlink(freelist, m), x) \/ x = m
    BY <2>3, <2>5, Prepended
  <2> QED BY <2>3, <2>4, <2>5, <2>6
<1> QED BY <1>1, <1>2

\* A block is free, in use or being freed, and nothing else is a block.
LEMMA Owners ==
    ASSUME HeapInv, NEW x
    PROVE  /\ x \in BlocksOf(freelist, live, freeing) <=>
                  Linked(freelist, x) \/ Used(live, x) \/ Freeing(freeing, x)
           /\ Linked(freelist, x) => x \in Nat /\ ~Used(live, x) /\ ~Freeing(freeing, x)
           /\ Used(live, x) => x \in Nat /\ ~Freeing(freeing, x)
           /\ Freeing(freeing, x) => x \in Nat
<1>1. Linked(freelist, x) => x \in Nat
  <2>1. freelist \in Seq(Nat) BY DEF HeapInv, HeapTypes
  <2> QED BY <2>1, ElementOfSeq DEF Linked
<1>2. Used(live, x) => x \in Nat
  BY HeapAssumption DEF HeapInv, HeapTypes, Used
<1>3. Freeing(freeing, x) => x \in Nat
  <2>1. \A c \in Contexts : freeing[c] # Idle => freeing[c].mcb \in Nat
    BY DEF HeapInv, HeapTypes
  <2> QED BY <2>1 DEF Freeing
<1> QED BY <1>1, <1>2, <1>3 DEF HeapInv, OneOwner, BlocksOf

\* What a block is cut into: the part before the buffer, the buffer's own block,
\* as long as keep, and the part after it.
CanSplit(lin0, B, A, m, offset, size) ==
    /\ Tiled(lin0, B, A) /\ m \in B /\ offset \in Nat /\ (offset = 0 \/ Mcb < offset)
    /\ size \in Nat \ {0} /\ offset + Mcb + size <= lin0.next[m]

SplitsInto(lin0, m, offset, size, keep, L) ==
    LET span == lin0.next[m] - offset
        lin  == IF offset = 0 THEN lin0 ELSE Cut(lin0, m, offset)
    IN
    /\ keep = Remainder(span, size)
    /\ L = IF keep = span THEN lin ELSE Cut(lin, m + offset, keep)

IsSplit(lin0, B, A, m, offset, size, keep, L) ==
    LET new == m + offset
        a   == new + keep
        q   == keep # lin0.next[m] - offset
    IN
    /\ Tiled(L, B \cup {new} \cup (IF q THEN {a} ELSE {}), A)
    /\ m \in Nat /\ new \in Nat /\ a \in Nat /\ m <= new /\ new < a /\ Mcb \in Nat \ {0}
    /\ offset = 0 => new = m
    /\ offset # 0 => new \notin B /\ L.next[m] = offset
    /\ L.next[new] = keep /\ Mcb + size <= keep
    /\ q => /\ a \notin B /\ a + L.next[a] = m + lin0.next[m]
            /\ a < m + lin0.next[m]
            /\ \A r \in Regions : a # EndOf(r)
    /\ \A x \in B : x # m => x # new /\ L.next[x] = lin0.next[x]

LEMMA TwoCuts ==
    ASSUME NEW lin0, NEW B, NEW A, NEW m, NEW offset, NEW size, NEW keep, NEW L,
           CanSplit(lin0, B, A, m, offset, size), SplitsInto(lin0, m, offset, size, keep, L)
    PROVE  IsSplit(lin0, B, A, m, offset, size, keep, L)
<1> DEFINE new  == m + offset
           span == lin0.next[m] - offset
           lin  == IF offset = 0 THEN lin0 ELSE Cut(lin0, m, offset)
           a    == new + keep
           B1   == B \cup {new}
           B2   == B1 \cup (IF keep # span THEN {a} ELSE {})
<1>a. /\ Tiled(lin0, B, A) /\ m \in B /\ offset \in Nat /\ (offset = 0 \/ Mcb < offset)
      /\ size \in Nat \ {0} /\ offset + Mcb + size <= lin0.next[m]
  BY DEF CanSplit
<1>b. new = m + offset /\ span = lin0.next[m] - offset /\ a = new + keep
  OBVIOUS
<1>c. keep = Remainder(span, size) /\ L = IF keep = span THEN lin ELSE Cut(lin, new, keep)
  BY DEF SplitsInto
<1>d. lin = IF offset = 0 THEN lin0 ELSE Cut(lin0, m, offset)
  OBVIOUS
<1>e. B2 = B1 \cup (IF keep # span THEN {a} ELSE {})
  OBVIOUS
<1>f. B1 = B \cup {new}
  OBVIOUS
<1> HIDE DEF new, span, lin, a, B2, B1
<1>1. /\ m \in Nat /\ lin0.next[m] \in Nat /\ Mcb < lin0.next[m] /\ Mcb \in Nat \ {0}
  BY <1>a, BlockFacts
<1>2. new \in Nat /\ m <= new /\ span \in Nat /\ Mcb + size <= span
  BY <1>1, <1>a, <1>b
<1>3. /\ keep \in Nat /\ Mcb + size <= keep
      /\ keep # span => keep = Mcb + size /\ keep + Mcb < span
  BY <1>1, <1>2, <1>a, <1>c DEF Remainder
<1>4. a \in Nat /\ new < a
  BY <1>1, <1>2, <1>3, <1>a, <1>b
<1>5. /\ Tiled(lin, B1, A) /\ lin.next[new] = span
      /\ offset = 0 => new = m
      /\ offset # 0 => new \notin B /\ lin.next[m] = offset
      /\ \A x \in B : x # m => x # new /\ lin.next[x] = lin0.next[x]
  <2>1. CASE offset = 0
    <3>1. new = m /\ span = lin0.next[m]
      BY <1>1, <1>b, <2>1
    <3>2. B1 = B /\ lin = lin0
      BY <1>a, <1>d, <1>f, <2>1, <3>1
    <3> QED BY <1>a, <2>1, <3>1, <3>2
  <2>2. CASE offset # 0
    <3>1. CanCut(lin0, B, A, m, offset)
      BY <1>1, <1>a, <2>2 DEF CanCut
    <3>2. lin = Cut(lin0, m, offset)
      BY <1>d, <2>2
    <3>3. IsCut(lin0, B, A, m, offset, Cut(lin0, m, offset))
      BY ONLY <3>1, CutOnce, Zenon
    <3>4. IsCut(lin0, B, A, m, offset, lin)
      BY <3>2, <3>3
    <3> QED BY <1>a, <1>b, <1>f, <2>2, <3>4 DEF IsCut
  <2> QED BY <2>1, <2>2
<1>6. /\ Tiled(L, B2, A) /\ L.next[new] = keep
      /\ keep # span => a \notin B1 /\ L.next[a] = span - keep
      /\ \A x \in B1 : x # new => L.next[x] = lin.next[x]
  <2>1. CASE keep = span
    BY <1>5, <1>c, <1>e, <2>1
  <2>2. CASE keep # span
    <3>1. Mcb < keep /\ keep + Mcb < lin.next[new] /\ keep \in Nat /\ new \in B1
      BY <1>1, <1>3, <1>5, <1>a, <1>f, <2>2
    <3>2. L = Cut(lin, new, keep)
      BY <1>c, <2>2
    <3>3. Tiled(lin, B1, A)
      BY <1>5
    <3>4. B2 = B1 \cup {new + keep}
      BY <1>b, <1>e, <2>2
    <3>5. CanCut(lin, B1, A, new, keep)
      BY <3>1, <3>3 DEF CanCut
    <3>6. IsCut(lin, B1, A, new, keep, Cut(lin, new, keep))
      BY ONLY <3>5, CutOnce, Zenon
    <3>7. IsCut(lin, B1, A, new, keep, L)
      BY <3>2, <3>6
    <3> QED BY <1>5, <1>b, <2>2, <3>4, <3>7 DEF IsCut
  <2> QED BY <2>1, <2>2
<1>7. ASSUME keep # span
      PROVE  /\ a \notin B /\ a + L.next[a] = m + lin0.next[m] /\ a < m + lin0.next[m]
             /\ \A r \in Regions : a # EndOf(r)
  <2>1. a \notin B /\ L.next[a] = span - keep
    BY <1>6, <1>7, <1>f
  <2>2. a + (span - keep) = m + lin0.next[m] /\ m < a /\ a < m + lin0.next[m]
    BY <1>1, <1>2, <1>3, <1>4, <1>7, <1>a, <1>b
  <2>3. \A r \in Regions : a # EndOf(r)
    BY <1>4, <1>a, <2>2, InsideBlock
  <2> QED BY <2>1, <2>2, <2>3
<1>8. offset # 0 => L.next[m] = offset
  BY <1>5, <1>6, <1>a, <1>f
<1>9. \A x \in B : x # m => x # new /\ L.next[x] = lin0.next[x]
  BY <1>5, <1>6, <1>f
<1>10. Tiled(L, B \cup {new} \cup (IF keep # span THEN {a} ELSE {}), A)
  BY <1>6, <1>e, <1>f
<1> QED BY <1>1, <1>2, <1>3, <1>4, <1>5, <1>6, <1>7, <1>8, <1>9, <1>10
        DEF IsSplit, new, span, a

\* How the list tells of the parts: the buffer's own is not in it.
Parted(s, m, a, p, q, t) ==
    /\ t \in Seq(Nat) /\ Once(t)
    /\ \A x : Linked(t, x) <=> \/ Linked(s, x) /\ x # m
                               \/ x = m /\ p
                               \/ x = a /\ q

LEMMA PartsListed ==
    ASSUME NEW s \in Seq(Nat), Once(s), NEW m \in Nat, Linked(s, m),
           NEW a \in Nat, a # m, NEW p, NEW q, q => ~Linked(s, a)
    PROVE  Parted(s, m, a, p, q,
                  (IF q THEN <<a>> ELSE <<>>) \o (IF p THEN <<m>> ELSE <<>>) \o Unlink(s, m))
<1> DEFINE rest   == Unlink(s, m)
           before == IF p THEN <<m>> ELSE <<>>
           after  == IF q THEN <<a>> ELSE <<>>
           u      == before \o rest
<1>1. /\ rest \in Seq(Nat) /\ Once(rest)
      /\ \A x : Linked(rest, x) <=> Linked(s, x) /\ x # m
  BY Unlinked
<1> HIDE DEF rest
<1>2. Headed(rest, m, p, (IF p THEN <<m>> ELSE <<>>) \o rest)
  BY <1>1, InFront
<1>3. Headed(rest, m, p, u)
  BY <1>2
<1>4. before \in Seq(Nat) /\ after \in Seq(Nat)
  <2>1. <<>> \in Seq(Nat) /\ <<a>> \in Seq(Nat) /\ <<m>> \in Seq(Nat)
    OBVIOUS
  <2> QED BY <2>1
<1>5. after \o before \o rest = after \o u
  <2>1. u = before \o rest
    OBVIOUS
  <2> HIDE DEF before, after, u
  <2> QED BY ONLY <1>1, <1>4, <2>1, ConcatAssociative
<1> HIDE DEF u
<1>6. u \in Seq(Nat) /\ Once(u) /\ (q => ~Linked(u, a))
  BY <1>1, <1>3 DEF Headed
<1>7. Headed(u, a, q, (IF q THEN <<a>> ELSE <<>>) \o u)
  BY <1>6, InFront
<1>8. Headed(u, a, q, after \o before \o rest)
  BY <1>5, <1>7
<1> QED BY <1>1, <1>3, <1>8 DEF Headed, Parted, rest

\* A buffer is given a block of its own: this keeps the invariant, whatever the
\* buffer's block was cut from.
Given(m, new, a, p, q, size) ==
    /\ Linked(freelist, m) /\ new \in Nat /\ a \in Nat /\ size \in Sizes
    /\ a # new /\ a # m /\ (~p => new = m)
    /\ p => new \notin BlocksOf(freelist, live, freeing)
    /\ q => a \notin BlocksOf(freelist, live, freeing)
    /\ Tiled(linear', BlocksOf(freelist, live, freeing)
                          \cup {new} \cup (IF q THEN {a} ELSE {}), added')
    /\ Mcb + size <= linear'.next[new]
    /\ \A x \in BlocksOf(freelist, live, freeing) :
           x # m => x # new /\ linear'.next[x] = linear.next[x]
    /\ freelist' \in Seq(Nat) /\ Once(freelist')
    /\ \A x : Linked(freelist', x) <=> \/ Linked(freelist, x) /\ x # m
                                       \/ x = m /\ p
                                       \/ x = a /\ q
    /\ live' = live \cup {[buffer |-> new + Mcb, size |-> size]}
    /\ freeing' = freeing /\ hung' = hung

LEMMA GivenInv ==
    ASSUME HeapInv, NEW m, NEW new, NEW a, NEW p, NEW q, NEW size, Given(m, new, a, p, q, size)
    PROVE  HeapInv'
<1> DEFINE B   == BlocksOf(freelist, live, freeing)
           buf == [buffer |-> new + Mcb, size |-> size]
<1>1. /\ Linked(freelist, m) /\ new \in Nat /\ a \in Nat /\ size \in Sizes
      /\ a # new /\ a # m /\ (~p => new = m) /\ (p => new \notin B) /\ (q => a \notin B)
  BY DEF Given
<1>2. /\ Tiled(linear', B \cup {new} \cup (IF q THEN {a} ELSE {}), added')
      /\ Mcb + size <= linear'.next[new]
      /\ \A x \in B : x # m => x # new /\ linear'.next[x] = linear.next[x]
  BY DEF Given
<1>3. /\ freelist' \in Seq(Nat) /\ Once(freelist')
      /\ \A x : Linked(freelist', x) <=> \/ Linked(freelist, x) /\ x # m
                                         \/ x = m /\ p
                                         \/ x = a /\ q
  BY DEF Given
<1>4. live' = live \cup {buf} /\ freeing' = freeing /\ hung' = hung
  BY DEF Given
<1>5. Mcb \in Nat /\ size \in Nat /\ m \in B /\ m \in Nat
  BY <1>1, HeapAssumption, Owners
<1>6. \A x : /\ x \in B <=> Linked(freelist, x) \/ Used(live, x) \/ Freeing(freeing, x)
             /\ Linked(freelist, x) => x \in Nat /\ ~Used(live, x) /\ ~Freeing(freeing, x)
             /\ Used(live, x) => x \in Nat /\ ~Freeing(freeing, x)
             /\ Freeing(freeing, x) => x \in Nat
  BY Owners
<1> HIDE DEF B
<1>7. buf \in [buffer : Nat, size : Sizes] /\ buf.buffer = new + Mcb /\ buf.size = size
  BY <1>1, <1>5
<1> HIDE DEF buf
<1>8. buf.buffer - Mcb = new /\ Mcb <= buf.buffer
  BY <1>1, <1>5, <1>7
<1>9. \A x : Used(live', x) <=> Used(live, x) \/ x = new
  BY <1>4, <1>8 DEF Used
<1>10. ~Used(live, new) /\ ~Freeing(freeing, new) /\ ~Linked(freelist', new)
  <2>1. CASE p
    BY <1>1, <1>3, <1>5, <1>6, <2>1
  <2>2. CASE ~p
    BY <1>1, <1>3, <1>6, <2>2
  <2> QED BY <2>1, <2>2
<1>11. q => ~Used(live, a) /\ ~Freeing(freeing, a)
  BY <1>1, <1>6
<1>12. HeapTypes(freelist, live, freeing)'
  <2>1. HeapTypes(freelist, live, freeing)
    BY DEF HeapInv
  <2>2. IsFiniteSet(live')
    BY <1>4, <2>1, FS_AddElement DEF HeapTypes
  <2>3. live' \subseteq [buffer : Nat, size : Sizes] /\ \A b \in live' : Mcb <= b.buffer
    BY <1>4, <1>7, <1>8, <2>1 DEF HeapTypes
  <2> QED BY <1>3, <1>4, <2>1, <2>2, <2>3 DEF HeapTypes
<1>13. BlocksOf(freelist', live', freeing') = B \cup {new} \cup (IF q THEN {a} ELSE {})
  <2> SUFFICES ASSUME NEW x
               PROVE  x \in BlocksOf(freelist', live', freeing')
                          <=> x \in B \/ x = new \/ (q /\ x = a)
    OBVIOUS
  <2>1. x \in BlocksOf(freelist', live', freeing') <=>
            x \in Nat /\ (Linked(freelist', x) \/ Used(live', x) \/ Freeing(freeing', x))
    BY DEF BlocksOf
  <2>2. Freeing(freeing', x) <=> Freeing(freeing, x)
    BY <1>4
  <2>3. CASE p
    BY <1>1, <1>3, <1>5, <1>6, <1>9, <2>1, <2>2, <2>3
  <2>4. CASE ~p
    BY <1>1, <1>3, <1>5, <1>6, <1>9, <2>1, <2>2, <2>4
  <2> QED BY <2>3, <2>4
<1>14. OneOwner(freelist, live, freeing)'
  <2>1. OneOwner(freelist, live, freeing)
    BY DEF HeapInv
  <2>2. ASSUME NEW x \in Nat
        PROVE  /\ ~(Linked(freelist', x) /\ Used(live', x))
               /\ ~(Linked(freelist', x) /\ Freeing(freeing', x))
               /\ ~(Used(live', x) /\ Freeing(freeing', x))
    <3>1. Linked(freelist', x) => ~Used(live', x)
      BY <1>1, <1>3, <1>6, <1>9, <1>10, <1>11
    <3>2. Freeing(freeing', x) => ~Linked(freelist', x) /\ ~Used(live', x)
      BY <1>1, <1>3, <1>4, <1>6, <1>9, <1>10, <1>11
    <3> QED BY <3>1, <3>2
  <2>3. \A b \in live : b.buffer # buf.buffer
    BY <1>8, <1>10 DEF Used
  <2>4. \A b, d \in live' : b.buffer = d.buffer => b = d
    BY <1>4, <2>1, <2>3 DEF OneOwner
  <2>5. \A c, d \in Contexts :
            (freeing'[c] # Idle /\ freeing'[d] # Idle /\ freeing'[c].mcb = freeing'[d].mcb) => c = d
    BY <1>4, <2>1 DEF OneOwner
  <2> QED BY <1>3, <2>2, <2>4, <2>5 DEF OneOwner
<1>15. BuffersFit(linear', live')
  <2> SUFFICES ASSUME NEW b \in live' PROVE Mcb + b.size <= linear'.next[b.buffer - Mcb]
    BY DEF BuffersFit
  <2>1. CASE b = buf
    BY <1>2, <1>7, <1>8, <2>1
  <2>2. CASE b \in live
    <3>1. Used(live, b.buffer - Mcb)
      BY <2>2 DEF Used
    <3>2. b.buffer - Mcb \in B /\ b.buffer - Mcb # m
      BY <1>1, <1>6, <3>1
    <3>3. linear'.next[b.buffer - Mcb] = linear.next[b.buffer - Mcb]
      BY <1>2, <3>2
    <3>4. Mcb + b.size <= linear.next[b.buffer - Mcb]
      BY <2>2 DEF HeapInv, BuffersFit
    <3> QED BY <3>3, <3>4
  <2> QED BY <1>4, <2>1, <2>2
<1> QED BY <1>2, <1>4, <1>12, <1>13, <1>14, <1>15 DEF HeapInv

\* What an allocation leaves free is next to what the block was next to, or to the
\* buffer.
LEMMA AllocatedInv ==
    ASSUME HeapInv, NEW list \in Seq(Nat), Once(list),
           \A x : Linked(list, x) <=> Linked(freelist, x),
           NEW m, Linked(freelist, m), NEW size \in Sizes, NEW alignment \in Alignments,
           Gives(m, size, alignment), Allocated(list, m, size, alignment),
           UNCHANGED <<freeing, added, hung>>
    PROVE  HeapInv' /\ (FreeApart(linear, freelist) => FreeApart(linear', freelist'))
<1> DEFINE B      == BlocksOf(freelist, live, freeing)
           offset == Offset(m, alignment)
           new    == m + offset
           span   == linear.next[m] - offset
           keep   == Remainder(span, size)
           a      == new + keep
           p      == offset # 0
           q      == keep # span
           before == IF p THEN <<m>> ELSE <<>>
           after  == IF q THEN <<a>> ELSE <<>>
<1>1. Tiled(linear, B, added) /\ m \in B /\ m \in Nat
  BY Owners DEF HeapInv
<1>2. SplitsInto(linear, m, offset, size, keep, linear')
  BY DEF Allocated, SplitsInto
<1>3. freelist' = after \o before \o Unlink(list, m)
  <2>1. /\ before = IF offset = 0 THEN <<>> ELSE <<m>>
        /\ after = IF keep = span THEN <<>> ELSE <<new + keep>>
    OBVIOUS
  <2> QED BY <2>1 DEF Allocated
<1>4. live' = live \cup {[buffer |-> new + Mcb, size |-> size]}
  BY DEF Allocated
<1>5. CanSplit(linear, B, added, m, offset, size)
  <2>1. offset \in Nat /\ (offset = 0 \/ Mcb < offset)
    BY <1>1, OffsetFacts, HeapAssumption
  <2>2. offset + Mcb + size <= linear.next[m] /\ size \in Nat \ {0}
    BY HeapAssumption DEF Gives, Fits
  <2> QED BY <1>1, <2>1, <2>2 DEF CanSplit
<1>6. new = m + offset /\ a = new + keep
  OBVIOUS
<1>7. (p <=> offset # 0) /\ (q <=> keep # linear.next[m] - offset)
  OBVIOUS
<1>8. before = (IF p THEN <<m>> ELSE <<>>) /\ after = (IF q THEN <<a>> ELSE <<>>)
  OBVIOUS
<1> HIDE DEF B, offset, new, span, keep, a, p, q, before, after
<1>9. IsSplit(linear, B, added, m, offset, size, keep, linear')
  BY <1>2, <1>5, TwoCuts
<1>10. /\ Tiled(linear', B \cup {new} \cup (IF q THEN {a} ELSE {}), added)
       /\ m \in Nat /\ new \in Nat /\ a \in Nat /\ m <= new /\ new < a /\ Mcb \in Nat \ {0}
       /\ ~p => new = m
       /\ p => new \notin B /\ linear'.next[m] = offset
       /\ linear'.next[new] = keep /\ Mcb + size <= keep
       /\ q => /\ a \notin B /\ a + linear'.next[a] = m + linear.next[m]
               /\ a < m + linear.next[m]
               /\ \A r \in Regions : a # EndOf(r)
       /\ \A x \in B : x # m => x # new /\ linear'.next[x] = linear.next[x]
  BY <1>6, <1>7, <1>9 DEF IsSplit
<1>11. a # m /\ a # new
  BY <1>10
<1>12. q => ~Linked(list, a)
  BY <1>10, Owners DEF B
<1>13. /\ freelist' \in Seq(Nat) /\ Once(freelist')
       /\ \A x : Linked(freelist', x) <=> \/ Linked(freelist, x) /\ x # m
                                          \/ x = m /\ p
                                          \/ x = a /\ q
  <2>1. list \in Seq(Nat) /\ Once(list) /\ Linked(list, m)
    OBVIOUS
  <2>2. Parted(list, m, a, p, q,
               (IF q THEN <<a>> ELSE <<>>) \o (IF p THEN <<m>> ELSE <<>>) \o Unlink(list, m))
    BY ONLY <1>10, <1>11, <1>12, <2>1, PartsListed
  <2>3. Parted(list, m, a, p, q, freelist')
    BY <1>3, <1>8, <2>2
  <2> QED BY <2>3 DEF Parted
<1>14. Given(m, new, a, p, q, size)
  BY <1>4, <1>10, <1>11, <1>13 DEF Given, B
<1>15. HeapInv'
  BY <1>14, GivenInv
<1>16. ASSUME FreeApart(linear, freelist) PROVE FreeApart(linear', freelist')
  <2> SUFFICES ASSUME NEW x \in Nat, Linked(freelist', x)
               PROVE  ~Linked(freelist', x + linear'.next[x])
    BY DEF FreeApart
  <2>1. \A y \in Nat : Linked(freelist, y) => ~Linked(freelist, y + linear.next[y])
    BY <1>16 DEF FreeApart
  <2>2. m + linear.next[m] # m
    BY <1>1, BlockFacts
  <2>4. CASE Linked(freelist, x) /\ x # m
    <3> DEFINE y == x + linear.next[x]
    <3>1. x \in B
      BY <2>4, Owners DEF B
    <3>2. linear'.next[x] = linear.next[x]
      BY <1>10, <2>4, <3>1
    <3>3. ~Linked(freelist, y)
      BY <2>1, <2>4
    <3>4. y # m
      BY <3>3
    <3>5. q => y # a
      <4>1. y \in B \/ y \in {EndOf(r) : r \in added}
        BY <1>1, <3>1, BlockFacts
      <4>2. added \subseteq Regions
        BY <1>1 DEF Tiled
      <4> QED BY <1>10, <4>1, <4>2
    <3> QED BY <1>13, <3>2, <3>3, <3>4, <3>5
  <2>5. CASE x = m /\ p
    <3>1. x + linear'.next[x] = new
      BY <1>6, <1>10, <2>5
    <3>2. ~Linked(freelist', new)
      <4>1. ~Linked(freelist, new) /\ new # m
        BY <1>1, <1>10, <2>5, Owners DEF B
      <4> QED BY <1>11, <1>13, <4>1
    <3> QED BY <3>1, <3>2
  <2>6. CASE x = a /\ q
    <3>1. x + linear'.next[x] = m + linear.next[m]
      BY <1>10, <2>6
    <3>2. ~Linked(freelist, m + linear.next[m])
      BY <1>1, <2>1
    <3>3. m + linear.next[m] # a
      BY <1>1, <1>10, <2>6, BlockFacts
    <3> QED BY <1>13, <2>2, <3>1, <3>2, <3>3
  <2> QED BY <1>13, <2>4, <2>5, <2>6
<1> QED BY <1>15, <1>16

\* A search ends with one of three: it never ends, finds nothing, or the first
\* block that gives enough is split.
LEMMA MallocInv ==
    ASSUME HeapInv, NEW size \in Sizes, NEW alignment \in Alignments, Malloc(size, alignment),
           UNCHANGED <<freeing, added>>
    PROVE  HeapInv' /\ (FreeApart(linear, freelist) => FreeApart(linear', freelist'))
<1> DEFINE here  == {i \in DOMAIN freelist : Gives(freelist[i], size, alignment)}
           tried == IF here = {} THEN DOMAIN freelist ELSE 1 .. Min(here) - 1
           moved == {i \in tried : GoesToHead(freelist[i], size, alignment)}
<1>1. /\ freelist \in Seq(Nat) /\ Once(freelist)
      /\ DOMAIN freelist = 1 .. Len(freelist) /\ Len(freelist) \in Nat
  BY LenProperties DEF HeapInv, HeapTypes, OneOwner
<1>2. here # {} => Min(here) \in here
  <2>1. here \in SUBSET Nat
    BY <1>1
  <2> QED BY <2>1, MinOf
<1>3. moved \subseteq DOMAIN freelist
  <2>1. here # {} => Min(here) \in 1 .. Len(freelist)
    BY <1>1, <1>2
  <2>2. \A k \in 1 .. Len(freelist) : 1 .. k - 1 \subseteq 1 .. Len(freelist)
    BY <1>1
  <2>3. tried \subseteq 1 .. Len(freelist)
    <3> HIDE DEF here
    <3> QED BY <1>1, <2>1, <2>2
  <2> QED BY <1>1, <2>3
<1>4. /\ Searched(moved) \in Seq(Nat) /\ Once(Searched(moved))
      /\ \A x : Linked(Searched(moved), x) <=> Linked(freelist, x)
  BY <1>1, <1>3, SearchedFacts
<1>5. \/ Cardinality(moved) > 1 /\ hung' = alignment /\ UNCHANGED <<linear, freelist, live>>
      \/ here = {} /\ freelist' = Searched(moved) /\ UNCHANGED <<linear, live, hung>>
      \/ /\ here # {} /\ UNCHANGED hung
         /\ Allocated(Searched(moved), freelist[Min(here)], size, alignment)
  BY DEF Malloc
<1>6. alignment = 1 => moved = {}
  <2> SUFFICES ASSUME alignment = 1, NEW i \in moved PROVE FALSE
    OBVIOUS
  <2>1. freelist[i] \in Nat /\ Mcb \in Nat
    BY <1>1, <1>3, ElementOfSeq, HeapAssumption
  <2>2. Unaligned(freelist[i], 1) = 0
    BY <2>1 DEF Unaligned
  <2> QED BY <2>2 DEF GoesToHead, TooNear
<1> HIDE DEF here, tried, moved
<1>7. CASE Cardinality(moved) > 1 /\ hung' = alignment /\ UNCHANGED <<linear, freelist, live>>
  <2>1. alignment # 1
    BY <1>6, <1>7, FS_EmptySet
  <2> QED BY <1>7, <2>1 DEF HeapInv
<1>8. CASE here = {} /\ freelist' = Searched(moved) /\ UNCHANGED <<linear, live, hung>>
  <2>1. \A x : Linked(freelist', x) <=> Linked(freelist, x)
    BY <1>4, <1>8
  <2>2. BlocksOf(freelist', live', freeing') = BlocksOf(freelist, live, freeing)
    BY <1>8, <2>1 DEF BlocksOf
  <2>3. HeapInv'
    BY <1>4, <1>8, <2>1, <2>2 DEF HeapInv, HeapTypes, OneOwner
  <2> QED BY <1>8, <2>1, <2>3 DEF FreeApart
<1>9. CASE /\ here # {} /\ UNCHANGED hung
           /\ Allocated(Searched(moved), freelist[Min(here)], size, alignment)
  <2> DEFINE m    == freelist[Min(here)]
             list == Searched(moved)
  <2>1. Linked(freelist, m) /\ Gives(m, size, alignment)
    BY <1>2, <1>9 DEF here, Linked
  <2>2. Allocated(list, m, size, alignment) /\ UNCHANGED <<freeing, added, hung>>
    BY <1>9
  <2>3. list \in Seq(Nat) /\ Once(list) /\ \A x : Linked(list, x) <=> Linked(freelist, x)
    BY <1>4
  <2> HIDE DEF m, list
  <2> QED BY <2>1, <2>2, <2>3, AllocatedInv
<1> QED BY <1>5, <1>7, <1>8, <1>9

(* -------------------------------- free -------------------------------- *)

FreeStates == {Idle} \cup [at : {"next", "prev", "add"}, mcb : Nat]

\* The block that another context is freeing.
Others(fr, c, m) == \E d \in Contexts \ {c} : fr[d] # Idle /\ m = fr[d].mcb

LEMMA ThisOrOthers ==
    ASSUME NEW fr, NEW c \in Contexts
    PROVE  \A x : Freeing(fr, x) <=> Others(fr, c, x) \/ (fr[c] # Idle /\ x = fr[c].mcb)
  BY DEF Freeing, Others

\* A step of a free that keeps the blocks apart and owned once.
Frees(c, v, B2) ==
    /\ v \in FreeStates /\ freeing' = [freeing EXCEPT ![c] = v]
    /\ freelist' \in Seq(Nat) /\ Once(freelist') /\ live' \subseteq live
    /\ Tiled(linear', B2, added) /\ BuffersFit(linear', live')
    /\ hung' = hung /\ added' = added
    /\ \A x \in B2 : \/ Linked(freelist', x) \/ Used(live', x)
                     \/ Others(freeing, c, x) \/ (v # Idle /\ x = v.mcb)
    /\ \A x : /\ Linked(freelist', x) => x \in B2
              /\ Used(live', x) => x \in B2 /\ ~Linked(freelist', x)
              /\ Others(freeing, c, x) => x \in B2 /\ ~Linked(freelist', x) /\ ~Used(live', x)
    /\ v # Idle => /\ v.mcb \in B2 /\ ~Linked(freelist', v.mcb)
                   /\ ~Used(live', v.mcb) /\ ~Others(freeing, c, v.mcb)

LEMMA FreesInv ==
    ASSUME HeapInv, NEW c \in Contexts, NEW v, NEW B2, Frees(c, v, B2)
    PROVE  HeapInv'
<1>1. /\ v \in FreeStates /\ freeing' = [freeing EXCEPT ![c] = v]
      /\ freelist' \in Seq(Nat) /\ Once(freelist') /\ live' \subseteq live
      /\ Tiled(linear', B2, added) /\ BuffersFit(linear', live')
      /\ hung' = hung /\ added' = added
  BY DEF Frees
<1>2. \A x : x \in B2 <=> \/ Linked(freelist', x) \/ Used(live', x)
                          \/ Others(freeing, c, x) \/ (v # Idle /\ x = v.mcb)
  BY DEF Frees
<1>3. /\ \A x : /\ Used(live', x) => ~Linked(freelist', x)
                /\ Others(freeing, c, x) => ~Linked(freelist', x) /\ ~Used(live', x)
      /\ v # Idle => ~Linked(freelist', v.mcb) /\ ~Used(live', v.mcb) /\ ~Others(freeing, c, v.mcb)
  BY DEF Frees
<1>4. freeing \in [Contexts -> FreeStates]
  BY DEF HeapInv, HeapTypes, FreeStates
<1>5. /\ freeing' \in [Contexts -> FreeStates] /\ freeing'[c] = v
      /\ \A d \in Contexts \ {c} : freeing'[d] = freeing[d]
      /\ \A x : Freeing(freeing', x) <=> Others(freeing, c, x) \/ (v # Idle /\ x = v.mcb)
  <2>1. /\ freeing' \in [Contexts -> FreeStates] /\ freeing'[c] = v
        /\ \A d \in Contexts \ {c} : freeing'[d] = freeing[d]
    BY <1>1, <1>4
  <2>2. \A x : Others(freeing', c, x) <=> Others(freeing, c, x)
    BY <2>1 DEF Others
  <2> QED BY <2>1, <2>2, ThisOrOthers
<1>6. HeapTypes(freelist, live, freeing)'
  <2>1. IsFiniteSet(live')
    BY <1>1, FS_Subset DEF HeapInv, HeapTypes
  <2> QED BY <1>1, <1>5, <2>1 DEF HeapInv, HeapTypes, FreeStates
<1>7. BlocksOf(freelist', live', freeing') = B2
  <2>1. B2 \subseteq Nat
    BY <1>1, SpansAreNat DEF Tiled
  <2> QED BY <1>2, <1>5, <2>1 DEF BlocksOf
<1>8. \A d, e \in Contexts :
          (freeing'[d] # Idle /\ freeing'[e] # Idle /\ freeing'[d].mcb = freeing'[e].mcb) => d = e
  <2>1. ASSUME NEW d \in Contexts, NEW e \in Contexts, d # e,
               freeing'[d] # Idle, freeing'[e] # Idle, freeing'[d].mcb = freeing'[e].mcb
        PROVE  FALSE
    <3>1. CASE d = c
      BY <1>3, <1>5, <2>1, <3>1 DEF Others
    <3>2. CASE e = c
      BY <1>3, <1>5, <2>1, <3>2 DEF Others
    <3>3. CASE d # c /\ e # c
      BY <1>5, <2>1, <3>3 DEF HeapInv, OneOwner
    <3> QED BY <3>1, <3>2, <3>3
  <2> QED BY <2>1
<1>9. OneOwner(freelist, live, freeing)'
  <2>1. \A a, b \in live' : a.buffer = b.buffer => a = b
    BY <1>1 DEF HeapInv, OneOwner
  <2>2. \A x \in Nat : /\ ~(Linked(freelist', x) /\ Used(live', x))
                       /\ ~(Linked(freelist', x) /\ Freeing(freeing', x))
                       /\ ~(Used(live', x) /\ Freeing(freeing', x))
    BY <1>3, <1>5
  <2> QED BY <1>1, <1>8, <2>1, <2>2 DEF OneOwner
<1> QED BY <1>1, <1>6, <1>7, <1>9 DEF HeapInv

\* As long as no free was cut into, this context is the only one in the heap.
LEMMA Calm ==
    ASSUME CoalescedInv, NEW c \in Contexts, MayRun(c), Races(c), ~raced'
    PROVE  /\ Merged(linear, freelist, freeing)
           /\ \A d \in Contexts \ {c} : freeing[d] = Idle
  BY DEF CoalescedInv, MayRun, Races, Contexts

\* What a context that is freeing holds.
LEMMA Held ==
    ASSUME HeapInv, NEW c \in Contexts, freeing[c].at # "idle"
    PROVE  /\ freeing[c].mcb \in Nat /\ freeing[c].at \in {"next", "prev", "add"}
           /\ freeing[c].mcb \in BlocksOf(freelist, live, freeing)
           /\ ~Linked(freelist, freeing[c].mcb) /\ ~Used(live, freeing[c].mcb)
           /\ ~Others(freeing, c, freeing[c].mcb)
           /\ freeing[c] # Idle
<1>1. freeing[c] # Idle
  BY DEF Idle
<1>2. freeing[c].mcb \in Nat /\ freeing[c].at \in {"next", "prev", "add"}
  BY <1>1 DEF HeapInv, HeapTypes
<1>3. Freeing(freeing, freeing[c].mcb)
  BY <1>1 DEF Freeing
<1>4. ~Others(freeing, c, freeing[c].mcb)
  BY <1>1 DEF HeapInv, OneOwner, Others
<1> QED BY <1>1, <1>2, <1>3, <1>4, Owners

LEMMA FreeBeginsInv ==
    ASSUME HeapInv, CoalescedInv, NEW c \in Contexts, MayRun(c), Races(c), freeing[c] = Idle,
           NEW b \in live, FreeBegins(c, b), UNCHANGED <<added, hung>>
    PROVE  HeapInv' /\ CoalescedInv'
<1> DEFINE B == BlocksOf(freelist, live, freeing)
           m == b.buffer - Mcb
           v == [at |-> "next", mcb |-> m]
<1>1. /\ live' = live \ {b} /\ freeing' = [freeing EXCEPT ![c] = v]
      /\ linear' = linear /\ freelist' = freelist
  BY DEF FreeBegins
<1>2. m \in Nat /\ Used(live, m)
  <2>1. Used(live, m) BY DEF Used
  <2> QED BY <2>1, Owners
<1>3. v \in FreeStates /\ v # Idle /\ v.mcb = m /\ v.at = "next"
  BY <1>2 DEF FreeStates, Idle
<1>4. \A x : Others(freeing, c, x) <=> Freeing(freeing, x)
  BY ThisOrOthers
<1>5. \A x : Used(live', x) <=> Used(live, x) /\ x # m
  <2>1. \A a \in live : a.buffer \in Nat /\ Mcb <= a.buffer /\ (a.buffer = b.buffer => a = b)
    BY DEF HeapInv, HeapTypes, OneOwner
  <2>2. \A a \in live : a.buffer - Mcb = m => a = b
    BY <2>1, HeapAssumption
  <2> HIDE DEF m
  <2>3. m = b.buffer - Mcb
    BY DEF m
  <2> QED BY <1>1, <2>2, <2>3 DEF Used
<1>6. /\ freelist \in Seq(Nat) /\ Once(freelist) /\ Tiled(linear, B, added)
      /\ BuffersFit(linear, live)
  BY DEF HeapInv, HeapTypes, OneOwner
<1>7. \A x : /\ x \in B <=> Linked(freelist, x) \/ Used(live, x) \/ Freeing(freeing, x)
             /\ Linked(freelist, x) => ~Used(live, x) /\ ~Freeing(freeing, x)
             /\ Used(live, x) => ~Freeing(freeing, x)
  BY Owners
<1> HIDE DEF B, v, m
<1>8. BuffersFit(linear', live')
  BY <1>1, <1>6 DEF BuffersFit
<1>9. Frees(c, v, B)
  BY <1>1, <1>2, <1>3, <1>4, <1>5, <1>6, <1>7, <1>8 DEF Frees
<1>10. HeapInv'
  BY <1>9, FreesInv
<1>11. CoalescedInv'
  <2> SUFFICES ASSUME ~raced' PROVE Merged(linear', freelist', freeing')
    BY DEF CoalescedInv
  <2>1. Merged(linear, freelist, freeing) /\ \A d \in Contexts \ {c} : freeing[d] = Idle
    BY Calm
  <2>2. freeing'[c] = v /\ \A d \in Contexts \ {c} : freeing'[d] = Idle
    BY <1>1, <2>1 DEF HeapInv, HeapTypes
  <2> QED BY <1>1, <1>3, <2>1, <2>2 DEF Merged, Contexts, Idle
<1> QED BY <1>10, <1>11

\* A free that joins its block with a free one, d, has the block of both, lo.
Joins(c, lo, hi, d, v) ==
    /\ freeing[c].at # "idle" /\ Linked(freelist, d)
    /\ (lo = freeing[c].mcb /\ hi = d) \/ (lo = d /\ hi = freeing[c].mcb)
    /\ hi = lo + linear.next[lo]
    /\ v \in FreeStates /\ v # Idle /\ v.mcb = lo /\ freeing' = [freeing EXCEPT ![c] = v]
    /\ freelist' = Unlink(freelist, d) /\ linear' = Joined(linear, lo)
    /\ live' = live /\ added' = added /\ hung' = hung

AfterJoin(lo, hi, d) ==
    /\ lo # hi /\ linear'.next[lo] = linear.next[lo] + linear.next[hi]
    /\ \A x : Linked(freelist', x) <=> Linked(freelist, x) /\ x # d
    /\ \A x : Linked(freelist', x) => x # lo /\ linear'.next[x] = linear.next[x]

LEMMA JoinFrees ==
    ASSUME HeapInv, NEW c \in Contexts, NEW lo, NEW hi, NEW d, NEW v, Joins(c, lo, hi, d, v)
    PROVE  HeapInv' /\ AfterJoin(lo, hi, d)
<1> DEFINE m == freeing[c].mcb
<1>0. /\ freeing[c].at # "idle" /\ Linked(freelist, d)
      /\ (lo = m /\ hi = d) \/ (lo = d /\ hi = m)
      /\ hi = lo + linear.next[lo]
      /\ v \in FreeStates /\ v # Idle /\ v.mcb = lo /\ freeing' = [freeing EXCEPT ![c] = v]
      /\ freelist' = Unlink(freelist, d) /\ linear' = Joined(linear, lo)
      /\ live' = live /\ added' = added /\ hung' = hung
  BY DEF Joins
<1> DEFINE B == BlocksOf(freelist, live, freeing)
<1>1. /\ m \in Nat /\ m \in B /\ freeing[c] # Idle
      /\ ~Linked(freelist, m) /\ ~Used(live, m) /\ ~Others(freeing, c, m)
  BY <1>0, Held
<1>2. d \in Nat /\ d \in B /\ ~Used(live, d) /\ ~Freeing(freeing, d)
  BY <1>0, Owners
<1>3. \A x : Freeing(freeing, x) <=> Others(freeing, c, x) \/ x = m
  BY <1>1, ThisOrOthers
<1>4. /\ freelist \in Seq(Nat) /\ Once(freelist) /\ Tiled(linear, B, added)
      /\ BuffersFit(linear, live)
  BY DEF HeapInv, HeapTypes, OneOwner
<1>5. \A x : /\ x \in B <=> Linked(freelist, x) \/ Used(live, x) \/ Freeing(freeing, x)
             /\ Linked(freelist, x) => ~Used(live, x) /\ ~Freeing(freeing, x)
             /\ Used(live, x) => ~Freeing(freeing, x)
  BY Owners
<1> HIDE DEF B, m
<1>6. IsJoined(linear, B, added, lo, linear')
  <2>1. CanJoin(linear, B, added, lo)
    BY <1>0, <1>1, <1>2, <1>4 DEF CanJoin
  <2>2. IsJoined(linear, B, added, lo, Joined(linear, lo))
    BY <2>1, JoinOnce
  <2> QED BY <1>0, <2>2
<1>7. /\ Tiled(linear', B \ {hi}, added) /\ hi # lo
      /\ linear'.next[lo] = linear.next[lo] + linear.next[hi]
      /\ \A x \in B : x # lo /\ x # hi => linear'.next[x] = linear.next[x]
  BY <1>0, <1>6 DEF IsJoined
<1>8. /\ freelist' \in Seq(Nat) /\ Once(freelist')
      /\ \A x : Linked(freelist', x) <=> Linked(freelist, x) /\ x # d
  BY <1>0, <1>4, Unlinked
<1>9. BuffersFit(linear', live')
  <2> SUFFICES ASSUME NEW b \in live PROVE Mcb + b.size <= linear'.next[b.buffer - Mcb]
    BY <1>0 DEF BuffersFit
  <2>1. Used(live, b.buffer - Mcb)
    BY DEF Used
  <2>2. b.buffer - Mcb \in B /\ b.buffer - Mcb # lo /\ b.buffer - Mcb # hi
    BY <1>0, <1>1, <1>2, <1>5, <2>1
  <2> QED BY <1>4, <1>7, <2>2 DEF BuffersFit
<1>10. Frees(c, v, B \ {hi})
  <2>1. /\ v \in FreeStates /\ freeing' = [freeing EXCEPT ![c] = v]
        /\ freelist' \in Seq(Nat) /\ Once(freelist') /\ live' \subseteq live
        /\ Tiled(linear', B \ {hi}, added) /\ BuffersFit(linear', live')
        /\ hung' = hung /\ added' = added
    BY <1>0, <1>7, <1>8, <1>9
  <2>2. \A x \in B \ {hi} : \/ Linked(freelist', x) \/ Used(live', x)
                            \/ Others(freeing, c, x) \/ (v # Idle /\ x = v.mcb)
    BY <1>0, <1>3, <1>5, <1>8
  <2>3. \A x : /\ Linked(freelist', x) => x \in B \ {hi}
               /\ Used(live', x) => x \in B \ {hi} /\ ~Linked(freelist', x)
               /\ Others(freeing, c, x) =>
                      x \in B \ {hi} /\ ~Linked(freelist', x) /\ ~Used(live', x)
    BY <1>0, <1>1, <1>2, <1>3, <1>5, <1>8
  <2>4. /\ v.mcb \in B \ {hi} /\ ~Linked(freelist', v.mcb)
        /\ ~Used(live', v.mcb) /\ ~Others(freeing, c, v.mcb)
    BY <1>0, <1>1, <1>2, <1>3, <1>7, <1>8
  <2> QED BY <2>1, <2>2, <2>3, <2>4 DEF Frees
<1>11. HeapInv'
  BY <1>10, FreesInv
<1>12. \A x : Linked(freelist', x) => x # lo /\ linear'.next[x] = linear.next[x]
  BY <1>0, <1>1, <1>2, <1>5, <1>7, <1>8
<1> QED BY <1>7, <1>8, <1>11, <1>12 DEF AfterJoin

LEMMA MergeNextInv ==
    ASSUME HeapInv, CoalescedInv, NEW c \in Contexts, MayRun(c), Races(c),
           MergeNext(c), UNCHANGED <<added, hung>>
    PROVE  HeapInv' /\ CoalescedInv'
<1> DEFINE B    == BlocksOf(freelist, live, freeing)
           m    == freeing[c].mcb
           next == m + linear.next[m]
           v    == [at |-> "prev", mcb |-> m]
<1>1. /\ freeing[c].at = "next" /\ live' = live
      /\ \/ /\ Linked(freelist, next)
            /\ freelist' = Unlink(freelist, next) /\ linear' = Joined(linear, m)
         \/ ~Linked(freelist, next) /\ freelist' = freelist /\ linear' = linear
  BY DEF MergeNext, Free
<1>2. /\ m \in Nat /\ m \in B /\ freeing[c] # Idle
      /\ ~Linked(freelist, m) /\ ~Used(live, m) /\ ~Others(freeing, c, m)
  BY <1>1, Held
<1>3. freeing' = [freeing EXCEPT ![c] = v]
  <2>1. freeing[c] \in [at : {"next", "prev", "add"}, mcb : Nat]
    BY <1>2 DEF HeapInv, HeapTypes
  <2>2. [freeing[c] EXCEPT !.at = "prev"] = v
    BY <2>1
  <2>3. freeing' = [freeing EXCEPT ![c] = [freeing[c] EXCEPT !.at = "prev"]]
    BY DEF MergeNext
  <2> QED BY <2>2, <2>3
<1>4. v \in FreeStates /\ v # Idle /\ v.mcb = m /\ v.at = "prev"
  BY <1>2 DEF FreeStates, Idle
<1>5. \A x : Freeing(freeing, x) <=> Others(freeing, c, x) \/ x = m
  BY <1>2, ThisOrOthers
<1>6. /\ freelist \in Seq(Nat) /\ Once(freelist) /\ Tiled(linear, B, added)
      /\ BuffersFit(linear, live)
  BY DEF HeapInv, HeapTypes, OneOwner
<1>7. \A x : /\ x \in B <=> Linked(freelist, x) \/ Used(live, x) \/ Freeing(freeing, x)
             /\ Linked(freelist, x) => ~Used(live, x) /\ ~Freeing(freeing, x)
             /\ Used(live, x) => ~Freeing(freeing, x)
  BY Owners
<1> HIDE DEF B, v, m
<1>8. ~raced' => /\ Merged(linear, freelist, freeing)
                 /\ \A d \in Contexts \ {c} : freeing[d] = Idle
                 /\ freeing'[c] = v /\ \A d \in Contexts \ {c} : freeing'[d] = Idle
  <2> SUFFICES ASSUME ~raced'
               PROVE  /\ Merged(linear, freelist, freeing)
                      /\ \A d \in Contexts \ {c} : freeing[d] = Idle
                      /\ freeing'[c] = v /\ \A d \in Contexts \ {c} : freeing'[d] = Idle
    OBVIOUS
  <2>1. Merged(linear, freelist, freeing) /\ \A d \in Contexts \ {c} : freeing[d] = Idle
    BY Calm
  <2> QED BY <1>3, <2>1 DEF HeapInv, HeapTypes
<1>9. CASE ~Linked(freelist, next)
  <2>1. freelist' = freelist /\ linear' = linear
    BY <1>1, <1>9
  <2>2. Frees(c, v, B)
    BY <1>1, <1>2, <1>3, <1>4, <1>5, <1>6, <1>7, <2>1 DEF Frees
  <2>3. CoalescedInv'
    BY <1>4, <1>8, <1>9, <2>1 DEF CoalescedInv, Merged, Contexts, Idle
  <2> QED BY <2>2, <2>3, FreesInv
<1>10. CASE Linked(freelist, next)
  <2>1. freelist' = Unlink(freelist, next) /\ linear' = Joined(linear, m)
    BY <1>1, <1>10
  <2>2. Joins(c, m, next, next, v)
    BY <1>1, <1>3, <1>4, <1>10, <2>1 DEF Joins, m
  <2>3. HeapInv' /\ AfterJoin(m, next, next)
    BY <2>2, JoinFrees
  <2>4. CoalescedInv'
    <3> SUFFICES ASSUME ~raced' PROVE Merged(linear', freelist', freeing')
      BY DEF CoalescedInv
    <3>1. \A x \in Nat : Linked(freelist, x) => ~Linked(freelist, x + linear.next[x])
      BY <1>8 DEF Merged, FreeApart
    <3>2. FreeApart(linear', freelist')
      BY <2>3, <3>1 DEF FreeApart, AfterJoin
    <3>3. m + linear'.next[m] = next + linear.next[next]
      <4>1. next \in Nat /\ next \in B
        BY <1>10, Owners DEF B
      <4>2. linear.next[m] \in Nat /\ linear.next[next] \in Nat
        BY <1>2, <1>6, <4>1, BlockFacts
      <4>3. linear'.next[m] = linear.next[m] + linear.next[next]
        BY <2>3 DEF AfterJoin
      <4> QED BY <1>2, <4>2, <4>3
    <3>4. ~Linked(freelist', m + linear'.next[m])
      <4>1. next \in Nat
        BY <1>10, Owners
      <4>2. ~Linked(freelist, next + linear.next[next])
        BY <1>10, <3>1, <4>1
      <4> QED BY <2>3, <3>3, <4>2 DEF AfterJoin
    <3> QED BY <1>4, <1>8, <3>2, <3>4 DEF Merged, Contexts, Idle
  <2> QED BY <2>3, <2>4
<1> QED BY <1>9, <1>10

LEMMA MergePrevInv ==
    ASSUME HeapInv, CoalescedInv, NEW c \in Contexts, MayRun(c), Races(c),
           MergePrev(c), UNCHANGED <<added, hung>>
    PROVE  HeapInv' /\ CoalescedInv'
<1> DEFINE B    == BlocksOf(freelist, live, freeing)
           m    == freeing[c].mcb
           prev == m - linear.prev[m]
           join == linear.prev[m] # 0 /\ Linked(freelist, prev)
           k    == IF join THEN prev ELSE m
           v    == [at |-> "add", mcb |-> k]
<1>1. /\ freeing[c].at = "prev" /\ live' = live
      /\ join => /\ freelist' = Unlink(freelist, prev) /\ linear' = Joined(linear, prev)
                 /\ freeing' = [freeing EXCEPT ![c] = [at |-> "add", mcb |-> prev]]
      /\ ~join => /\ freelist' = freelist /\ linear' = linear
                  /\ freeing' = [freeing EXCEPT ![c].at = "add"]
  BY DEF MergePrev, Free
<1>2. /\ m \in Nat /\ m \in B /\ freeing[c] # Idle
      /\ ~Linked(freelist, m) /\ ~Used(live, m) /\ ~Others(freeing, c, m)
  BY <1>1, Held
<1>3. freeing' = [freeing EXCEPT ![c] = v]
  <2>1. freeing[c] \in [at : {"next", "prev", "add"}, mcb : Nat]
    BY <1>2 DEF HeapInv, HeapTypes
  <2>2. [freeing[c] EXCEPT !.at = "add"] = [at |-> "add", mcb |-> m]
    BY <2>1
  <2>3. ~join => freeing' = [freeing EXCEPT ![c] = [freeing[c] EXCEPT !.at = "add"]]
    BY <1>1
  <2> QED BY <1>1, <2>2, <2>3
<1>4. /\ freelist \in Seq(Nat) /\ Once(freelist) /\ Tiled(linear, B, added)
      /\ BuffersFit(linear, live)
  BY DEF HeapInv, HeapTypes, OneOwner
<1>5. k \in Nat
  BY <1>2, Owners
<1>6. v \in FreeStates /\ v # Idle /\ v.mcb = k /\ v.at = "add"
  BY <1>5 DEF FreeStates, Idle
<1>7. \A x : Freeing(freeing, x) <=> Others(freeing, c, x) \/ x = m
  BY <1>2, ThisOrOthers
<1>8. \A x : /\ x \in B <=> Linked(freelist, x) \/ Used(live, x) \/ Freeing(freeing, x)
             /\ Linked(freelist, x) => ~Used(live, x) /\ ~Freeing(freeing, x)
             /\ Used(live, x) => ~Freeing(freeing, x)
  BY Owners
<1>9. prev = m - linear.prev[m] /\ k = IF join THEN prev ELSE m
  OBVIOUS
<1>10. join <=> linear.prev[m] # 0 /\ Linked(freelist, prev)
  OBVIOUS
<1> HIDE DEF B, v, m, k, prev, join
<1>11. ~raced' => /\ Merged(linear, freelist, freeing)
                  /\ \A d \in Contexts \ {c} : freeing[d] = Idle
                  /\ freeing'[c] = v /\ \A d \in Contexts \ {c} : freeing'[d] = Idle
                  /\ ~Linked(freelist, m + linear.next[m])
                  /\ \A x \in Nat : Linked(freelist, x) => ~Linked(freelist, x + linear.next[x])
  <2> SUFFICES ASSUME ~raced'
               PROVE  /\ Merged(linear, freelist, freeing)
                      /\ \A d \in Contexts \ {c} : freeing[d] = Idle
                      /\ freeing'[c] = v /\ \A d \in Contexts \ {c} : freeing'[d] = Idle
                      /\ ~Linked(freelist, m + linear.next[m])
                      /\ \A x \in Nat : Linked(freelist, x) => ~Linked(freelist, x + linear.next[x])
    OBVIOUS
  <2>1. Merged(linear, freelist, freeing) /\ \A d \in Contexts \ {c} : freeing[d] = Idle
    BY Calm
  <2>2. freeing'[c] = v /\ \A d \in Contexts \ {c} : freeing'[d] = Idle
    BY <1>3, <2>1 DEF HeapInv, HeapTypes
  <2>3. ~Linked(freelist, m + linear.next[m])
    BY <1>1, <2>1 DEF Merged, m
  <2> QED BY <2>1, <2>2, <2>3 DEF Merged, FreeApart
<1>12. CASE ~join
  <2>1. freelist' = freelist /\ linear' = linear /\ k = m
    BY <1>1, <1>9, <1>12
  <2>2. Frees(c, v, B)
    BY <1>1, <1>2, <1>3, <1>4, <1>6, <1>7, <1>8, <2>1 DEF Frees
  <2>3. ASSUME NEW x \in Nat, Linked(freelist, x) PROVE x + linear.next[x] # m
    <3> SUFFICES ASSUME x + linear.next[x] = m PROVE FALSE
      OBVIOUS
    <3>1. x \in B
      BY <1>8, <2>3
    <3>2. linear.next[x] \in Nat /\ Mcb < linear.next[x] /\ Mcb \in Nat /\ linear.prev[m] = linear.next[x]
      BY <1>4, <3>1, BlockFacts
    <3>3. linear.prev[m] # 0 /\ prev = x
      BY <1>2, <1>9, <3>2
    <3> QED BY <1>10, <1>12, <2>3, <3>3
  <2>4. CoalescedInv'
    <3> SUFFICES ASSUME ~raced' PROVE Merged(linear', freelist', freeing')
      BY DEF CoalescedInv
    <3>1. /\ freeing'["main"] = Idle \/ freeing'["irq"] = Idle
          /\ FreeApart(linear', freelist')
      BY <1>11, <2>1 DEF Merged, Contexts
    <3> QED BY <1>6, <1>11, <2>1, <2>3, <3>1 DEF Merged, Contexts, Idle
  <2> QED BY <2>2, <2>4, FreesInv
<1>13. CASE join
  <2>1. /\ Linked(freelist, prev) /\ linear.prev[m] # 0 /\ k = prev
        /\ freelist' = Unlink(freelist, prev) /\ linear' = Joined(linear, prev)
    BY <1>1, <1>9, <1>10, <1>13
  <2>2. prev + linear.next[prev] = m
    <3>1. linear.prev[m] \in Nat
      BY <1>4, <1>2 DEF Tiled
    <3>2. prev \in B /\ linear.next[prev] = linear.prev[m]
      BY <1>2, <1>4, <1>9, <2>1 DEF Tiled, Back
    <3> QED BY <1>2, <1>9, <3>1, <3>2
  <2>3. Joins(c, prev, m, prev, v)
    BY <1>1, <1>3, <1>6, <2>1, <2>2 DEF Joins, m
  <2>4. HeapInv' /\ AfterJoin(prev, m, prev)
    BY <2>3, JoinFrees
  <2>5. CoalescedInv'
    <3> SUFFICES ASSUME ~raced' PROVE Merged(linear', freelist', freeing')
      BY DEF CoalescedInv
    <3>1. FreeApart(linear', freelist')
      BY <1>11, <2>4 DEF FreeApart, AfterJoin
    <3>2. prev + linear'.next[prev] = m + linear.next[m]
      <4>1. prev \in B /\ prev \in Nat
        BY <2>1, Owners DEF B
      <4>2. linear.next[m] \in Nat /\ linear.next[prev] \in Nat
        BY <1>2, <1>4, <4>1, BlockFacts
      <4>3. linear'.next[prev] = linear.next[prev] + linear.next[m]
        BY <2>4 DEF AfterJoin
      <4> QED BY <1>2, <2>2, <4>1, <4>2, <4>3
    <3>3. ~Linked(freelist', prev + linear'.next[prev])
      BY <1>11, <2>4, <3>2 DEF AfterJoin
    <3>4. \A x \in Nat : Linked(freelist', x) => x + linear'.next[x] # prev
      BY <1>11, <2>1, <2>4 DEF AfterJoin
    <3> QED BY <1>6, <1>11, <2>1, <3>1, <3>3, <3>4 DEF Merged, Contexts, Idle
  <2> QED BY <2>4, <2>5
<1> QED BY <1>12, <1>13

LEMMA AddFreeInv ==
    ASSUME HeapInv, CoalescedInv, NEW c \in Contexts, MayRun(c), Races(c),
           AddFree(c), UNCHANGED <<added, hung>>
    PROVE  HeapInv' /\ CoalescedInv'
<1> DEFINE B == BlocksOf(freelist, live, freeing)
           m == freeing[c].mcb
<1>1. /\ freeing[c].at = "add" /\ live' = live /\ linear' = linear
      /\ freelist' = <<m>> \o freelist /\ freeing' = [freeing EXCEPT ![c] = Idle]
  BY DEF AddFree
<1>2. /\ m \in Nat /\ m \in B /\ freeing[c] # Idle
      /\ ~Linked(freelist, m) /\ ~Used(live, m) /\ ~Others(freeing, c, m)
  BY <1>1, Held
<1>3. /\ freelist \in Seq(Nat) /\ Once(freelist) /\ Tiled(linear, B, added)
      /\ BuffersFit(linear, live)
  BY DEF HeapInv, HeapTypes, OneOwner
<1>4. \A x : Freeing(freeing, x) <=> Others(freeing, c, x) \/ x = m
  BY <1>2, ThisOrOthers
<1>5. \A x : /\ x \in B <=> Linked(freelist, x) \/ Used(live, x) \/ Freeing(freeing, x)
             /\ Linked(freelist, x) => ~Used(live, x) /\ ~Freeing(freeing, x)
             /\ Used(live, x) => ~Freeing(freeing, x)
  BY Owners
<1> HIDE DEF B
<1>6. /\ freelist' \in Seq(Nat) /\ Once(freelist')
      /\ \A x : Linked(freelist', x) <=> Linked(freelist, x) \/ x = m
  BY <1>1, <1>2, <1>3, Prepended
<1>7. Idle \in FreeStates
  BY DEF FreeStates
<1> HIDE DEF m
<1>8. Frees(c, Idle, B)
  BY <1>1, <1>2, <1>3, <1>4, <1>5, <1>6, <1>7 DEF Frees
<1>9. HeapInv'
  BY <1>8, FreesInv
<1>10. CoalescedInv'
  <2> SUFFICES ASSUME ~raced' PROVE Merged(linear', freelist', freeing')
    BY DEF CoalescedInv
  <2>1. Merged(linear, freelist, freeing) /\ \A d \in Contexts \ {c} : freeing[d] = Idle
    BY Calm
  <2>2. \A d \in Contexts : freeing'[d] = Idle
    BY <1>1, <2>1 DEF HeapInv, HeapTypes
  <2>3. /\ ~Linked(freelist, m + linear.next[m])
        /\ \A x \in Nat : Linked(freelist, x) => x + linear.next[x] # m
    BY <1>1, <2>1 DEF Merged, m
  <2>4. m + linear.next[m] # m
    BY <1>2, <1>3, BlockFacts
  <2>5. FreeApart(linear', freelist')
    BY <1>1, <1>6, <2>1, <2>3, <2>4 DEF Merged, FreeApart
  <2> QED BY <2>2, <2>5 DEF Merged, Contexts, Idle
<1> QED BY <1>9, <1>10

LEMMA AddInv ==
    ASSUME HeapInv, CoalescedInv, NEW r \in Regions, Add(r)
    PROVE  HeapInv' /\ CoalescedInv'
<1> DEFINE B == BlocksOf(freelist, live, freeing)
<1>1. /\ r \in Regions \ added /\ added' = added \cup {r}
      /\ linear' = [next |-> [linear.next EXCEPT ![r.base] = r.size - Mcb],
                    prev |-> [linear.prev EXCEPT ![r.base + (r.size - Mcb)] = r.size - Mcb]]
      /\ freelist' = Append(freelist, r.base)
      /\ live' = live /\ freeing' = freeing /\ raced' = raced /\ hung' = hung
  BY DEF Add
<1>2. /\ freelist \in Seq(Nat) /\ Once(freelist) /\ Tiled(linear, B, added)
      /\ BuffersFit(linear, live)
  BY DEF HeapInv, HeapTypes, OneOwner
<1>3. \A x : /\ x \in B <=> Linked(freelist, x) \/ Used(live, x) \/ Freeing(freeing, x)
             /\ Linked(freelist, x) => x \in Nat /\ ~Used(live, x) /\ ~Freeing(freeing, x)
             /\ Used(live, x) => ~Freeing(freeing, x)
  BY Owners
<1> HIDE DEF B
<1>4. r.base \in Nat
  BY RegionFacts
<1>5. /\ Tiled(linear', B \cup {r.base}, added')
      /\ r.base \notin B /\ linear'.next[r.base] = r.size - Mcb
      /\ \A x \in B : linear'.next[x] = linear.next[x]
      /\ \A x \in B : x + linear.next[x] # r.base
      /\ EndOf(r) \notin B \cup {r.base}
  <2>1. IsGrown(linear, B, added, r, Grown(linear, r))
    BY <1>1, <1>2, AddedTiled
  <2>2. linear' = Grown(linear, r)
    BY <1>1 DEF Grown
  <2>3. IsGrown(linear, B, added, r, linear')
    BY <2>1, <2>2
  <2> QED BY <1>1, <2>3 DEF IsGrown
<1>6. /\ freelist' \in Seq(Nat) /\ Once(freelist')
      /\ \A x : Linked(freelist', x) <=> Linked(freelist, x) \/ x = r.base
  BY <1>1, <1>2, <1>3, <1>4, <1>5, Appended
<1>7. HeapTypes(freelist, live, freeing)' /\ OneOwner(freelist, live, freeing)'
  BY <1>1, <1>3, <1>5, <1>6 DEF HeapInv, HeapTypes, OneOwner
<1>8. BlocksOf(freelist', live', freeing') = B \cup {r.base}
  BY <1>1, <1>4, <1>6 DEF B, BlocksOf
<1>9. BuffersFit(linear', live')
  <2> SUFFICES ASSUME NEW b \in live PROVE Mcb + b.size <= linear'.next[b.buffer - Mcb]
    BY <1>1 DEF BuffersFit
  <2>1. b.buffer - Mcb \in B
    BY <1>3 DEF Used
  <2> QED BY <1>2, <1>5, <2>1 DEF BuffersFit
<1>10. HeapInv'
  BY <1>1, <1>5, <1>7, <1>8, <1>9 DEF HeapInv
<1>11. CoalescedInv'
  <2> SUFFICES ASSUME ~raced' PROVE Merged(linear', freelist', freeing')
    BY DEF CoalescedInv
  <2>1. Merged(linear, freelist, freeing)
    BY <1>1 DEF CoalescedInv
  <2>2. r.base + linear'.next[r.base] = EndOf(r)
    BY <1>4, <1>5, RegionFacts DEF EndOf
  <2>3. FreeApart(linear', freelist')
    BY <1>3, <1>5, <1>6, <2>1, <2>2 DEF Merged, FreeApart
  <2>4. \A c \in Contexts : freeing[c].at # "idle" => freeing[c].mcb \in B
    BY Held DEF B
  <2>5. ASSUME NEW c \in Contexts, freeing[c].at \in {"prev", "add"}
        PROVE  ~Linked(freelist', freeing[c].mcb + linear'.next[freeing[c].mcb])
    BY <1>5, <1>6, <2>1, <2>4, <2>5 DEF Merged
  <2>6. ASSUME NEW c \in Contexts, freeing[c].at = "add", NEW x \in Nat, Linked(freelist', x)
        PROVE  x + linear'.next[x] # freeing[c].mcb
    BY <1>3, <1>5, <1>6, <2>1, <2>2, <2>4, <2>6 DEF Merged
  <2> QED BY <1>1, <2>1, <2>3, <2>5, <2>6 DEF Merged
<1> QED BY <1>10, <1>11

(* ---------------------------- the theorems ---------------------------- *)

\* The heap is empty, and nothing is written to it.
LEMMA InitInv == Init => HeapInv /\ CoalescedInv
<1> SUFFICES ASSUME Init PROVE HeapInv /\ CoalescedInv
  OBVIOUS
<1>1. /\ linear = [next |-> [a \in Spans |-> 0], prev |-> [a \in Spans |-> 0]]
      /\ freelist = <<>> /\ added = {} /\ live = {}
      /\ freeing = [c \in Contexts |-> Idle] /\ hung = 0
  BY DEF Init
<1>2. freelist \in Seq(Nat) /\ \A x : ~Linked(freelist, x)
  BY <1>1 DEF Linked
<1>3. \A x : ~Used(live, x) /\ ~Freeing(freeing, x)
  BY <1>1 DEF Used, Freeing
<1>4. BlocksOf(freelist, live, freeing) = {}
  BY <1>2, <1>3 DEF BlocksOf
<1>5. HeapTypes(freelist, live, freeing)
  BY <1>1, <1>2, FS_EmptySet DEF HeapTypes
<1>6. OneOwner(freelist, live, freeing)
  BY <1>1, <1>2, <1>3 DEF OneOwner, Once
<1>7. Tiled(linear, {}, {})
  <2>1. linear \in [next : [Spans -> Nat], prev : [Spans -> Nat]]
    BY <1>1
  <2>2. Blank(linear, {})
    <3> SUFFICES ASSUME NEW r \in Regions, NEW a \in r.base .. r.base + r.size - 1
                 PROVE  linear.next[a] = 0 /\ linear.prev[a] = 0
      BY DEF Blank
    <3>1. a \in Spans
      BY RegionFacts
    <3> QED BY <1>1, <3>1
  <2> QED BY <2>1, <2>2 DEF Tiled, Placed, Apart, Forward, Back, Whole
<1>8. BuffersFit(linear, live)
  BY <1>1 DEF BuffersFit
<1>9. Merged(linear, freelist, freeing)
  BY <1>1, <1>2 DEF Merged, FreeApart, Contexts, Idle
<1>10. HeapInv
  <2>1. Tiled(linear, BlocksOf(freelist, live, freeing), added)
    BY <1>1, <1>4, <1>7
  <2>2. hung # 1
    BY <1>1
  <2> QED BY <1>5, <1>6, <1>8, <2>1, <2>2 DEF HeapInv
<1> QED BY <1>9, <1>10 DEF CoalescedInv

LEMMA StepInv == HeapInv /\ CoalescedInv /\ [Next]_vars => HeapInv' /\ CoalescedInv'
<1> SUFFICES ASSUME HeapInv, CoalescedInv, [Next]_vars PROVE HeapInv' /\ CoalescedInv'
  OBVIOUS
<1>1. ASSUME NEW r \in Regions, Add(r) PROVE HeapInv' /\ CoalescedInv'
  BY <1>1, AddInv
<1>2. ASSUME NEW c \in Contexts, MayRun(c), Calls(c), Races(c), UNCHANGED added
      PROVE  HeapInv' /\ CoalescedInv'
  <2>1. freeing[c] = Idle
    BY <1>2 DEF Calls
  <2>2. ASSUME NEW size \in Sizes, NEW alignment \in Alignments, Malloc(size, alignment),
               UNCHANGED freeing
        PROVE  HeapInv' /\ CoalescedInv'
    <3>1. HeapInv' /\ (FreeApart(linear, freelist) => FreeApart(linear', freelist'))
      BY <1>2, <2>2, MallocInv
    <3>2. CoalescedInv'
      <4> SUFFICES ASSUME ~raced' PROVE Merged(linear', freelist', freeing')
        BY DEF CoalescedInv
      <4>1. Merged(linear, freelist, freeing) /\ \A d \in Contexts \ {c} : freeing[d] = Idle
        BY <1>2, Calm
      <4>2. \A d \in Contexts : freeing'[d] = Idle
        BY <2>1, <2>2, <4>1
      <4> QED BY <3>1, <4>1, <4>2 DEF Merged, Contexts, Idle
    <3> QED BY <3>1, <3>2
  <2>3. ASSUME NEW b \in live, FreeBegins(c, b), UNCHANGED hung
        PROVE  HeapInv' /\ CoalescedInv'
    BY <1>2, <2>1, <2>3, FreeBeginsInv
  <2> QED BY <1>2, <2>2, <2>3 DEF Calls
<1>3. ASSUME NEW c \in Contexts, MayRun(c), FreeGoesOn(c), Races(c), UNCHANGED added
      PROVE  HeapInv' /\ CoalescedInv'
  <2>1. UNCHANGED <<added, hung>>
    BY <1>3 DEF FreeGoesOn
  <2>2. CASE MergeNext(c) BY <1>3, <2>1, <2>2, MergeNextInv
  <2>3. CASE MergePrev(c) BY <1>3, <2>1, <2>3, MergePrevInv
  <2>4. CASE AddFree(c)   BY <1>3, <2>1, <2>4, AddFreeInv
  <2> QED BY <1>3, <2>2, <2>3, <2>4 DEF FreeGoesOn
<1>4. ASSUME UNCHANGED vars PROVE HeapInv' /\ CoalescedInv'
  <2>1. /\ linear' = linear /\ freelist' = freelist /\ added' = added /\ live' = live
        /\ freeing' = freeing /\ raced' = raced /\ hung' = hung
    BY <1>4 DEF vars
  <2>2. HeapInv'
    BY <2>1 DEF HeapInv, HeapTypes, OneOwner
  <2> QED BY <2>1, <2>2 DEF CoalescedInv
<1> QED BY <1>1, <1>2, <1>3, <1>4 DEF Next

\* vsf_heap_add(), vsf_heap_malloc_aligned() and vsf_heap_free(), at each of its
\* three steps and whoever cuts into it, keep the blocks a tiling of the regions in
\* which each has one owner; and free blocks apart until a free was cut into.
THEOREM HeapInvariance == Spec => [](HeapInv /\ CoalescedInv)
<1>1. HeapInv /\ CoalescedInv /\ [Next]_vars => (HeapInv /\ CoalescedInv)'
  BY StepInv
<1> QED BY <1>1, InitInv, PTL DEF Spec

\* Blocks, InFree and Range(freelist) in the words of the invariant.
LEMMA SameBlocks ==
    ASSUME HeapInv
    PROVE  /\ Blocks = BlocksOf(freelist, live, freeing)
           /\ \A x : /\ x \in Range(freelist) <=> Linked(freelist, x)
                     /\ x \in {b.buffer - Mcb : b \in live} <=> Used(live, x)
                     /\ x \in InFree <=> Freeing(freeing, x)
<1>1. \A x : x \in Range(freelist) <=> Linked(freelist, x)
  BY DEF Range, Linked
<1>2. \A x : x \in {b.buffer - Mcb : b \in live} <=> Used(live, x)
  BY DEF Used
<1>3. \A x : x \in InFree <=> Freeing(freeing, x)
  BY DEF InFree, Freeing
<1>4. \A x : x \in Blocks <=> x \in BlocksOf(freelist, live, freeing)
  BY <1>1, <1>2, <1>3, Owners DEF Blocks
<1> QED BY <1>1, <1>2, <1>3, <1>4

LEMMA CountedApart ==
    ASSUME NEW S, NEW T, IsFiniteSet(S), IsFiniteSet(T), S \cap T = {}
    PROVE  IsFiniteSet(S \cup T) /\ Cardinality(S \cup T) = Cardinality(S) + Cardinality(T)
<1>1. /\ IsFiniteSet(S \cup T)
      /\ Cardinality(S \cup T) = Cardinality(S) + Cardinality(T) - Cardinality(S \cap T)
  BY FS_Union
<1>2. Cardinality(S \cap T) = 0
  BY FS_EmptySet
<1>3. Cardinality(S) \in Nat /\ Cardinality(T) \in Nat
  BY FS_CardinalityType
<1> QED BY <1>1, <1>2, <1>3

\* Each block is counted once.
LEMMA BlocksCounted ==
    ASSUME HeapInv
    PROVE  Cardinality(Blocks) = Len(freelist) + Cardinality(live) + Cardinality(InFree)
<1> DEFINE F == Range(freelist)
           U == {b.buffer - Mcb : b \in live}
           f == [b \in live |-> b.buffer - Mcb]
<1>1. IsFiniteSet(F) /\ Cardinality(F) = Len(freelist) /\ Len(freelist) \in Nat
  <2>1. /\ freelist \in Seq(Nat) /\ Len(freelist) \in Nat /\ DOMAIN freelist = 1 .. Len(freelist)
        /\ Once(freelist)
    BY LenProperties DEF HeapInv, HeapTypes, OneOwner
  <2>2. freelist \in [1 .. Len(freelist) -> F]
    BY <2>1 DEF Range
  <2>3. freelist \in Bijection(1 .. Len(freelist), F)
    BY <2>1, <2>2 DEF Bijection, Injection, Surjection, IsInjective, Once, Range
  <2>4. ExistsBijection(1 .. Len(freelist), F)
    BY <2>3 DEF ExistsBijection
  <2> QED BY <2>1, <2>4, FS_NatBijection, FS_CountingElements
<1>2. IsFiniteSet(U) /\ Cardinality(U) = Cardinality(live) /\ Cardinality(live) \in Nat
  <2>1. IsFiniteSet(live) /\ Cardinality(live) \in Nat
    BY FS_CardinalityType DEF HeapInv, HeapTypes
  <2>2. \A a, b \in live : a.buffer - Mcb = b.buffer - Mcb => a = b
    BY HeapAssumption DEF HeapInv, HeapTypes, OneOwner
  <2>3. f \in [live -> U]
    OBVIOUS
  <2>4. f \in Bijection(live, U)
    BY <2>2, <2>3 DEF Bijection, Injection, Surjection, IsInjective
  <2>5. ExistsBijection(live, U)
    BY <2>4 DEF ExistsBijection
  <2> QED BY <2>1, <2>5, FS_Bijection
<1>3. IsFiniteSet(InFree) /\ Cardinality(InFree) \in Nat
  <2>1. InFree \subseteq {freeing["main"].mcb} \cup {freeing["irq"].mcb}
    BY DEF InFree, Contexts
  <2>2. IsFiniteSet({freeing["main"].mcb} \cup {freeing["irq"].mcb})
    BY FS_Singleton, FS_AddElement
  <2> QED BY <2>1, <2>2, FS_Subset, FS_CardinalityType
<1>4. F \cap U = {} /\ (F \cup U) \cap InFree = {}
  BY SameBlocks, Owners
<1>5. Blocks = (F \cup U) \cup InFree
  BY DEF Blocks
<1> HIDE DEF F, U
<1>6. IsFiniteSet(F \cup U) /\ Cardinality(F \cup U) = Cardinality(F) + Cardinality(U)
  BY <1>1, <1>2, <1>4, CountedApart
<1>7. Cardinality((F \cup U) \cup InFree) = Cardinality(F \cup U) + Cardinality(InFree)
  BY <1>3, <1>4, <1>6, CountedApart
<1> QED BY <1>1, <1>2, <1>3, <1>5, <1>6, <1>7

\* Buffers, free blocks and mcbs never share memory, whatever sizes and alignments
\* are asked for: vsf_heap_malloc_aligned() cuts a block where both parts have more
\* than their mcb, and a free hands its block on to the list, or to the block before.
THEOREM BuffersAreApartAlways == Spec => []BuffersAreApart
<1>1. HeapInv => BuffersAreApart
  <2> SUFFICES ASSUME HeapInv PROVE BuffersAreApart
    OBVIOUS
  <2> DEFINE B == BlocksOf(freelist, live, freeing)
  <2>1. Tiled(linear, B, added) /\ BuffersFit(linear, live) /\ Blocks = B
    BY SameBlocks DEF HeapInv
  <2>2. \A b \in live : b.buffer + b.size <= b.buffer - Mcb + linear.next[b.buffer - Mcb]
    <3> SUFFICES ASSUME NEW b \in live
                 PROVE  b.buffer + b.size <= b.buffer - Mcb + linear.next[b.buffer - Mcb]
      OBVIOUS
    <3>1. /\ b.buffer \in Nat /\ b.size \in Nat /\ Mcb <= b.buffer /\ Mcb \in Nat
      BY HeapAssumption DEF HeapInv, HeapTypes
    <3>2. Mcb + b.size <= linear.next[b.buffer - Mcb]
      BY <2>1 DEF BuffersFit
    <3>3. linear.next[b.buffer - Mcb] \in Nat
      <4>1. Used(live, b.buffer - Mcb)
        BY DEF Used
      <4>2. b.buffer - Mcb \in B
        BY <4>1, Owners
      <4> QED BY <2>1, <4>2, BlockFacts
    <3> QED BY <3>1, <3>2, <3>3
  <2>3. \A m, n \in Blocks : m < n => m + linear.next[m] <= n
    BY <2>1 DEF Tiled, Apart
  <2>4. \A m \in Blocks : linear.next[m] > Mcb
    BY <2>1, BlockFacts
  <2> QED BY <2>2, <2>3, <2>4, BlocksCounted DEF BuffersAreApart
<1> QED BY <1>1, HeapInvariance, PTL

\* The blocks make up every region without gaps, and each mcb tells the truth about
\* the one before: what vsf_heap_free() finds its neighbours by.
THEOREM NothingLostAlways == Spec => []NothingLost
<1>1. HeapInv => NothingLost
  <2> SUFFICES ASSUME HeapInv PROVE NothingLost
    OBVIOUS
  <2> DEFINE B == BlocksOf(freelist, live, freeing)
  <2>1. Tiled(linear, B, added) /\ Blocks = B /\ added \subseteq Regions
    BY SameBlocks DEF HeapInv, Tiled
  <2>2. ASSUME NEW m \in Blocks
        PROVE  LET n == m + linear.next[m] IN
               n \in Blocks \cup Ends /\ linear.prev[n] = linear.next[m]
    BY <2>1 DEF Tiled, Forward, EndOf, Ends
  <2>3. ASSUME NEW r \in added
        PROVE  /\ r.base \in Blocks /\ linear.prev[r.base] = 0
               /\ linear.next[r.base + r.size - Mcb] = 0
    BY <2>1 DEF Tiled, Whole, EndOf
  <2> QED BY <2>2, <2>3 DEF NothingLost
<1> QED BY <1>1, HeapInvariance, PTL

\* vsf_heap_free() merges a block with its free neighbours, and only a free that is
\* cut into by another leaves two side by side.
THEOREM CoalescedAlways == Spec => []Coalesced
<1>1. HeapInv /\ CoalescedInv => Coalesced
  <2> SUFFICES ASSUME HeapInv, CoalescedInv, ~raced, NEW m \in Range(freelist)
               PROVE  m + linear.next[m] \notin Range(freelist)
    BY DEF Coalesced
  <2>1. FreeApart(linear, freelist)
    BY DEF CoalescedInv, Merged
  <2>2. Linked(freelist, m) /\ m \in Nat
    BY SameBlocks, Owners
  <2> QED BY <2>1, <2>2, SameBlocks DEF FreeApart
<1> QED BY <1>1, HeapInvariance, PTL

\* A search for memory that is aligned as any mcb is, what the kernel asks for when
\* it needs a frame, ends: no block goes to the head of the list on the way.
THEOREM FramesReturnAlways == Spec => []FramesReturn
<1>1. HeapInv => FramesReturn
  BY DEF HeapInv, FramesReturn
<1> QED BY <1>1, HeapInvariance, PTL

=============================================================================
