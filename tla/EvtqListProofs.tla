--------------------------- MODULE EvtqListProofs ---------------------------
(* The event queues for any number of EDAs, priorities and event nodes: the   *)
(* ready lists stay whole, no handler is entered again, and no queue keeps a  *)
(* raised priority. The lists are sequences without repetition; lemmas say    *)
(* what linking and unlinking one node does to the others.                    *)
EXTENDS EvtqList, SequenceTheorems, FiniteSetTheorems, TLAPS

\* No node is linked twice in a list.
Once(s) == \A i, j \in DOMAIN s : s[i] = s[j] => i = j

LEMMA PlaceOf ==
    ASSUME NEW s, NEW e, Linked(s, e)
    PROVE  Place(s, e) \in DOMAIN s /\ s[Place(s, e)] = e
  BY DEF Linked, Place

\* vsf_dlist_remove() unlinks the node and no other.
LEMMA Unlinked ==
    ASSUME NEW S, NEW s \in Seq(S), Once(s), NEW e, Linked(s, e)
    PROVE  /\ Unlink(s, e) \in Seq(S) /\ Once(Unlink(s, e))
           /\ \A x : Linked(Unlink(s, e), x) <=> Linked(s, x) /\ x # e
<1> DEFINE k == Place(s, e)
           a == SubSeq(s, 1, k - 1)
           b == SubSeq(s, k + 1, Len(s))
           t == Unlink(s, e)
<1>1. Len(s) \in Nat /\ DOMAIN s = 1 .. Len(s) /\ \A i \in DOMAIN s : s[i] \in S
  BY LenProperties, ElementOfSeq
<1>2. k \in 1 .. Len(s) /\ s[k] = e
  BY <1>1, PlaceOf
<1>3. t = a \o b
  BY DEF Unlink, RemoveAt
<1> HIDE DEF k
<1>4. a \in Seq(S) /\ Len(a) = k - 1 /\ \A i \in 1 .. k - 1 : a[i] = s[i]
  <2>1. \A i \in 1 .. k - 1 : s[i] \in S BY <1>1, <1>2
  <2> QED BY <1>2, <2>1, SubSeqProperties
<1>5. b \in Seq(S) /\ Len(b) = Len(s) - k /\ \A i \in 1 .. Len(s) - k : b[i] = s[k + i]
  <2>1. \A i \in k + 1 .. Len(s) : s[i] \in S BY <1>1, <1>2
  <2>2. /\ b \in Seq(S) /\ Len(b) = IF k + 1 <= Len(s) THEN Len(s) - (k + 1) + 1 ELSE 0
        /\ \A i \in 1 .. Len(s) - (k + 1) + 1 : b[i] = s[k + 1 + i - 1]
    BY <1>1, <1>2, <2>1, SubSeqProperties
  <2> HIDE DEF b
  <2>3. ASSUME NEW i \in 1 .. Len(s) - k PROVE b[i] = s[k + i]
    <3>1. i \in 1 .. Len(s) - (k + 1) + 1 /\ k + 1 + i - 1 = k + i BY <1>1, <1>2
    <3> QED BY <2>2, <3>1
  <2>4. Len(b) = Len(s) - k
    <3>1. CASE k < Len(s)
      <4>1. k + 1 <= Len(s) /\ Len(s) - (k + 1) + 1 = Len(s) - k BY <1>1, <1>2, <3>1
      <4> QED BY <2>2, <4>1
    <3>2. CASE k = Len(s)
      <4>1. ~(k + 1 <= Len(s)) /\ Len(s) - k = 0 BY <1>1, <1>2, <3>2
      <4> QED BY <2>2, <4>1
    <3>3. k < Len(s) \/ k = Len(s)
      <4>1. Len(s) \in Nat /\ k \in 1 .. Len(s) BY <1>1, <1>2
      <4> QED BY ONLY <4>1
    <3> QED BY ONLY <3>1, <3>2, <3>3, Zenon
  <2> QED BY <2>2, <2>3, <2>4
<1> HIDE DEF a, b, t
<1>6. /\ t \in Seq(S) /\ Len(t) = Len(s) - 1
      /\ \A i \in 1 .. Len(s) - 1 : t[i] = IF i < k THEN s[i] ELSE s[i + 1]
  <2>1. /\ t \in Seq(S) /\ Len(t) = Len(a) + Len(b)
        /\ \A i \in 1 .. Len(a) + Len(b) : t[i] = IF i <= Len(a) THEN a[i] ELSE b[i - Len(a)]
    BY <1>3, <1>4, <1>5, ConcatProperties
  <2>2. \A i \in 1 .. Len(s) - 1 : t[i] = IF i < k THEN s[i] ELSE s[i + 1]
    <3> TAKE i \in 1 .. Len(s) - 1
    <3>0. i \in 1 .. Len(a) + Len(b) /\ (i <= Len(a) <=> i < k) BY <1>1, <1>2, <1>4, <1>5
    <3>1. CASE i < k
      <4>1. i \in 1 .. k - 1 BY <1>2, <3>1
      <4> QED BY <1>4, <2>1, <3>0, <3>1, <4>1
    <3>2. CASE ~(i < k)
      <4>1. i - (k - 1) \in 1 .. Len(s) - k BY <1>1, <1>2, <3>2
      <4>2. b[i - (k - 1)] = s[k + (i - (k - 1))] BY <1>5, <4>1
      <4>3. k + (i - (k - 1)) = i + 1 BY <1>1, <1>2
      <4>4. t[i] = b[i - (k - 1)] BY <1>4, <2>1, <3>0, <3>2
      <4> QED BY <3>2, <4>2, <4>3, <4>4
    <3> QED BY <3>1, <3>2
  <2> QED BY <1>1, <1>2, <1>4, <1>5, <2>1, <2>2
<1>7. DOMAIN t = 1 .. Len(s) - 1
  BY <1>6, LenProperties
<1>8. Once(t)
  <2> SUFFICES ASSUME NEW i \in 1 .. Len(s) - 1, NEW j \in 1 .. Len(s) - 1, t[i] = t[j]
               PROVE  i = j
    BY <1>7 DEF Once
  <2> DEFINE old(x) == IF x < k THEN x ELSE x + 1
  <2>1. old(i) \in DOMAIN s /\ old(j) \in DOMAIN s BY <1>1, <1>2
  <2>2. s[old(i)] = s[old(j)] BY <1>6
  <2>3. old(i) = old(j) BY <2>1, <2>2 DEF Once
  <2> QED BY <1>2, <2>3
<1>9. ASSUME NEW x PROVE Linked(t, x) <=> Linked(s, x) /\ x # e
  <2>1. ASSUME Linked(t, x) PROVE Linked(s, x) /\ x # e
    <3>1. PICK i \in 1 .. Len(s) - 1 : t[i] = x BY <1>7, <2>1 DEF Linked
    <3>2. CASE i < k
      <4>1. s[i] = x /\ i \in DOMAIN s /\ i # k BY <1>1, <1>2, <1>6, <3>1, <3>2
      <4> QED BY <1>1, <1>2, <4>1 DEF Linked, Once
    <3>3. CASE ~(i < k)
      <4>1. s[i + 1] = x /\ i + 1 \in DOMAIN s /\ i + 1 # k BY <1>1, <1>2, <1>6, <3>1, <3>3
      <4> QED BY <1>1, <1>2, <4>1 DEF Linked, Once
    <3> QED BY <3>2, <3>3
  <2>2. ASSUME Linked(s, x), x # e PROVE Linked(t, x)
    <3>1. PICK i \in 1 .. Len(s) : s[i] = x /\ i # k BY <1>1, <1>2, <2>2 DEF Linked
    <3>2. CASE i < k
      <4>1. i \in DOMAIN t /\ t[i] = x BY <1>1, <1>2, <1>6, <1>7, <3>1, <3>2
      <4> QED BY <4>1 DEF Linked
    <3>3. CASE i > k
      <4>1. i - 1 \in 1 .. Len(s) - 1 /\ ~(i - 1 < k) BY <1>1, <1>2, <3>3
      <4>2. t[i - 1] = s[(i - 1) + 1] BY <1>6, <4>1
      <4>3. t[i - 1] = x BY <3>1, <4>2
      <4> QED BY <1>7, <4>1, <4>3 DEF Linked
    <3> QED BY <1>2, <3>1, <3>2, <3>3
  <2> QED BY <2>1, <2>2
<1> QED BY <1>6, <1>8, <1>9 DEF t

\* vsf_dlist_add_to_tail() links one more.
LEMMA Appended ==
    ASSUME NEW S, NEW s \in Seq(S), NEW e \in S, Once(s), ~Linked(s, e)
    PROVE  /\ Append(s, e) \in Seq(S) /\ Once(Append(s, e))
           /\ \A x : Linked(Append(s, e), x) <=> Linked(s, x) \/ x = e
<1> DEFINE t == Append(s, e)
<1>1. Len(s) \in Nat /\ DOMAIN s = 1 .. Len(s)
  BY LenProperties
<1>2. /\ t \in Seq(S) /\ Len(t) = Len(s) + 1
      /\ \A i \in 1 .. Len(s) : t[i] = s[i]
      /\ t[Len(s) + 1] = e
  BY AppendProperties
<1>3. DOMAIN t = 1 .. Len(s) + 1
  BY <1>2, LenProperties
<1> HIDE DEF t
<1>4. \A i \in 1 .. Len(s) : t[i] # e
  BY <1>1, <1>2 DEF Linked
<1>5. Once(t)
  <2> SUFFICES ASSUME NEW i \in 1 .. Len(s) + 1, NEW j \in 1 .. Len(s) + 1, t[i] = t[j]
               PROVE  i = j
    BY <1>3 DEF Once
  <2>1. CASE i \in 1 .. Len(s) /\ j \in 1 .. Len(s) BY <1>1, <1>2, <2>1 DEF Once
  <2>2. CASE i = Len(s) + 1 BY <1>1, <1>2, <1>4, <2>2
  <2>3. CASE j = Len(s) + 1 BY <1>1, <1>2, <1>4, <2>3
  <2> QED BY <1>1, <2>1, <2>2, <2>3
<1>6. ASSUME NEW x PROVE Linked(t, x) <=> Linked(s, x) \/ x = e
  <2>1. ASSUME Linked(t, x), x # e PROVE Linked(s, x)
    BY <1>1, <1>2, <1>3, <2>1 DEF Linked
  <2>2. ASSUME Linked(s, x) PROVE Linked(t, x)
    BY <1>1, <1>2, <1>3, <2>2 DEF Linked
  <2>3. Linked(t, e)
    <3>1. Len(s) + 1 \in DOMAIN t BY <1>1, <1>3
    <3> QED BY <1>2, <3>1 DEF Linked
  <2> QED BY <2>1, <2>2, <2>3
<1> QED BY <1>2, <1>5, <1>6 DEF t

\* What is next in a list is linked in it too.
LEMMA NextLinked ==
    ASSUME NEW S, NEW s \in Seq(S), Once(s), NEW e, Linked(s, e), NextOf(s, e) # None
    PROVE  NextOf(s, e) \in S /\ Linked(s, NextOf(s, e)) /\ NextOf(s, e) # e
<1> DEFINE k == Place(s, e)
<1>1. Len(s) \in Nat /\ DOMAIN s = 1 .. Len(s) BY LenProperties
<1>2. k \in 1 .. Len(s) /\ s[k] = e BY <1>1, PlaceOf
<1>3. k < Len(s) /\ NextOf(s, e) = s[k + 1] BY DEF NextOf
<1> HIDE DEF k
<1>4. k + 1 \in DOMAIN s /\ k \in DOMAIN s /\ k + 1 # k BY <1>1, <1>2, <1>3
<1>5. s[k + 1] \in S BY <1>1, <1>4, ElementOfSeq
<1>6. s[k + 1] # e BY <1>2, <1>4 DEF Once
<1> QED BY <1>3, <1>4, <1>5, <1>6 DEF Linked

\* Cardinality counts the links of a node.
LEMMA LinksOnce ==
    ASSUME NEW s, NEW e, Once(s)
    PROVE  Cardinality({i \in DOMAIN s : s[i] = e}) = IF Linked(s, e) THEN 1 ELSE 0
<1> DEFINE L == {i \in DOMAIN s : s[i] = e}
<1>1. CASE Linked(s, e)
  <2>1. PICK i \in DOMAIN s : s[i] = e BY <1>1 DEF Linked
  <2>2. L = {i} BY <2>1 DEF Once
  <2> QED BY <1>1, <2>2, FS_Singleton
<1>2. CASE ~Linked(s, e)
  <2>1. L = {} BY <1>2 DEF Linked
  <2> QED BY <1>2, <2>1, FS_EmptySet
<1> QED BY <1>1, <1>2

(* ---------------------- the events of an EDA -------------------------- *)

\* v is in s at most once.
AtMostOnce(s, v) == \A i, j \in DOMAIN s : s[i] = v /\ s[j] = v => i = j

\* An event is added to a list.
LEMMA AppendedEvent ==
    ASSUME NEW S, NEW s \in Seq(S), NEW w \in S
    PROVE  /\ \A x : Linked(Append(s, w), x) <=> Linked(s, x) \/ x = w
           /\ \A v : AtMostOnce(s, v) /\ (w = v => ~Linked(s, v)) => AtMostOnce(Append(s, w), v)
<1> DEFINE t == Append(s, w)
<1>1. Len(s) \in Nat /\ DOMAIN s = 1 .. Len(s) BY LenProperties
<1>2. /\ t \in Seq(S) /\ Len(t) = Len(s) + 1
      /\ \A i \in 1 .. Len(s) : t[i] = s[i]
      /\ t[Len(s) + 1] = w
  BY AppendProperties
<1>3. DOMAIN t = 1 .. Len(s) + 1 BY <1>2, LenProperties
<1> HIDE DEF t
<1>4. ASSUME NEW x PROVE Linked(t, x) <=> Linked(s, x) \/ x = w
  <2>1. ASSUME Linked(t, x), x # w PROVE Linked(s, x)
    BY <1>1, <1>2, <1>3, <2>1 DEF Linked
  <2>2. ASSUME Linked(s, x) PROVE Linked(t, x)
    BY <1>1, <1>2, <1>3, <2>2 DEF Linked
  <2>3. Linked(t, w)
    <3>1. Len(s) + 1 \in DOMAIN t BY <1>1, <1>3
    <3> QED BY <1>2, <3>1 DEF Linked
  <2> QED BY <2>1, <2>2, <2>3
<1>5. ASSUME NEW v, AtMostOnce(s, v), w = v => ~Linked(s, v) PROVE AtMostOnce(t, v)
  <2> SUFFICES ASSUME NEW i \in 1 .. Len(s) + 1, NEW j \in 1 .. Len(s) + 1, t[i] = v, t[j] = v
               PROVE  i = j
    BY <1>3 DEF AtMostOnce
  <2>1. CASE i \in 1 .. Len(s) /\ j \in 1 .. Len(s)
    BY <1>1, <1>2, <1>5, <2>1 DEF AtMostOnce
  <2>2. CASE i = Len(s) + 1 /\ j \in 1 .. Len(s)
    BY <1>1, <1>2, <1>5, <2>2 DEF Linked
  <2>3. CASE j = Len(s) + 1 /\ i \in 1 .. Len(s)
    BY <1>1, <1>2, <1>5, <2>3 DEF Linked
  <2> QED BY <1>1, <2>1, <2>2, <2>3
<1> QED BY <1>4, <1>5 DEF t

\* The first event is taken.
LEMMA TakenEvent ==
    ASSUME NEW S, NEW s \in Seq(S), s # <<>>
    PROVE  /\ \A x : Linked(s, x) <=> x = Head(s) \/ Linked(Tail(s), x)
           /\ \A v : AtMostOnce(s, v) => AtMostOnce(Tail(s), v)
           /\ \A v : AtMostOnce(s, v) /\ Head(s) = v => ~Linked(Tail(s), v)
<1> DEFINE t == Tail(s)
<1>1. Len(s) \in Nat \ {0} /\ DOMAIN s = 1 .. Len(s) /\ Head(s) = s[1]
  BY EmptySeq, LenProperties
<1>2. t \in Seq(S) /\ Len(t) = Len(s) - 1 /\ \A i \in 1 .. Len(s) - 1 : t[i] = s[i + 1]
  BY HeadTailProperties
<1>3. DOMAIN t = 1 .. Len(s) - 1 BY <1>2, LenProperties
<1> HIDE DEF t
<1>4. ASSUME NEW x, Linked(t, x) PROVE \E i \in DOMAIN s : i # 1 /\ s[i] = x
  <2>1. PICK i \in 1 .. Len(s) - 1 : t[i] = x BY <1>3, <1>4 DEF Linked
  <2>2. i + 1 \in DOMAIN s /\ i + 1 # 1 /\ s[i + 1] = x BY <1>1, <1>2, <2>1
  <2> QED BY <2>2
<1>5. ASSUME NEW x PROVE Linked(s, x) <=> x = Head(s) \/ Linked(t, x)
  <2>1. ASSUME Linked(s, x), x # Head(s) PROVE Linked(t, x)
    <3>1. PICK i \in 1 .. Len(s) : s[i] = x BY <1>1, <2>1 DEF Linked
    <3>2. i - 1 \in 1 .. Len(s) - 1 /\ (i - 1) + 1 = i BY <1>1, <2>1, <3>1
    <3>3. t[i - 1] = x BY <1>2, <3>1, <3>2
    <3> QED BY <1>3, <3>2, <3>3 DEF Linked
  <2>2. Linked(s, Head(s)) BY <1>1 DEF Linked
  <2>3. ASSUME Linked(t, x) PROVE Linked(s, x) BY <1>4, <2>3 DEF Linked
  <2> QED BY <2>1, <2>2, <2>3
<1>6. ASSUME NEW v, AtMostOnce(s, v) PROVE AtMostOnce(t, v)
  <2> SUFFICES ASSUME NEW i \in 1 .. Len(s) - 1, NEW j \in 1 .. Len(s) - 1, t[i] = v, t[j] = v
               PROVE  i = j
    BY <1>3 DEF AtMostOnce
  <2>1. i + 1 \in DOMAIN s /\ j + 1 \in DOMAIN s /\ s[i + 1] = v /\ s[j + 1] = v
    BY <1>1, <1>2
  <2>2. i + 1 = j + 1 BY <1>6, <2>1 DEF AtMostOnce
  <2> QED BY <2>2
<1>7. ASSUME NEW v, AtMostOnce(s, v), Head(s) = v, Linked(t, v) PROVE FALSE
  <2>1. PICK i \in DOMAIN s : i # 1 /\ s[i] = v BY <1>4, <1>7
  <2>2. 1 \in DOMAIN s /\ s[1] = v BY <1>1, <1>7
  <2> QED BY <1>7, <2>1, <2>2 DEF AtMostOnce
<1> QED BY <1>5, <1>6, <1>7 DEF t

(* ------------------------- the ready lists ---------------------------- *)

\* Every list holds, once each, the EDAs that are ready and have its priority.
Lists(lists, ready, prio) ==
    \A q \in Prios :
        /\ Once(lists[q])
        /\ \A e \in Edas : Linked(lists[q], e) <=> ready[e] /\ prio[e] = q

\* An EDA that becomes ready is added to the list of its priority.
LEMMA ListsEnqueued ==
    ASSUME NEW lists \in [Prios -> Seq(Edas)], NEW ready \in [Edas -> BOOLEAN],
           NEW prio \in [Edas -> Prios], Lists(lists, ready, prio),
           NEW e \in Edas, ~ready[e]
    PROVE  LET t == [lists EXCEPT ![prio[e]] = Append(@, e)] IN
           /\ t \in [Prios -> Seq(Edas)]
           /\ Lists(t, [ready EXCEPT ![e] = TRUE], prio)
<1> DEFINE q0 == prio[e]
           s  == lists[q0]
           t  == [lists EXCEPT ![q0] = Append(@, e)]
           r  == [ready EXCEPT ![e] = TRUE]
<1>1. q0 \in Prios /\ s \in Seq(Edas) /\ Once(s) /\ ~Linked(s, e)
  BY DEF Lists
<1>2. /\ Append(s, e) \in Seq(Edas) /\ Once(Append(s, e))
      /\ \A x : Linked(Append(s, e), x) <=> Linked(s, x) \/ x = e
  BY <1>1, Appended
<1>3. t \in [Prios -> Seq(Edas)] /\ t[q0] = Append(s, e) /\ \A q \in Prios \ {q0} : t[q] = lists[q]
  BY <1>1, <1>2
<1>4. r[e] /\ \A x \in Edas \ {e} : r[x] = ready[x]
  OBVIOUS
<1> HIDE DEF t, r, s
<1>5. ASSUME NEW q \in Prios PROVE Once(t[q]) /\ \A x \in Edas : Linked(t[q], x) <=> r[x] /\ prio[x] = q
  <2>1. CASE q = q0
    <3>1. \A x \in Edas : Linked(s, x) <=> ready[x] /\ prio[x] = q0 BY <1>1 DEF Lists, s
    <3> QED BY <1>2, <1>3, <1>4, <2>1, <3>1
  <2>2. CASE q # q0
    <3>1. Once(lists[q]) /\ \A x \in Edas : Linked(lists[q], x) <=> ready[x] /\ prio[x] = q
      BY DEF Lists
    <3> QED BY <1>3, <1>4, <2>2, <3>1
  <2> QED BY <2>1, <2>2
<1> QED BY <1>3, <1>5 DEF Lists, t, r

\* A ready EDA is taken out of its list, and put at the tail of that of p.
LEMMA ListsMoved ==
    ASSUME NEW lists \in [Prios -> Seq(Edas)], NEW ready \in [Edas -> BOOLEAN],
           NEW prio \in [Edas -> Prios], Lists(lists, ready, prio),
           NEW e \in Edas, ready[e], NEW p \in Prios
    PROVE  LET u == [lists EXCEPT ![prio[e]] = Unlink(@, e)]
               t == [u EXCEPT ![p] = Append(@, e)]
           IN
           /\ t \in [Prios -> Seq(Edas)]
           /\ Lists(t, ready, [prio EXCEPT ![e] = p])
           /\ \A q \in Prios, x \in Edas \ {e} : Linked(lists[q], x) => Linked(t[q], x)
<1> DEFINE q0 == prio[e]
           u  == [lists EXCEPT ![q0] = Unlink(@, e)]
           t  == [u EXCEPT ![p] = Append(@, e)]
           d  == [prio EXCEPT ![e] = p]
<1>1. q0 \in Prios /\ lists[q0] \in Seq(Edas) /\ Once(lists[q0]) /\ Linked(lists[q0], e)
  BY DEF Lists
<1>2. /\ Unlink(lists[q0], e) \in Seq(Edas) /\ Once(Unlink(lists[q0], e))
      /\ \A x : Linked(Unlink(lists[q0], e), x) <=> Linked(lists[q0], x) /\ x # e
  BY <1>1, Unlinked
<1>3. /\ u \in [Prios -> Seq(Edas)] /\ u[q0] = Unlink(lists[q0], e)
      /\ \A q \in Prios \ {q0} : u[q] = lists[q]
  BY <1>1, <1>2
<1> HIDE DEF u
<1>4. ASSUME NEW q \in Prios
      PROVE  Once(u[q]) /\ \A x \in Edas : Linked(u[q], x) <=> x # e /\ ready[x] /\ prio[x] = q
  <2>1. Once(lists[q]) /\ \A x \in Edas : Linked(lists[q], x) <=> ready[x] /\ prio[x] = q
    BY DEF Lists
  <2>2. CASE q = q0 BY <1>2, <1>3, <2>1, <2>2
  <2>3. CASE q # q0 BY <1>3, <2>1, <2>3
  <2> QED BY <2>2, <2>3
<1>5. u[p] \in Seq(Edas) /\ Once(u[p]) /\ ~Linked(u[p], e)
  BY <1>3, <1>4
<1>6. /\ Append(u[p], e) \in Seq(Edas) /\ Once(Append(u[p], e))
      /\ \A x : Linked(Append(u[p], e), x) <=> Linked(u[p], x) \/ x = e
  BY <1>5, Appended
<1>7. /\ t \in [Prios -> Seq(Edas)] /\ t[p] = Append(u[p], e)
      /\ \A q \in Prios \ {p} : t[q] = u[q]
  BY <1>3, <1>6
<1>8. d[e] = p /\ \A x \in Edas \ {e} : d[x] = prio[x]
  OBVIOUS
<1> HIDE DEF t, d
<1>9. ASSUME NEW q \in Prios
      PROVE  Once(t[q]) /\ \A x \in Edas : Linked(t[q], x) <=> ready[x] /\ d[x] = q
  <2>1. CASE q = p
    <3>1. t[q] = Append(u[p], e) BY <1>7, <2>1
    <3>2. ASSUME NEW x \in Edas PROVE Linked(t[q], x) <=> ready[x] /\ d[x] = q
      <4>1. Linked(t[q], x) <=> (x # e /\ ready[x] /\ prio[x] = q) \/ x = e
        BY <1>4, <1>6, <2>1, <3>1
      <4>2. CASE x = e BY <1>8, <2>1, <4>1, <4>2
      <4>3. CASE x # e BY <1>8, <4>1, <4>3
      <4> QED BY <4>2, <4>3
    <3> QED BY <1>6, <3>1, <3>2
  <2>2. CASE q # p
    <3>1. t[q] = u[q] BY <1>7, <2>2
    <3>2. ASSUME NEW x \in Edas PROVE Linked(t[q], x) <=> ready[x] /\ d[x] = q
      <4>1. Linked(t[q], x) <=> x # e /\ ready[x] /\ prio[x] = q BY <1>4, <3>1
      <4>2. CASE x = e BY <1>8, <2>2, <4>1, <4>2
      <4>3. CASE x # e BY <1>8, <4>1, <4>3
      <4> QED BY <4>2, <4>3
    <3> QED BY <1>4, <3>1, <3>2
  <2> QED BY <2>1, <2>2
<1>10. Lists(t, ready, d)
  BY <1>9 DEF Lists
<1>11. \A q \in Prios, x \in Edas \ {e} : Linked(lists[q], x) => Linked(t[q], x)
  BY <1>8, <1>9 DEF Lists
<1> QED BY <1>7, <1>10, <1>11 DEF d, t, u

\* After a handler: with more events its EDA goes to the tail of its list, without
\* it is no longer in it.
LEMMA ListsRequeued ==
    ASSUME NEW lists \in [Prios -> Seq(Edas)], NEW ready \in [Edas -> BOOLEAN],
           NEW prio \in [Edas -> Prios], Lists(lists, ready, prio),
           NEW e \in Edas, ready[e], NEW more \in BOOLEAN
    PROVE  LET rest == Unlink(lists[prio[e]], e)
               t    == [lists EXCEPT ![prio[e]] = IF more THEN Append(rest, e) ELSE rest]
           IN
           /\ t \in [Prios -> Seq(Edas)]
           /\ Lists(t, [ready EXCEPT ![e] = more], prio)
           /\ \A q \in Prios, x \in Edas \ {e} : Linked(lists[q], x) => Linked(t[q], x)
<1> DEFINE q0   == prio[e]
           rest == Unlink(lists[q0], e)
           s    == IF more THEN Append(rest, e) ELSE rest
           t    == [lists EXCEPT ![q0] = s]
           r    == [ready EXCEPT ![e] = more]
<1>1. q0 \in Prios /\ lists[q0] \in Seq(Edas) /\ Once(lists[q0]) /\ Linked(lists[q0], e)
  BY DEF Lists
<1>2. /\ rest \in Seq(Edas) /\ Once(rest)
      /\ \A x : Linked(rest, x) <=> Linked(lists[q0], x) /\ x # e
  BY <1>1, Unlinked
<1> HIDE DEF rest
<1>3. /\ Append(rest, e) \in Seq(Edas) /\ Once(Append(rest, e))
      /\ \A x : Linked(Append(rest, e), x) <=> Linked(rest, x) \/ x = e
  BY <1>2, Appended
<1>4. /\ s \in Seq(Edas) /\ Once(s)
      /\ \A x : Linked(s, x) <=> (Linked(lists[q0], x) /\ x # e) \/ (more /\ x = e)
  BY <1>2, <1>3
<1> HIDE DEF s
<1>5. t \in [Prios -> Seq(Edas)] /\ t[q0] = s /\ \A q \in Prios \ {q0} : t[q] = lists[q]
  BY <1>1, <1>4
<1>6. r[e] = more /\ \A x \in Edas \ {e} : r[x] = ready[x]
  OBVIOUS
<1> HIDE DEF t, r
<1>7. ASSUME NEW q \in Prios
      PROVE  Once(t[q]) /\ \A x \in Edas : Linked(t[q], x) <=> r[x] /\ prio[x] = q
  <2>1. Once(lists[q]) /\ \A x \in Edas : Linked(lists[q], x) <=> ready[x] /\ prio[x] = q
    BY DEF Lists
  <2>2. CASE q = q0 BY <1>4, <1>5, <1>6, <2>1, <2>2
  <2>3. CASE q # q0 BY <1>5, <1>6, <2>1, <2>3
  <2> QED BY <2>2, <2>3
<1>8. \A q \in Prios, x \in Edas \ {e} : Linked(lists[q], x) => Linked(t[q], x)
  BY <1>6, <1>7 DEF Lists
<1> QED BY <1>5, <1>7, <1>8 DEF Lists, t, r, s, rest

(* ----------------------------- invariant ------------------------------ *)

\* The types of the kernel's part of the state.
KernelType ==
    /\ evt_list \in [Edas -> Seq(Evts)]
    /\ is_ready \in [Edas -> BOOLEAN] /\ is_limitted \in [Edas -> BOOLEAN]
    /\ cur_priority \in [Edas -> Prios]
    /\ new_priority \in [Edas -> Prios \cup {None}]
    /\ rdy_list \in [Prios -> Seq(Edas)]
    /\ cur \in [Prios -> Edas \cup {None}]
    /\ evt \in [Prios -> Evts \cup {None}]
    /\ pending \in [Prios -> BOOLEAN]
    /\ swi_prio \in [Prios -> Prios]
    /\ active \in Seq(Prios)

\* What a queue dispatches to is linked in it, and the queue is being polled, once.
Polls ==
    /\ Once(active)
    /\ \A q \in Prios : cur[q] # None =>
          /\ is_ready[cur[q]] /\ cur_priority[cur[q]] = q
          /\ Linked(active, q)

\* A change of priority waits only while its EDA is dispatched to.
Deferrals == \A e \in Edas : new_priority[e] # None => cur[cur_priority[e]] = e

\* The inductive invariant.
KInv ==
    /\ KernelType /\ Lists(rdy_list, is_ready, cur_priority)
    /\ Polls /\ Deferrals
    /\ ReadyHasEvents /\ RaisedForHandler

LEMMA KInvInit == Init => KInv
<1> SUFFICES ASSUME Init PROVE KInv
  OBVIOUS
<1> USE EvtqAssumption
<1>1. KernelType
  BY EmptySeq DEF Init, KernelType
<1>2. \A q \in Prios : Once(rdy_list[q]) /\ \A e \in Edas : ~Linked(rdy_list[q], e) /\ ~is_ready[e]
  BY DEF Init, Once, Linked
<1>3. Lists(rdy_list, is_ready, cur_priority)
  BY <1>2 DEF Lists
<1>4. Polls /\ Deferrals
  BY DEF Init, Polls, Deferrals, Once
<1>5. ReadyHasEvents /\ RaisedForHandler
  BY DEF Init, ReadyHasEvents, RaisedForHandler
<1> QED BY <1>1, <1>3, <1>4, <1>5 DEF KInv

\* An event for an EDA, from wherever (vsf_evtq_list.c:163-203).
LEMMA PostInv ==
    ASSUME KInv, NEW e \in Edas, NEW v \in Evts, NEW force, Post(e, v, force)
    PROVE  KInv'
<1>1. UNCHANGED <<prios, polls, is_limitted>>
  BY DEF Post
<1>2. CASE UNCHANGED queues
  BY <1>1, <1>2 DEF KInv, KernelType, Lists, Polls, Deferrals, ReadyHasEvents,
     RaisedForHandler, IsCurrent, queues, prios, polls
<1>3. CASE Enqueue(e, v)
  <2> USE <1>3 DEF Enqueue
  <2>1. /\ evt_list \in [Edas -> Seq(Evts)] /\ is_ready \in [Edas -> BOOLEAN]
        /\ rdy_list \in [Prios -> Seq(Edas)] /\ cur_priority \in [Edas -> Prios]
        /\ pending \in [Prios -> BOOLEAN]
        /\ Lists(rdy_list, is_ready, cur_priority)
    BY DEF KInv, KernelType
  <2>2. evt_list' \in [Edas -> Seq(Evts)] /\ evt_list'[e] # <<>>
        /\ \A x \in Edas : evt_list[x] # <<>> => evt_list'[x] # <<>>
    <3>1. Append(evt_list[e], v) \in Seq(Evts) /\ Append(evt_list[e], v) # <<>>
      BY <2>1, AppendProperties
    <3> QED BY <2>1, <3>1
  <2>3. is_ready' \in [Edas -> BOOLEAN] /\ \A x \in Edas : is_ready'[x] <=> is_ready[x] \/ x = e
    BY <2>1
  <2>4. rdy_list' \in [Prios -> Seq(Edas)] /\ Lists(rdy_list', is_ready', cur_priority)
    <3>1. CASE is_ready[e]
      <4>1. rdy_list' = rdy_list /\ \A x \in Edas : is_ready'[x] <=> is_ready[x]
        BY <2>3, <3>1
      <4> QED BY <2>1, <4>1 DEF Lists
    <3>2. CASE ~is_ready[e]
      BY <2>1, <3>2, ListsEnqueued
    <3> QED BY <3>1, <3>2
  <2>5. KernelType'
    BY <1>1, <2>1, <2>2, <2>3, <2>4 DEF KInv, KernelType, prios, polls
  <2>6. Polls' /\ Deferrals' /\ RaisedForHandler'
    BY <1>1, <2>3 DEF KInv, KernelType, Polls, Deferrals, RaisedForHandler, prios, polls
  <2>7. ReadyHasEvents'
    BY <1>1, <2>2, <2>3 DEF KInv, ReadyHasEvents, IsCurrent, polls
  <2>8. Lists(rdy_list, is_ready, cur_priority)'
    BY <1>1, <2>4 DEF Lists, prios
  <2> QED BY <2>5, <2>6, <2>7, <2>8 DEF KInv
<1> QED BY <1>2, <1>3 DEF Post

\* A priority is changed, by a handler or by what the kernel does for one
\* (vsf_evtq_list.c:84-105).
LEMMA SetPriorityInv ==
    ASSUME KInv, NEW e \in Edas, NEW p \in Prios, SetPriority(e, p)
    PROVE  KInv'
<1> USE EvtqAssumption
<1>1. /\ UNCHANGED <<evt_list, is_ready, pending, cur, evt, active, is_limitted>>
      /\ KernelType /\ Lists(rdy_list, is_ready, cur_priority)
  BY DEF SetPriority, polls, KInv
<1>2. CASE cur_priority[e] = p
  <2>1. UNCHANGED <<rdy_list, cur_priority, new_priority, swi_prio>>
    BY <1>2 DEF SetPriority
  <2> QED BY <1>1, <2>1 DEF KInv, KernelType, Lists, Polls, Deferrals, ReadyHasEvents,
      RaisedForHandler, IsCurrent
<1>3. CASE cur_priority[e] # p /\ Deferred(e)
  <2>1. cur[cur_priority[e]] = e
    BY <1>3 DEF Deferred, KInv, Deferrals
  <2>2. /\ UNCHANGED <<rdy_list, cur_priority>>
        /\ new_priority' = [new_priority EXCEPT ![e] = p]
        /\ swi_prio' = IF p > cur_priority[e] THEN [swi_prio EXCEPT ![cur_priority[e]] = p]
                       ELSE swi_prio
    BY <1>3 DEF SetPriority
  <2>4. /\ new_priority' \in [Edas -> Prios \cup {None}] /\ new_priority'[e] # None
        /\ \A x \in Edas \ {e} : new_priority'[x] = new_priority[x]
    BY <1>1, <2>2 DEF KernelType
  <2>5. /\ swi_prio' \in [Prios -> Prios]
        /\ \A q \in Prios : q # cur_priority[e] => swi_prio'[q] = swi_prio[q]
    BY <1>1, <2>2 DEF KernelType
  <2>6. KernelType'
    BY <1>1, <2>2, <2>4, <2>5 DEF KernelType
  <2>7. Lists(rdy_list, is_ready, cur_priority)' /\ Polls' /\ ReadyHasEvents'
    BY <1>1, <2>2 DEF KInv, Lists, Polls, ReadyHasEvents, IsCurrent
  <2>8. Deferrals'
    BY <1>1, <2>1, <2>2, <2>4 DEF KInv, Deferrals
  <2>9. RaisedForHandler'
    <3> SUFFICES ASSUME NEW q \in Prios, swi_prio'[q] # q
                 PROVE  cur[q] # None /\ new_priority'[cur[q]] # None
      BY <1>1 DEF RaisedForHandler
    <3>1. CASE q = cur_priority[e] BY <2>1, <2>4, <3>1
    <3>2. CASE q # cur_priority[e]
      <4>1. cur[q] # None /\ new_priority[cur[q]] # None
        BY <2>5, <3>2 DEF KInv, RaisedForHandler
      <4>2. cur[q] \in Edas BY <1>1, <4>1 DEF KernelType
      <4> QED BY <2>4, <4>1, <4>2
    <3> QED BY <3>1, <3>2
  <2> QED BY <2>6, <2>7, <2>8, <2>9 DEF KInv
<1>4. CASE cur_priority[e] # p /\ ~Deferred(e)
  <2>1. /\ rdy_list' = Moved(rdy_list, e, p)
        /\ cur_priority' = [cur_priority EXCEPT ![e] = p]
        /\ UNCHANGED <<new_priority, swi_prio>>
    BY <1>4 DEF SetPriority
  <2>2. cur[cur_priority[e]] # e /\ new_priority[e] = None
    BY <1>4 DEF Deferred
  <2>3. ~IsCurrent(e)
    BY <1>1, <2>2 DEF KInv, Polls, IsCurrent
  <2>4. /\ cur_priority' \in [Edas -> Prios]
        /\ \A x \in Edas \ {e} : cur_priority'[x] = cur_priority[x]
    BY <1>1, <2>1 DEF KernelType
  <2>5. rdy_list' \in [Prios -> Seq(Edas)] /\ Lists(rdy_list', is_ready, cur_priority')
    <3>1. CASE is_ready[e]
      <4>1. rdy_list' = LET u == [rdy_list EXCEPT ![cur_priority[e]] = Unlink(@, e)]
                        IN  [u EXCEPT ![p] = Append(@, e)]
        BY <1>1, <2>1, <3>1 DEF Moved
      <4>2. /\ rdy_list \in [Prios -> Seq(Edas)] /\ is_ready \in [Edas -> BOOLEAN]
            /\ cur_priority \in [Edas -> Prios]
        BY <1>1 DEF KernelType
      <4> DEFINE u == [rdy_list EXCEPT ![cur_priority[e]] = Unlink(@, e)]
                 t == [u EXCEPT ![p] = Append(@, e)]
      <4>3. t \in [Prios -> Seq(Edas)] /\ Lists(t, is_ready, [cur_priority EXCEPT ![e] = p])
        BY <1>1, <3>1, <4>2, ListsMoved
      <4>4. rdy_list' = t BY <4>1
      <4> QED BY <2>1, <4>3, <4>4
    <3>2. CASE ~is_ready[e]
      <4>1. rdy_list' = rdy_list BY <1>1, <2>1, <3>2 DEF Moved
      <4>2. \A q \in Prios, x \in Edas :
                (is_ready[x] /\ cur_priority[x] = q) <=> (is_ready[x] /\ cur_priority'[x] = q)
        BY <2>4, <3>2
      <4> QED BY <1>1, <4>1, <4>2 DEF Lists, KernelType
    <3> QED BY <3>1, <3>2
  <2>6. KernelType'
    BY <1>1, <2>1, <2>4, <2>5 DEF KernelType
  <2>7. Polls'
    <3>1. Once(active)' BY <1>1 DEF KInv, Polls
    <3>2. ASSUME NEW q \in Prios, cur[q] # None
          PROVE  is_ready[cur[q]] /\ cur_priority'[cur[q]] = q /\ Linked(active, q)
      <4>1. cur[q] \in Edas \ {e} BY <1>1, <2>3, <3>2 DEF KernelType, IsCurrent
      <4> QED BY <2>4, <3>2, <4>1 DEF KInv, Polls
    <3> QED BY <1>1, <3>1, <3>2 DEF Polls
  <2>8. Deferrals'
    BY <1>1, <2>1, <2>2, <2>4 DEF KInv, Deferrals
  <2>9. ReadyHasEvents' /\ RaisedForHandler'
    BY <1>1, <2>1 DEF KInv, ReadyHasEvents, RaisedForHandler, IsCurrent
  <2>10. Lists(rdy_list, is_ready, cur_priority)'
    BY <1>1, <2>5 DEF Lists
  <2> QED BY <2>6, <2>7, <2>8, <2>9, <2>10 DEF KInv
<1> QED BY <1>2, <1>3, <1>4

\* A software interrupt is taken: its queue was not being polled.
LEMMA PreemptInv ==
    ASSUME KInv, NEW q \in Prios, Preempt(q)
    PROVE  KInv'
<1>1. /\ KernelType /\ pending' = [pending EXCEPT ![q] = FALSE] /\ active' = Append(active, q)
      /\ UNCHANGED <<evt_list, is_ready, rdy_list, prios, cur, evt, is_limitted>>
  BY DEF KInv, Preempt
<1>2. ~Linked(active, q)
  <2> SUFFICES ASSUME NEW i \in DOMAIN active, active[i] = q PROVE FALSE
    BY DEF Linked
  <2>1. swi_prio[q] > swi_prio[q] BY DEF Preempt
  <2>2. swi_prio[q] \in Int BY <1>1, EvtqAssumption DEF KernelType, Prios
  <2> QED BY <2>1, <2>2
<1>3. /\ active' \in Seq(Prios) /\ Once(active')
      /\ \A x : Linked(active, x) => Linked(active', x)
  BY <1>1, <1>2, Appended DEF KernelType, KInv, Polls
<1>4. KernelType'
  BY <1>1, <1>3 DEF KernelType, prios
<1>5. Polls'
  BY <1>1, <1>3 DEF KInv, Polls, prios
<1>6. Deferrals' /\ RaisedForHandler' /\ ReadyHasEvents' /\ Lists(rdy_list, is_ready, cur_priority)'
  BY <1>1 DEF KInv, Deferrals, RaisedForHandler, ReadyHasEvents, IsCurrent, Lists, prios
<1> QED BY <1>4, <1>5, <1>6 DEF KInv

\* The queue that is polled is the last of those that are.
LEMMA TopIsActive ==
    ASSUME active \in Seq(Prios), NEW q \in Prios, Top = q
    PROVE  Len(active) \in Nat \ {0} /\ active[Len(active)] = q /\ Linked(active, q)
<1>1. active # <<>> /\ active[Len(active)] = q
  BY EvtqAssumption DEF Top
<1>2. Len(active) \in Nat \ {0} /\ DOMAIN active = 1 .. Len(active)
  BY <1>1, EmptySeq, LenProperties
<1> QED BY <1>1, <1>2 DEF Linked

\* A poll that returns leaves the others as they were.
LEMMA Popped ==
    ASSUME NEW s \in Seq(Prios), Once(s), Len(s) \in Nat \ {0}
    PROVE  LET t == SubSeq(s, 1, Len(s) - 1) IN
           /\ t \in Seq(Prios) /\ Once(t)
           /\ \A x : Linked(s, x) /\ x # s[Len(s)] => Linked(t, x)
<1> DEFINE t == SubSeq(s, 1, Len(s) - 1)
<1>1. DOMAIN s = 1 .. Len(s) /\ \A i \in 1 .. Len(s) - 1 : s[i] \in Prios
  BY LenProperties, ElementOfSeq
<1>2. /\ t \in Seq(Prios) /\ Len(t) = IF 1 <= Len(s) - 1 THEN Len(s) - 1 - 1 + 1 ELSE 0
      /\ \A i \in 1 .. Len(s) - 1 - 1 + 1 : t[i] = s[1 + i - 1]
  BY <1>1, SubSeqProperties
<1> HIDE DEF t
<1>3. Len(t) = Len(s) - 1 /\ \A i \in 1 .. Len(s) - 1 : t[i] = s[i]
  <2>1. Len(t) = Len(s) - 1
    <3>1. Len(s) = 1 \/ Len(s) - 1 >= 1
      <4>1. \A m \in Nat \ {0} : m = 1 \/ m - 1 >= 1 OBVIOUS
      <4> QED BY <4>1, Zenon
    <3>2. CASE Len(s) = 1
      <4>1. ~(1 <= Len(s) - 1) /\ Len(s) - 1 = 0 BY <3>2
      <4> QED BY <1>2, <4>1
    <3>3. CASE Len(s) - 1 >= 1
      <4>1. 1 <= Len(s) - 1 /\ Len(s) - 1 - 1 + 1 = Len(s) - 1 BY <3>3
      <4> QED BY <1>2, <4>1
    <3> QED BY <3>1, <3>2, <3>3
  <2>2. ASSUME NEW i \in 1 .. Len(s) - 1 PROVE t[i] = s[i]
    <3>1. i \in 1 .. Len(s) - 1 - 1 + 1 /\ 1 + i - 1 = i OBVIOUS
    <3> QED BY <1>2, <3>1
  <2> QED BY <2>1, <2>2
<1>4. DOMAIN t = 1 .. Len(s) - 1
  BY <1>2, <1>3, LenProperties
<1>5. Once(t)
  BY <1>1, <1>3, <1>4 DEF Once
<1>6. ASSUME NEW x, Linked(s, x), x # s[Len(s)] PROVE Linked(t, x)
  <2>1. PICK i \in 1 .. Len(s) : s[i] = x BY <1>1, <1>6 DEF Linked
  <2>2. i \in 1 .. Len(s) - 1 BY <1>6, <2>1
  <2> QED BY <1>3, <1>4, <2>1, <2>2 DEF Linked
<1> QED BY <1>2, <1>5, <1>6 DEF t

\* An EDA that is ready and is not dispatched to has an event, which it gives.
LEMMA HeadTaken ==
    ASSUME KernelType, ReadyHasEvents, NEW x \in Edas, is_ready[x], ~IsCurrent(x)
    PROVE  Head(evt_list[x]) \in Evts /\ Tail(evt_list[x]) \in Seq(Evts)
<1>1. evt_list[x] \in Seq(Evts) /\ evt_list[x] # <<>>
  BY DEF KernelType, ReadyHasEvents
<1> QED BY <1>1, HeadTailProperties

\* The outer loop of vsf_evtq_poll() takes the first of its list, or returns.
LEMMA PollHeadInv ==
    ASSUME KInv, NEW q \in Prios, PollHead(q)
    PROVE  KInv'
<1>1. /\ KernelType /\ Lists(rdy_list, is_ready, cur_priority) /\ Polls
      /\ Top = q /\ cur[q] = None
      /\ UNCHANGED <<is_ready, rdy_list, pending, prios, is_limitted>>
  BY DEF KInv, PollHead
<1>2. Len(active) \in Nat \ {0} /\ active[Len(active)] = q /\ Linked(active, q)
  BY <1>1, TopIsActive DEF KernelType
<1>3. Lists(rdy_list, is_ready, cur_priority)'
  BY <1>1 DEF Lists, prios
<1>4. CASE rdy_list[q] = <<>>
  <2>1. active' = SubSeq(active, 1, Len(active) - 1) /\ UNCHANGED <<evt_list, cur, evt>>
    BY <1>4 DEF PollHead
  <2>2. /\ active' \in Seq(Prios) /\ Once(active')
        /\ \A x : Linked(active, x) /\ x # q => Linked(active', x)
    BY <1>1, <1>2, <2>1, Popped DEF KernelType, Polls
  <2>3. KernelType'
    BY <1>1, <2>1, <2>2 DEF KernelType, prios
  <2>4. Polls'
    BY <1>1, <2>1, <2>2 DEF Polls, prios
  <2>5. Deferrals' /\ ReadyHasEvents' /\ RaisedForHandler'
    BY <1>1, <2>1 DEF KInv, Deferrals, ReadyHasEvents, RaisedForHandler, IsCurrent, prios
  <2> QED BY <1>3, <2>3, <2>4, <2>5 DEF KInv
<1>5. CASE rdy_list[q] # <<>>
  <2> DEFINE e == Head(rdy_list[q])
  <2>1. Dispatch(q, e) /\ UNCHANGED active
    BY <1>5 DEF PollHead
  <2>2. e \in Edas /\ is_ready[e] /\ cur_priority[e] = q
    <3>1. rdy_list[q] \in Seq(Edas) BY <1>1 DEF KernelType
    <3>2. e \in Edas BY <1>5, <3>1, HeadTailProperties
    <3>3. 1 \in DOMAIN rdy_list[q] /\ rdy_list[q][1] = e
      BY <1>5, <3>1, EmptySeq, LenProperties
    <3> QED BY <1>1, <3>2, <3>3 DEF Lists, Linked
  <2>3. ~IsCurrent(e)
    <3> SUFFICES ASSUME NEW r \in Prios, cur[r] = e PROVE FALSE
      BY DEF IsCurrent
    <3>1. e # None BY <2>2, EvtqAssumption
    <3> QED BY <1>1, <2>2, <3>1 DEF Polls
  <2> HIDE DEF e
  <2>4. e # None BY <2>2, EvtqAssumption
  <2>5. /\ cur' = [cur EXCEPT ![q] = e] /\ evt' = [evt EXCEPT ![q] = Head(evt_list[e])]
        /\ evt_list' = [evt_list EXCEPT ![e] = Tail(@)]
    BY <2>1, <2>4 DEF Dispatch
  <2>6. Head(evt_list[e]) \in Evts /\ Tail(evt_list[e]) \in Seq(Evts)
    BY <1>1, <2>2, <2>3, HeadTaken DEF KInv
  <2>7. /\ cur'[q] = e /\ \A r \in Prios \ {q} : cur'[r] = cur[r]
        /\ \A x \in Edas \ {e} : evt_list'[x] = evt_list[x]
    BY <1>1, <2>2, <2>5 DEF KernelType
  <2>8. KernelType'
    BY <1>1, <2>1, <2>2, <2>5, <2>6 DEF KernelType, prios
  <2>9. Polls'
    BY <1>1, <1>2, <2>1, <2>2, <2>7 DEF Polls, prios
  <2>10. Deferrals'
    <3> SUFFICES ASSUME NEW x \in Edas, new_priority[x] # None
                 PROVE  cur'[cur_priority[x]] = x
      BY <1>1 DEF Deferrals, prios
    <3>1. cur[cur_priority[x]] = x /\ x # None /\ cur_priority[x] \in Prios
      BY <1>1, EvtqAssumption DEF KInv, Deferrals, KernelType
    <3> QED BY <1>1, <2>7, <3>1
  <2>11. ReadyHasEvents'
    <3> SUFFICES ASSUME NEW x \in Edas, is_ready[x]
                 PROVE  evt_list'[x] # <<>> \/ \E r \in Prios : cur'[r] = x
      BY <1>1 DEF ReadyHasEvents, IsCurrent
    <3>1. CASE x = e BY <2>7, <3>1
    <3>2. CASE x # e
      <4>1. evt_list[x] # <<>> \/ \E r \in Prios : cur[r] = x
        BY DEF KInv, ReadyHasEvents, IsCurrent
      <4>2. x # None BY EvtqAssumption
      <4> QED BY <1>1, <2>7, <3>2, <4>1, <4>2
    <3> QED BY <3>1, <3>2
  <2>12. RaisedForHandler'
    <3> SUFFICES ASSUME NEW r \in Prios, swi_prio[r] # r
                 PROVE  cur'[r] # None /\ new_priority[cur'[r]] # None
      BY <1>1 DEF RaisedForHandler, prios
    <3>1. cur[r] # None /\ new_priority[cur[r]] # None
      BY DEF KInv, RaisedForHandler
    <3> QED BY <1>1, <2>7, <3>1
  <2> QED BY <1>3, <2>8, <2>9, <2>10, <2>11, <2>12 DEF KInv
<1> QED BY <1>4, <1>5

\* The lists, priorities and the interrupt's priority when a handler has returned.
LEMMA SettleLists ==
    ASSUME KInv, NEW q \in Prios, HandlerDone(q), NEW e \in Edas, cur[q] = e
    PROVE  /\ is_ready' \in [Edas -> BOOLEAN] /\ rdy_list' \in [Prios -> Seq(Edas)]
           /\ cur_priority' \in [Edas -> Prios] /\ new_priority' \in [Edas -> Prios \cup {None}]
           /\ swi_prio' \in [Prios -> Prios]
           /\ Lists(rdy_list', is_ready', cur_priority')
           /\ is_ready'[e] <=> evt_list[e] # <<>>
           /\ new_priority'[e] = None
           /\ \A x \in Edas \ {e} : /\ is_ready'[x] = is_ready[x]
                                    /\ cur_priority'[x] = cur_priority[x]
                                    /\ new_priority'[x] = new_priority[x]
           /\ \A r \in Prios \ {q} : swi_prio'[r] = swi_prio[r]
           /\ swi_prio'[q] = q
<1> DEFINE more  == evt_list[e] # <<>>
           ready == [is_ready EXCEPT ![e] = more]
           lists == Requeued(q, e)
<1>0. e # None BY EvtqAssumption
<1>1. /\ KernelType /\ Lists(rdy_list, is_ready, cur_priority)
      /\ is_ready[e] /\ cur_priority[e] = q
  BY <1>0 DEF KInv, Polls
<1>2. /\ rdy_list \in [Prios -> Seq(Edas)] /\ is_ready \in [Edas -> BOOLEAN]
      /\ cur_priority \in [Edas -> Prios] /\ new_priority \in [Edas -> Prios \cup {None}]
      /\ swi_prio \in [Prios -> Prios] /\ more \in BOOLEAN
  BY <1>1 DEF KernelType
<1>3. is_ready' = ready /\ Settle(q, e, lists)
  BY DEF HandlerDone
<1>4. /\ lists \in [Prios -> Seq(Edas)] /\ Lists(lists, ready, cur_priority)
  <2> DEFINE rest == Unlink(rdy_list[cur_priority[e]], e)
             t    == [rdy_list EXCEPT ![cur_priority[e]] = IF more THEN Append(rest, e) ELSE rest]
  <2>1. t \in [Prios -> Seq(Edas)] /\ Lists(t, ready, cur_priority)
    BY <1>1, <1>2, ListsRequeued
  <2>2. lists = t
    BY <1>1 DEF Requeued
  <2> QED BY <2>1, <2>2
<1>5. /\ ready \in [Edas -> BOOLEAN] /\ (ready[e] <=> more)
      /\ \A x \in Edas \ {e} : ready[x] = is_ready[x]
  BY <1>2
<1> HIDE DEF lists, ready, more
<1>6. CASE new_priority[e] = None
  <2>1. rdy_list' = lists /\ UNCHANGED <<cur_priority, new_priority, swi_prio>>
    BY <1>3, <1>6 DEF Settle, prios
  <2>2. swi_prio[q] = q
    BY <1>6 DEF KInv, RaisedForHandler
  <2> QED BY <1>2, <1>3, <1>4, <1>5, <1>6, <2>1, <2>2 DEF more
<1>7. CASE new_priority[e] # None
  <2> DEFINE p == new_priority[e]
             d == [cur_priority EXCEPT ![e] = p]
  <2>0. p \in Prios BY <1>2, <1>7
  <2> HIDE DEF p
  <2>1. /\ rdy_list' = Moved(lists, e, p) /\ cur_priority' = d
        /\ new_priority' = [new_priority EXCEPT ![e] = None]
        /\ swi_prio' = [swi_prio EXCEPT ![q] = q]
    BY <1>3, <1>7 DEF Settle, p
  <2>2. d \in [Edas -> Prios] /\ d[e] = p /\ \A x \in Edas \ {e} : d[x] = cur_priority[x]
    BY <1>2, <2>0
  <2> HIDE DEF d
  <2>3. rdy_list' \in [Prios -> Seq(Edas)] /\ Lists(rdy_list', ready, d)
    <3>1. CASE ready[e]
      <4> DEFINE u == [lists EXCEPT ![cur_priority[e]] = Unlink(@, e)]
                 t == [u EXCEPT ![p] = Append(@, e)]
      <4>1. t \in [Prios -> Seq(Edas)] /\ Lists(t, ready, [cur_priority EXCEPT ![e] = p])
        BY <1>2, <1>4, <1>5, <2>0, <3>1, ListsMoved
      <4>2. rdy_list' = t BY <1>3, <2>1, <3>1 DEF Moved
      <4> QED BY <4>1, <4>2 DEF d
    <3>2. CASE ~ready[e]
      <4>1. rdy_list' = lists BY <1>3, <2>1, <3>2 DEF Moved
      <4>2. \A r \in Prios, x \in Edas :
                (ready[x] /\ cur_priority[x] = r) <=> (ready[x] /\ d[x] = r)
        BY <2>2, <3>2
      <4> QED BY <1>4, <4>1, <4>2 DEF Lists
    <3> QED BY <3>1, <3>2
  <2>4. /\ new_priority' \in [Edas -> Prios \cup {None}] /\ new_priority'[e] = None
        /\ \A x \in Edas \ {e} : new_priority'[x] = new_priority[x]
    BY <1>2, <2>1
  <2>5. /\ swi_prio' \in [Prios -> Prios] /\ swi_prio'[q] = q
        /\ \A r \in Prios \ {q} : swi_prio'[r] = swi_prio[r]
    BY <1>2, <2>1
  <2> QED BY <1>3, <1>5, <2>1, <2>2, <2>3, <2>4, <2>5 DEF more
<1> QED BY <1>6, <1>7

\* A handler returns, and the inner loop goes on to the next EDA of the list it
\* was in before it was removed, requeued and moved (vsf_evtq_list.c:281-311).
LEMMA HandlerDoneInv ==
    ASSUME KInv, NEW q \in Prios, HandlerDone(q)
    PROVE  KInv'
<1> DEFINE e == cur[q]
           n == NextOf(rdy_list[q], e)
<1>1. /\ KernelType /\ Lists(rdy_list, is_ready, cur_priority) /\ Polls
      /\ e # None /\ e \in Edas
      /\ Dispatch(q, n) /\ UNCHANGED <<pending, active, is_limitted>>
  BY DEF KInv, HandlerDone, KernelType
<1>2. is_ready[e] /\ cur_priority[e] = q /\ Linked(active, q)
  BY <1>1 DEF Polls
<1>3. /\ rdy_list[q] \in Seq(Edas) /\ Once(rdy_list[q]) /\ Linked(rdy_list[q], e)
  BY <1>1, <1>2 DEF KernelType, Lists
<1>4. n # None => n \in Edas \ {e} /\ Linked(rdy_list[q], n)
  BY <1>3, NextLinked
<1>5. cur[q] = e OBVIOUS
<1> HIDE DEF n, e
<1>6. n # None => n \in Edas \ {e} /\ is_ready[n] /\ cur_priority[n] = q
  BY <1>1, <1>4 DEF Lists
<1>7. n # None => ~IsCurrent(n)
  BY <1>1, <1>5, <1>6 DEF Polls, IsCurrent
<1>8. /\ is_ready' \in [Edas -> BOOLEAN] /\ rdy_list' \in [Prios -> Seq(Edas)]
      /\ cur_priority' \in [Edas -> Prios] /\ new_priority' \in [Edas -> Prios \cup {None}]
      /\ swi_prio' \in [Prios -> Prios]
      /\ Lists(rdy_list', is_ready', cur_priority')
      /\ is_ready'[e] <=> evt_list[e] # <<>>
      /\ new_priority'[e] = None
      /\ \A x \in Edas \ {e} : /\ is_ready'[x] = is_ready[x]
                               /\ cur_priority'[x] = cur_priority[x]
                               /\ new_priority'[x] = new_priority[x]
      /\ \A r \in Prios \ {q} : swi_prio'[r] = swi_prio[r]
      /\ swi_prio'[q] = q
  BY <1>1, <1>5, SettleLists
<1>9. /\ cur' \in [Prios -> Edas \cup {None}] /\ cur'[q] = n
      /\ \A r \in Prios \ {q} : cur'[r] = cur[r]
  BY <1>1, <1>6 DEF Dispatch, KernelType
<1>10. /\ evt' \in [Prios -> Evts \cup {None}] /\ evt_list' \in [Edas -> Seq(Evts)]
       /\ \A x \in Edas : x # n => evt_list'[x] = evt_list[x]
  <2>1. CASE n = None
    BY <1>1, <2>1 DEF Dispatch, KernelType
  <2>2. CASE n # None
    <3>1. Head(evt_list[n]) \in Evts /\ Tail(evt_list[n]) \in Seq(Evts)
      BY <1>1, <1>6, <1>7, <2>2, HeadTaken DEF KInv
    <3> QED BY <1>1, <2>2, <3>1 DEF Dispatch, KernelType
  <2> QED BY <2>1, <2>2
<1>11. KernelType'
  BY <1>1, <1>8, <1>9, <1>10 DEF KernelType
<1>12. \A r \in Prios \ {q} : cur[r] # None => cur[r] \in Edas \ {e}
  BY <1>1, <1>2 DEF Polls, KernelType
<1>13. Polls'
  <2> SUFFICES ASSUME NEW r \in Prios, cur'[r] # None
               PROVE  is_ready'[cur'[r]] /\ cur_priority'[cur'[r]] = r /\ Linked(active', r)
    BY <1>1 DEF Polls
  <2>1. CASE r = q BY <1>1, <1>2, <1>6, <1>8, <1>9, <2>1
  <2>2. CASE r # q
    <3>1. cur'[r] = cur[r] /\ cur[r] # None /\ cur[r] \in Edas \ {e} BY <1>9, <1>12, <2>2
    <3>2. is_ready[cur[r]] /\ cur_priority[cur[r]] = r /\ Linked(active, r)
      BY <1>1, <3>1 DEF Polls
    <3> QED BY <1>1, <1>8, <3>1, <3>2
  <2> QED BY <2>1, <2>2
<1>14. Deferrals'
  <2> SUFFICES ASSUME NEW x \in Edas, new_priority'[x] # None
               PROVE  cur'[cur_priority'[x]] = x
    BY DEF Deferrals
  <2>1. x # e /\ new_priority[x] # None /\ cur_priority'[x] = cur_priority[x] BY <1>8
  <2>2. cur[cur_priority[x]] = x /\ cur_priority[x] \in Prios
    BY <1>1, <2>1 DEF KInv, Deferrals, KernelType
  <2>3. cur_priority[x] # q BY <1>5, <2>1, <2>2
  <2> QED BY <1>9, <2>1, <2>2, <2>3
<1>15. ReadyHasEvents'
  <2> SUFFICES ASSUME NEW x \in Edas, is_ready'[x]
               PROVE  evt_list'[x] # <<>> \/ \E r \in Prios : cur'[r] = x
    BY DEF ReadyHasEvents, IsCurrent
  <2>1. CASE x = n BY <1>9, <2>1
  <2>2. CASE x = e /\ x # n BY <1>8, <1>10, <2>2
  <2>3. CASE x # e /\ x # n
    <3>1. is_ready[x] /\ evt_list'[x] = evt_list[x] BY <1>8, <1>10, <2>3
    <3>2. evt_list[x] # <<>> \/ \E r \in Prios : cur[r] = x
      BY <3>1 DEF KInv, ReadyHasEvents, IsCurrent
    <3> QED BY <1>5, <1>9, <2>3, <3>1, <3>2
  <2> QED BY <2>1, <2>2, <2>3
<1>16. RaisedForHandler'
  <2> SUFFICES ASSUME NEW r \in Prios, swi_prio'[r] # r
               PROVE  cur'[r] # None /\ new_priority'[cur'[r]] # None
    BY DEF RaisedForHandler
  <2>1. r # q /\ swi_prio[r] # r BY <1>8
  <2>2. cur[r] # None /\ new_priority[cur[r]] # None
    BY <2>1 DEF KInv, RaisedForHandler
  <2>3. cur[r] \in Edas \ {e} BY <1>12, <2>1, <2>2
  <2> QED BY <1>8, <1>9, <2>1, <2>2, <2>3
<1>17. Lists(rdy_list, is_ready, cur_priority)'
  BY <1>8 DEF Lists
<1> QED BY <1>11, <1>13, <1>14, <1>15, <1>16, <1>17 DEF KInv

(* ------------------------------ theorems ------------------------------ *)

\* The inductive invariant: the kernel's part, and the bounds.
IInv == KInv /\ posts \in 0 .. MaxPosts /\ sets \in 0 .. MaxSets

\* A poll goes on to an EDA that has an event and that no queue dispatches to.
LEMMA Dispatched ==
    ASSUME KInv, NEW q \in Prios, PollHead(q) \/ HandlerDone(q)
    PROVE  \/ UNCHANGED <<evt_list, cur, evt>>
           \/ \E n \in Edas \cup {None} :
                 Dispatch(q, n) /\ (n # None => evt_list[n] # <<>> /\ ~IsCurrent(n))
<1> USE EvtqAssumption
<1>1. KernelType /\ Lists(rdy_list, is_ready, cur_priority) /\ Polls /\ ReadyHasEvents
  BY DEF KInv
<1>2. rdy_list[q] \in Seq(Edas) /\ Once(rdy_list[q])
  BY <1>1 DEF KernelType, Lists
<1>3. ASSUME NEW n \in Edas, Linked(rdy_list[q], n), cur[q] # n
      PROVE  evt_list[n] # <<>> /\ ~IsCurrent(n)
  <2>1. is_ready[n] /\ cur_priority[n] = q BY <1>1, <1>3 DEF Lists
  <2>2. ~IsCurrent(n) BY <1>1, <1>3, <2>1 DEF Polls, IsCurrent
  <2> QED BY <1>1, <2>1, <2>2 DEF ReadyHasEvents
<1>4. CASE PollHead(q)
  <2>1. CASE rdy_list[q] = <<>> BY <1>4, <2>1 DEF PollHead
  <2>2. CASE rdy_list[q] # <<>>
    <3>1. Dispatch(q, Head(rdy_list[q])) /\ cur[q] = None BY <1>4, <2>2 DEF PollHead
    <3>2. Head(rdy_list[q]) \in Edas /\ Linked(rdy_list[q], Head(rdy_list[q]))
      <4>1. Head(rdy_list[q]) \in Edas BY <1>2, <2>2, HeadTailProperties
      <4>2. 1 \in DOMAIN rdy_list[q] /\ rdy_list[q][1] = Head(rdy_list[q])
        BY <1>2, <2>2, EmptySeq, LenProperties
      <4> QED BY <4>1, <4>2 DEF Linked
    <3> QED BY <1>3, <3>1, <3>2
  <2> QED BY <2>1, <2>2
<1>5. CASE HandlerDone(q)
  <2> DEFINE n == NextOf(rdy_list[q], cur[q])
  <2>1. Dispatch(q, n) /\ cur[q] # None BY <1>5 DEF HandlerDone
  <2>2. cur[q] \in Edas /\ Linked(rdy_list[q], cur[q])
    BY <1>1, <2>1 DEF KernelType, Polls, Lists
  <2>3. n # None => n \in Edas /\ Linked(rdy_list[q], n) /\ n # cur[q]
    BY <1>2, <2>2, NextLinked
  <2> QED BY <1>3, <2>1, <2>3
<1> QED BY <1>4, <1>5

\* A handler that limits its EDA to one event changes nothing else.
LEMMA LimitInv ==
    ASSUME KInv, is_limitted' \in [Edas -> BOOLEAN], UNCHANGED <<queues, prios, polls>>
    PROVE  KInv'
  BY DEF KInv, KernelType, Lists, Polls, Deferrals, ReadyHasEvents, RaisedForHandler,
     IsCurrent, queues, prios, polls

LEMMA StutterInv ==
    ASSUME KInv, UNCHANGED kernel
    PROVE  KInv'
  BY LimitInv DEF kernel, KInv, KernelType

LEMMA IInvNext == IInv /\ [Next]_vars => IInv'
<1> SUFFICES ASSUME IInv, [Next]_vars PROVE IInv'
  OBVIOUS
<1> USE EvtqAssumption DEF IInv
<1>1. CASE SomePost
  <2>1. KInv' BY <1>1, PostInv DEF SomePost
  <2> QED BY <1>1, <2>1 DEF SomePost, CountPost
<1>2. CASE SomeSetPriority
  <2>1. KInv' BY <1>2, SetPriorityInv DEF SomeSetPriority
  <2> QED BY <1>2, <2>1 DEF SomeSetPriority
<1>3. CASE SomeLimit
  <2>1. is_limitted' \in [Edas -> BOOLEAN] /\ UNCHANGED <<queues, prios, polls, posts, sets>>
    BY <1>3 DEF SomeLimit, KInv, KernelType
  <2> QED BY <2>1, LimitInv
<1>4. CASE CpuStep
  <2>1. KInv' BY <1>4, PreemptInv, PollHeadInv, HandlerDoneInv DEF CpuStep
  <2> QED BY <1>4, <2>1 DEF CpuStep
<1>5. CASE UNCHANGED vars
  BY <1>5, StutterInv DEF vars
<1> QED BY <1>1, <1>2, <1>3, <1>4, <1>5 DEF Next

THEOREM Invariance == Spec => []IInv
<1>1. Init => IInv
  BY KInvInit, EvtqAssumption DEF IInv, Init
<1> QED BY <1>1, IInvNext, PTL DEF Spec

\* The kernel's state stays in its types: above all no event is taken from an EDA
\* that has none, and no priority is set that was not waited for.
THEOREM TypeCorrect == Spec => []TypeOK
<1>1. IInv => TypeOK
  BY DEF IInv, KInv, KernelType, TypeOK
<1> QED BY <1>1, Invariance, PTL

LEMMA KInvLinked == KInv => ReadyIsLinked
<1> SUFFICES ASSUME KInv, NEW e \in Edas, NEW q \in Prios
             PROVE  Cardinality({i \in DOMAIN rdy_list[q] : rdy_list[q][i] = e})
                        = IF is_ready[e] /\ cur_priority[e] = q THEN 1 ELSE 0
  BY DEF ReadyIsLinked
<1>1. Once(rdy_list[q]) /\ (Linked(rdy_list[q], e) <=> is_ready[e] /\ cur_priority[e] = q)
  BY DEF KInv, Lists
<1> QED BY <1>1, LinksOnce

\* No sequence of posts, polls, preemptions and changes of priority ever tears a
\* ready list: an EDA that is ready is in the list of its priority, once.
THEOREM ReadyIsLinkedAlways == Spec => []ReadyIsLinked
<1>1. IInv => ReadyIsLinked
  BY KInvLinked DEF IInv
<1> QED BY <1>1, Invariance, PTL

\* An EDA in a queue has an event, or is the one that is being dispatched to.
THEOREM ReadyHasEventsAlways == Spec => []ReadyHasEvents
<1>1. IInv => ReadyHasEvents
  BY DEF IInv, KInv
<1> QED BY <1>1, Invariance, PTL

\* No handler is entered again before it has returned, whatever happens to the
\* priority of its EDA.
THEOREM NoReentryAlways == Spec => []NoReentry
<1>1. IInv => NoReentry
  BY DEF IInv, KInv, Polls, NoReentry, Linked
<1> QED BY <1>1, Invariance, PTL

\* A software interrupt keeps a raised priority no longer than the handler it was
\* raised for.
THEOREM RaisedForHandlerAlways == Spec => []RaisedForHandler
<1>1. IInv => RaisedForHandler
  BY DEF IInv, KInv
<1> QED BY <1>1, Invariance, PTL
=============================================================================
