--------------------------- MODULE EdaMutexProofs ---------------------------
(* The mutex on the event queues, for any number of EDAs and priorities: who  *)
(* is in it owns it, VSF_EVT_SYNC is for the owner that waits, and, while     *)
(* there are event nodes, no waiter is forgotten.                             *)
EXTENDS EdaMutex, EvtqListProofs, WellFoundedInduction

(* ----------------------------- waiters -------------------------------- *)

\* A set of numbers has a least one.
LEMMA LeastIn ==
    ASSUME NEW T, T \subseteq Nat, T # {}
    PROVE  Min(T) \in T
<1>1. \E x \in T : \A y \in T : ~(<<y, x>> \in OpToRel(<, Nat))
  BY NatLessThanWellFounded, WFMin
<1>2. ASSUME NEW x \in Nat, NEW y \in Nat, y < x PROVE <<y, x>> \in OpToRel(<, Nat)
  BY <1>2 DEF OpToRel
<1>3. PICK x \in T : \A y \in T : ~(y < x)
  BY <1>1, <1>2
<1>4. \A y \in T : x <= y
  BY <1>3
<1> QED BY <1>4 DEF Min

\* A waiter is put into the list where its priority has it, and nobody else moves.
LEMMA WaiterInserted ==
    ASSUME NEW s \in Seq(Edas), Once(s), NEW e \in Edas, ~Linked(s, e)
    PROVE  LET t == Inserted(s, e) IN
           /\ t \in Seq(Edas) /\ Once(t) /\ t # <<>>
           /\ \A x : Linked(t, x) <=> Linked(s, x) \/ x = e
<1> DEFINE lower == {i \in DOMAIN s : cur_priority[s[i]] < ActualPriority(e)}
           k == IF lower = {} THEN Len(s) + 1 ELSE Min(lower)
           a == SubSeq(s, 1, k - 1)
           b == SubSeq(s, k, Len(s))
           t == Inserted(s, e)
<1>1. Len(s) \in Nat /\ DOMAIN s = 1 .. Len(s) /\ \A i \in DOMAIN s : s[i] \in Edas
  BY LenProperties, ElementOfSeq
<1>2. k \in 1 .. Len(s) + 1
  <2>1. lower \subseteq 1 .. Len(s) BY <1>1
  <2>2. CASE lower = {}
    <3>1. Len(s) + 1 \in 1 .. Len(s) + 1 BY <1>1
    <3> QED BY <2>2, <3>1
  <2>3. CASE lower # {}
    <3>1. lower \subseteq Nat BY <1>1, <2>1
    <3>2. Min(lower) \in lower BY <2>3, <3>1, LeastIn
    <3>3. Min(lower) \in 1 .. Len(s) + 1 BY <1>1, <2>1, <3>2
    <3> QED BY <2>3, <3>3
  <2> QED BY <2>2, <2>3
<1>3. t = a \o <<e>> \o b
  BY DEF Inserted
<1> HIDE DEF k, t
<1>4. a \in Seq(Edas) /\ Len(a) = k - 1 /\ \A i \in 1 .. k - 1 : a[i] = s[i]
  <2>1. \A i \in 1 .. k - 1 : s[i] \in Edas BY <1>1, <1>2
  <2> QED BY <1>2, <2>1, SubSeqProperties
<1>5. /\ b \in Seq(Edas) /\ Len(b) = Len(s) + 1 - k
      /\ \A i \in 1 .. Len(s) + 1 - k : b[i] = s[k - 1 + i]
  <2>1. \A i \in k .. Len(s) : s[i] \in Edas BY <1>1, <1>2
  <2>2. /\ b \in Seq(Edas) /\ Len(b) = IF k <= Len(s) THEN Len(s) - k + 1 ELSE 0
        /\ \A i \in 1 .. Len(s) - k + 1 : b[i] = s[k + i - 1]
    BY <1>1, <1>2, <2>1, SubSeqProperties
  <2> HIDE DEF b
  <2>3. ASSUME NEW i \in 1 .. Len(s) + 1 - k PROVE b[i] = s[k - 1 + i]
    <3>1. i \in 1 .. Len(s) - k + 1 /\ k + i - 1 = k - 1 + i BY <1>1, <1>2
    <3> QED BY <2>2, <3>1
  <2>4. \A n \in Nat : \A m \in 1 .. n + 1 : (IF m <= n THEN n - m + 1 ELSE 0) = n + 1 - m
    OBVIOUS
  <2>5. (IF k <= Len(s) THEN Len(s) - k + 1 ELSE 0) = Len(s) + 1 - k
    BY <1>1, <1>2, <2>4, Zenon
  <2> QED BY <2>2, <2>3, <2>5
<1> HIDE DEF a, b, lower
<1> DEFINE c == Append(a, e)
<1>6. /\ c \in Seq(Edas) /\ Len(c) = k /\ c[k] = e
      /\ \A i \in 1 .. k - 1 : c[i] = s[i]
  <2>1. /\ c \in Seq(Edas) /\ Len(c) = Len(a) + 1 /\ c[Len(a) + 1] = e
        /\ \A i \in 1 .. Len(a) : c[i] = a[i]
    BY <1>4, AppendProperties
  <2>2. Len(a) + 1 = k BY <1>2, <1>4
  <2> QED BY <1>4, <2>1, <2>2
<1>7. a \o <<e>> = c
  BY <1>4, AppendIsConcat
<1> HIDE DEF c
<1>8. /\ t \in Seq(Edas) /\ Len(t) = Len(s) + 1
      /\ \A i \in 1 .. Len(s) + 1 : t[i] = IF i < k THEN s[i] ELSE IF i = k THEN e ELSE s[i - 1]
  <2>1. /\ t \in Seq(Edas) /\ Len(t) = Len(c) + Len(b)
        /\ \A i \in 1 .. Len(c) + Len(b) : t[i] = IF i <= Len(c) THEN c[i] ELSE b[i - Len(c)]
    <3>1. t = c \o b BY <1>3, <1>7, Zenon
    <3> QED BY <1>5, <1>6, <3>1, ConcatProperties
  <2>2. Len(c) + Len(b) = Len(s) + 1 BY <1>1, <1>2, <1>5, <1>6
  <2>3. ASSUME NEW i \in 1 .. Len(s) + 1
        PROVE  t[i] = IF i < k THEN s[i] ELSE IF i = k THEN e ELSE s[i - 1]
    <3>1. CASE i < k
      <4>1. i \in 1 .. k - 1 /\ i <= Len(c) BY <1>2, <1>6, <3>1
      <4> QED BY <1>6, <2>1, <2>2, <3>1, <4>1
    <3>2. CASE i = k
      <4>1. i <= Len(c) /\ ~(i < k) BY <1>2, <1>6, <3>2
      <4> QED BY <1>6, <2>1, <2>2, <3>2, <4>1
    <3>3. CASE i > k
      <4>1. ~(i <= k) /\ ~(i < k) /\ i # k BY <1>2, <3>3
      <4>2. t[i] = b[i - k] BY <1>6, <2>1, <2>2, <4>1
      <4>3. i - k \in 1 .. Len(s) + 1 - k /\ k - 1 + (i - k) = i - 1 BY <1>1, <1>2, <3>3
      <4>4. b[i - k] = s[i - 1] BY <1>5, <4>3
      <4> QED BY <4>1, <4>2, <4>4
    <3> QED BY <1>2, <3>1, <3>2, <3>3
  <2> QED BY <2>1, <2>2, <2>3
<1>9. DOMAIN t = 1 .. Len(s) + 1
  BY <1>8, LenProperties
<1>10. \A i \in 1 .. Len(s) : s[i] # e
  BY <1>1 DEF Linked
<1> DEFINE old(i) == IF i < k THEN i ELSE i - 1
<1>11. \A i \in 1 .. Len(s) + 1 : i # k => old(i) \in 1 .. Len(s) /\ t[i] = s[old(i)] /\ t[i] # e
  <2> TAKE i \in 1 .. Len(s) + 1
  <2> HAVE i # k
  <2>1. old(i) \in 1 .. Len(s) BY <1>1, <1>2
  <2>2. t[i] = s[old(i)] BY <1>2, <1>8
  <2> QED BY <1>10, <2>1, <2>2
<1>12. t[k] = e
  BY <1>2, <1>8
<1>13. Once(t)
  <2> SUFFICES ASSUME NEW i \in 1 .. Len(s) + 1, NEW j \in 1 .. Len(s) + 1, t[i] = t[j]
               PROVE  i = j
    BY <1>9 DEF Once
  <2>1. i = k <=> j = k BY <1>11, <1>12
  <2>2. CASE i # k
    <3>1. old(i) \in DOMAIN s /\ old(j) \in DOMAIN s /\ s[old(i)] = s[old(j)]
      BY <1>1, <1>11, <2>1, <2>2
    <3>2. old(i) = old(j) BY <3>1 DEF Once
    <3> QED BY <1>2, <2>1, <2>2, <3>2
  <2> QED BY <2>1, <2>2
<1>14. ASSUME NEW x PROVE Linked(t, x) <=> Linked(s, x) \/ x = e
  <2>1. ASSUME Linked(t, x), x # e PROVE Linked(s, x)
    <3>1. PICK i \in 1 .. Len(s) + 1 : t[i] = x BY <1>9, <2>1 DEF Linked
    <3>2. i # k BY <1>12, <2>1, <3>1
    <3> QED BY <1>1, <1>11, <3>1, <3>2 DEF Linked
  <2>2. Linked(t, e) BY <1>2, <1>9, <1>12 DEF Linked
  <2>3. ASSUME Linked(s, x) PROVE Linked(t, x)
    <3>1. PICK i \in 1 .. Len(s) : s[i] = x BY <1>1, <2>3 DEF Linked
    <3>2. CASE i < k
      <4>1. i \in 1 .. Len(s) + 1 BY <1>1
      <4> QED BY <1>8, <1>9, <3>1, <3>2, <4>1 DEF Linked
    <3>3. CASE ~(i < k)
      <4>1. /\ i + 1 \in 1 .. Len(s) + 1 /\ ~(i + 1 < k) /\ i + 1 # k /\ (i + 1) - 1 = i
        BY <1>1, <1>2, <3>3
      <4>2. t[i + 1] = s[i] BY <1>8, <4>1
      <4> QED BY <1>9, <3>1, <4>1, <4>2 DEF Linked
    <3> QED BY <3>2, <3>3
  <2> QED BY <2>1, <2>2, <2>3
<1>15. t # <<>>
  BY <1>2, <1>9
<1> QED BY <1>8, <1>13, <1>14, <1>15 DEF t

(* ----------------------------- invariant ------------------------------ *)

\* The types of the mutex's part of the state.
MutexType ==
    /\ eda_owner \in Edas \cup {None}
    /\ pending_list \in Seq(Edas)
    /\ st \in [Edas -> {"idle", "waiting", "owns", "leaving"}]
    /\ wakes \in [Edas -> Edas \cup {None}]

\* Where the VSF_EVT_SYNC of an EDA can be: among its events, in the hand of its
\* handler, or still to be posted by an EDA that leaves.
Listed(lists, e) == Linked(lists[e], "SYNC")
InHand(c, v, e)  == \E q \in Prios : c[q] = e /\ v[q] = "SYNC"
Owed(w, e)       == \E x \in Edas : w[x] = e

\* Who is in the list waits, and the owner waits for its event or is in the mutex.
Waiters ==
    /\ Once(pending_list)
    /\ \A e \in Edas : Linked(pending_list, e) => st[e] = "waiting" /\ eda_owner # e
    /\ eda_owner # None => st[eda_owner] \in {"waiting", "owns"}

\* A VSF_EVT_SYNC is for the owner, which waits for it, and there is one.
Woken ==
    \A e \in Edas :
        /\ Listed(evt_list, e) \/ InHand(cur, evt, e) \/ Owed(wakes, e)
              => st[e] = "waiting" /\ eda_owner = e
        /\ AtMostOnce(evt_list[e], "SYNC")
        /\ ~(Listed(evt_list, e) /\ InHand(cur, evt, e))
        /\ Owed(wakes, e) => ~Listed(evt_list, e) /\ ~InHand(cur, evt, e)

\* Only an EDA that leaves owes an event, and no other owes the same.
Leavers ==
    \A x \in Edas : wakes[x] # None =>
        /\ st[x] = "leaving"
        /\ \A y \in Edas : wakes[y] = wakes[x] => y = x

\* The inductive invariant.
MInv == KInv /\ MutexType /\ OneOwner /\ Waiters /\ Woken /\ Leavers

LEMMA MInvInit == MutexInit => MInv /\ NoWaiterForgotten
<1> SUFFICES ASSUME MutexInit PROVE MInv /\ NoWaiterForgotten
  OBVIOUS
<1> USE EvtqAssumption
<1>1. KInv
  BY KInvInit DEF MutexInit
<1>2. MutexType /\ OneOwner /\ Leavers /\ NoWaiterForgotten
  BY EmptySeq DEF MutexInit, MutexType, OneOwner, Leavers, NoWaiterForgotten
<1>3. Waiters
  BY DEF MutexInit, Waiters, Once, Linked
<1>4. Woken
  BY DEF MutexInit, Init, Woken, Listed, InHand, Owed, Linked, AtMostOnce
<1> QED BY <1>1, <1>2, <1>3, <1>4 DEF MInv

\* An EDA enters a mutex that is free (vsf_eda_sync.c:257-270).
LEMMA EnterAtOnceInv ==
    ASSUME MInv, NEW e \in Edas, EnterAtOnce(e)
    PROVE  MInv' /\ (NoWaiterForgotten => NoWaiterForgotten')
<1> USE EvtqAssumption
<1>1. /\ MutexType /\ OneOwner /\ Waiters /\ Woken /\ Leavers
      /\ st[e] = "idle" /\ cur_value > 0 /\ pending_list = <<>>
      /\ cur_value' = cur_value - 1 /\ eda_owner' = e
      /\ st' = [st EXCEPT ![e] = "owns"]
      /\ UNCHANGED <<kernel, pending_list, wakes>>
  BY DEF MInv, EnterAtOnce, Free
<1>2. KInv' /\ UNCHANGED <<evt_list, cur, evt>>
  BY <1>1, StutterInv DEF MInv, kernel, queues, polls
<1>3. eda_owner = None /\ cur_value = 1
  BY <1>1 DEF OneOwner
<1>4. st'[e] = "owns" /\ \A x \in Edas \ {e} : st'[x] = st[x]
  BY <1>1 DEF MutexType
<1>5. MutexType'
  BY <1>1 DEF MutexType
<1>6. OneOwner'
  BY <1>1, <1>3, <1>4, <1>5 DEF OneOwner
<1>7. \A x : ~Linked(pending_list, x)
  BY <1>1 DEF Linked
<1>8. Waiters'
  BY <1>1, <1>4, <1>7 DEF Waiters
<1>9. \A x \in Edas : ~Listed(evt_list, x) /\ ~InHand(cur, evt, x) /\ ~Owed(wakes, x)
  BY <1>1, <1>3 DEF Woken
<1>10. Woken'
  BY <1>1, <1>2, <1>9 DEF Woken
<1>11. Leavers'
  BY <1>1, <1>4 DEF Leavers
<1>12. NoWaiterForgotten => NoWaiterForgotten'
  <2> SUFFICES ASSUME NoWaiterForgotten, NEW x \in Edas, st'[x] = "waiting" PROVE FALSE
    BY DEF NoWaiterForgotten
  <2>1. st[x] = "waiting" BY <1>4
  <2>2. eda_owner = x BY <1>7, <2>1 DEF NoWaiterForgotten
  <2> QED BY <1>3, <2>2
<1> QED BY <1>2, <1>5, <1>6, <1>8, <1>10, <1>11, <1>12 DEF MInv

\* An EDA waits for a mutex that is taken; its owner may inherit its priority.
LEMMA EnterPendsInv ==
    ASSUME MInv, NEW e \in Edas, EnterPends(e)
    PROVE  MInv' /\ (NoWaiterForgotten => NoWaiterForgotten')
<1> USE EvtqAssumption
<1>1. /\ KInv /\ MutexType /\ OneOwner /\ Waiters /\ Woken /\ Leavers
      /\ st[e] = "idle" /\ ~Free
      /\ pending_list' = Inserted(pending_list, e) /\ Inherit(e)
      /\ st' = [st EXCEPT ![e] = "waiting"]
      /\ UNCHANGED <<cur_value, eda_owner, wakes>>
  BY DEF MInv, EnterPends
<1>2. eda_owner \in Edas
  <2>1. eda_owner # None BY <1>1 DEF OneOwner, Free
  <2> QED BY <1>1, <2>1 DEF MutexType
<1>3. KInv' /\ UNCHANGED <<evt_list, cur, evt>>
  <2>1. CASE UNCHANGED kernel
    BY <1>1, <2>1, StutterInv DEF kernel, queues, polls
  <2>2. CASE SetPriority(eda_owner, cur_priority[e])
    <3>1. cur_priority[e] \in Prios BY <1>1 DEF KInv, KernelType
    <3>2. KInv' BY <1>1, <1>2, <2>2, <3>1, SetPriorityInv
    <3> QED BY <2>2, <3>2 DEF SetPriority, polls
  <2> QED BY <1>1, <2>1, <2>2 DEF Inherit
<1>4. eda_owner # e /\ ~Linked(pending_list, e)
  BY <1>1, <1>2 DEF Waiters
<1>5. /\ pending_list' \in Seq(Edas) /\ Once(pending_list') /\ pending_list' # <<>>
      /\ \A x : Linked(pending_list', x) <=> Linked(pending_list, x) \/ x = e
  BY <1>1, <1>4, WaiterInserted DEF MutexType, Waiters
<1>6. st'[e] = "waiting" /\ \A x \in Edas \ {e} : st'[x] = st[x]
  BY <1>1 DEF MutexType
<1>7. MutexType'
  BY <1>1, <1>5 DEF MutexType
<1>8. OneOwner'
  BY <1>1, <1>2, <1>6 DEF OneOwner
<1>9. Waiters'
  BY <1>1, <1>2, <1>4, <1>5, <1>6 DEF Waiters
<1>10. Woken'
  BY <1>1, <1>3, <1>4, <1>6 DEF Woken
<1>11. Leavers'
  BY <1>1, <1>6 DEF Leavers
<1>12. NoWaiterForgotten => NoWaiterForgotten'
  BY <1>1, <1>3, <1>4, <1>5, <1>6 DEF NoWaiterForgotten
<1> QED BY <1>3, <1>7, <1>8, <1>9, <1>10, <1>11, <1>12 DEF MInv

\* A waiter takes its VSF_EVT_SYNC: with it nothing is left over.
LEMMA GetReasonInv ==
    ASSUME MInv, NEW e \in Edas, GetReason(e)
    PROVE  MInv' /\ (NoWaiterForgotten => NoWaiterForgotten')
<1> USE EvtqAssumption
<1> DEFINE q == Top
<1>1. /\ KInv /\ MutexType /\ OneOwner /\ Waiters /\ Woken /\ Leavers
      /\ Top # None /\ cur[q] = e /\ st[e] = "waiting" /\ evt[q] = "SYNC"
      /\ is_limitted' = [is_limitted EXCEPT ![e] = FALSE]
      /\ evt' = [evt EXCEPT ![q] = None]
      /\ st' = [st EXCEPT ![e] = "owns"]
      /\ UNCHANGED <<queues, prios, cur, active, mutex, wakes>>
  BY DEF MInv, GetReason, Runs
<1>2. q \in Prios
  <2>1. active \in Seq(Prios) /\ active # <<>> /\ q = active[Len(active)]
    BY <1>1 DEF KInv, KernelType, Top
  <2>2. Len(active) \in 1 .. Len(active) BY <2>1, EmptySeq, LenProperties
  <2> QED BY <2>1, <2>2, ElementOfSeq
<1> HIDE DEF q
<1>3. InHand(cur, evt, e)
  BY <1>1, <1>2 DEF InHand
<1>4. eda_owner = e /\ ~Listed(evt_list, e) /\ ~Owed(wakes, e)
  BY <1>1, <1>3 DEF Woken
<1>5. \A r \in Prios : cur[r] = e => r = q
  <2>1. e # None OBVIOUS
  <2> QED BY <1>1, <1>2, <2>1 DEF KInv, Polls
<1>6. evt'[q] = None /\ \A r \in Prios \ {q} : evt'[r] = evt[r]
  BY <1>1, <1>2 DEF KInv, KernelType
<1>7. UNCHANGED <<evt_list, cur, cur_value, eda_owner, pending_list, wakes>>
  BY <1>1 DEF queues, mutex
<1>8. None # "SYNC"
  BY MutexAssumption
<1>9. ~InHand(cur', evt', e)
  BY <1>5, <1>6, <1>7, <1>8 DEF InHand
<1>10. \A x \in Edas \ {e} : InHand(cur', evt', x) <=> InHand(cur, evt, x)
  BY <1>1, <1>6, <1>7, <1>8 DEF InHand
<1>11. st'[e] = "owns" /\ \A x \in Edas \ {e} : st'[x] = st[x]
  BY <1>1 DEF MutexType
<1>12. KInv'
  <2>1. evt' \in [Prios -> Evts \cup {None}] /\ is_limitted' \in [Edas -> BOOLEAN]
    BY <1>1 DEF KInv, KernelType
  <2> QED BY <1>1, <2>1 DEF KInv, KernelType, Lists, Polls, Deferrals, ReadyHasEvents,
      RaisedForHandler, IsCurrent, queues, prios
<1>13. MutexType'
  BY <1>1, <1>7 DEF MutexType
<1>14. OneOwner'
  BY <1>1, <1>4, <1>7, <1>11 DEF OneOwner
<1>15. Waiters'
  BY <1>1, <1>4, <1>7, <1>11 DEF Waiters
<1>16. Woken'
  BY <1>1, <1>4, <1>7, <1>9, <1>10, <1>11 DEF Woken
<1>17. Leavers'
  BY <1>1, <1>7, <1>11 DEF Leavers
<1>18. NoWaiterForgotten => NoWaiterForgotten'
  <2> SUFFICES ASSUME NoWaiterForgotten, NEW x \in Edas, st'[x] = "waiting"
               PROVE  Linked(pending_list, x) /\ eda_owner # x
    BY <1>7 DEF NoWaiterForgotten
  <2>1. x # e /\ st[x] = "waiting" BY <1>11
  <2> QED BY <1>4, <2>1 DEF NoWaiterForgotten
<1> QED BY <1>12, <1>13, <1>14, <1>15, <1>16, <1>17, <1>18 DEF MInv

\* The owner leaves (vsf_eda_sync.c:184-215): the mutex is free, or it goes to the
\* first that waits, and the one that leaves owes that one its event.
LEMMA LeaveInv ==
    ASSUME MInv, NEW e \in Edas, Leave(e)
    PROVE  MInv' /\ (NoWaiterForgotten => NoWaiterForgotten')
<1> USE EvtqAssumption
<1>1. /\ KInv /\ MutexType /\ OneOwner /\ Waiters /\ Woken /\ Leavers
      /\ st[e] = "owns" /\ HandOver(e, cur_value + 1)
      /\ IF cur_priority[e] # priority[e] THEN SetPriority(e, priority[e])
         ELSE UNCHANGED kernel
  BY DEF MInv, Leave
<1>2. KInv' /\ UNCHANGED <<evt_list, cur, evt>>
  <2>1. CASE UNCHANGED kernel
    BY <1>1, <2>1, StutterInv DEF kernel, queues, polls
  <2>2. CASE SetPriority(e, priority[e])
    <3>1. KInv' BY <1>1, <2>2, SetPriorityInv
    <3> QED BY <2>2, <3>1 DEF SetPriority, polls
  <2> QED BY <1>1, <2>1, <2>2
<1>3. eda_owner = e /\ cur_value = 0
  BY <1>1 DEF OneOwner
<1>4. \A x \in Edas : ~Listed(evt_list, x) /\ ~InHand(cur, evt, x) /\ ~Owed(wakes, x)
  BY <1>1, <1>3 DEF Woken
<1>5. \A x \in Edas : wakes[x] = None
  BY <1>1, <1>4 DEF Owed, MutexType
<1>6. CASE pending_list = <<>>
  <2>1. /\ cur_value' = 1 /\ eda_owner' = None /\ st' = [st EXCEPT ![e] = "idle"]
        /\ UNCHANGED <<pending_list, wakes>>
    BY <1>1, <1>3, <1>6 DEF HandOver
  <2>2. st'[e] = "idle" /\ \A x \in Edas \ {e} : st'[x] = st[x]
    BY <1>1, <2>1 DEF MutexType
  <2>3. \A x : ~Linked(pending_list, x)
    BY <1>6 DEF Linked
  <2>4. MutexType' /\ OneOwner' /\ Leavers'
    BY <1>1, <1>3, <1>5, <1>6, <2>1, <2>2 DEF MutexType, OneOwner, Leavers
  <2>5. Waiters'
    BY <1>1, <2>1, <2>3 DEF Waiters
  <2>6. Woken'
    BY <1>1, <1>2, <1>4, <2>1 DEF Woken
  <2>7. NoWaiterForgotten => NoWaiterForgotten'
    BY <1>3, <2>2, <2>3 DEF NoWaiterForgotten
  <2> QED BY <1>2, <2>4, <2>5, <2>6, <2>7 DEF MInv
<1>7. CASE pending_list # <<>>
  <2> DEFINE h == Head(pending_list)
             rest == Tail(pending_list)
  <2>1. /\ cur_value' = 0 /\ eda_owner' = h /\ pending_list' = rest
        /\ wakes' = [wakes EXCEPT ![e] = h] /\ st' = [st EXCEPT ![e] = "leaving"]
    BY <1>1, <1>3, <1>7 DEF HandOver
  <2>2. /\ rest \in Seq(Edas) /\ h \in Edas
        /\ \A x : Linked(pending_list, x) <=> x = h \/ Linked(rest, x)
        /\ ~Linked(rest, h)
    <3>1. pending_list \in Seq(Edas) /\ AtMostOnce(pending_list, h)
      BY <1>1 DEF MutexType, Waiters, Once, AtMostOnce
    <3> QED BY <1>7, <3>1, TakenEvent, HeadTailProperties
  <2>3. Once(rest)
    <3>1. pending_list \in Seq(Edas) /\ Once(pending_list) BY <1>1 DEF MutexType, Waiters
    <3>2. \A v : AtMostOnce(rest, v) BY <1>7, <3>1, TakenEvent DEF Once, AtMostOnce
    <3> QED BY <3>2 DEF Once, AtMostOnce
  <2> HIDE DEF h, rest
  <2>4. st[h] = "waiting" /\ h # e
    BY <1>1, <2>2 DEF Waiters
  <2>5. st'[e] = "leaving" /\ st'[h] = "waiting" /\ \A x \in Edas \ {e} : st'[x] = st[x]
    BY <1>1, <2>1, <2>2, <2>4 DEF MutexType
  <2>6. /\ wakes' \in [Edas -> Edas \cup {None}]
        /\ wakes'[e] = h /\ \A x \in Edas \ {e} : wakes'[x] = None
    BY <1>1, <1>5, <2>1, <2>2 DEF MutexType
  <2>7. MutexType'
    BY <1>1, <2>1, <2>2, <2>6 DEF MutexType
  <2>8. OneOwner'
    BY <1>1, <1>3, <2>1, <2>2, <2>5 DEF OneOwner
  <2>9. Waiters'
    <3>1. ASSUME NEW x \in Edas, Linked(rest, x) PROVE st'[x] = "waiting" /\ h # x
      BY <1>1, <2>2, <2>5, <3>1 DEF Waiters
    <3> QED BY <2>1, <2>3, <2>5, <3>1 DEF Waiters
  <2>10. \A x \in Edas : Owed(wakes', x) <=> x = h
    BY <2>2, <2>6 DEF Owed
  <2>11. Woken'
    BY <1>1, <1>2, <1>4, <2>1, <2>5, <2>10 DEF Woken
  <2>12. Leavers'
    BY <2>2, <2>5, <2>6 DEF Leavers
  <2>13. NoWaiterForgotten => NoWaiterForgotten'
    <3> SUFFICES ASSUME NoWaiterForgotten, NEW x \in Edas, st'[x] = "waiting"
                 PROVE  \/ Linked(rest, x) /\ h # x
                        \/ h = x /\ \E y \in Edas : wakes'[y] = x
      BY <2>1 DEF NoWaiterForgotten
    <3>1. x # e /\ st[x] = "waiting" BY <2>5
    <3>2. Linked(pending_list, x) BY <1>3, <3>1 DEF NoWaiterForgotten
    <3> QED BY <2>2, <2>6, <3>2
  <2> QED BY <1>2, <2>7, <2>8, <2>9, <2>11, <2>12, <2>13 DEF MInv
<1> QED BY <1>6, <1>7

\* The event that is owed is posted. Forced, it is refused only for want of a node.
LEMMA PostSyncInv ==
    ASSUME MInv, NEW e \in Edas, PostSync(e)
    PROVE  MInv' /\ (NodesUsed < NodeCnt /\ NoWaiterForgotten => NoWaiterForgotten')
<1> USE EvtqAssumption
<1> DEFINE w == wakes[e]
<1>1. /\ KInv /\ MutexType /\ OneOwner /\ Waiters /\ Woken /\ Leavers
      /\ w # None /\ Post(w, "SYNC", TRUE) /\ wakes' = [wakes EXCEPT ![e] = None]
      /\ UNCHANGED <<mutex, st>>
  BY DEF MInv, PostSync
<1>2. w \in Edas
  BY <1>1 DEF MutexType
<1>3. Owed(wakes, w)
  BY DEF Owed
<1>4. /\ wakes' \in [Edas -> Edas \cup {None}]
      /\ wakes'[e] = None /\ \A x \in Edas \ {e} : wakes'[x] = wakes[x]
  BY <1>1 DEF MutexType
<1>5. \A x \in Edas : Owed(wakes', x) <=> Owed(wakes, x) /\ x # w
  BY <1>1, <1>2, <1>4 DEF Owed, Leavers
<1> HIDE DEF w
<1>6. KInv'
  BY <1>1, <1>2, PostInv, MutexAssumption
<1>7. UNCHANGED <<cur, evt, cur_value, eda_owner, pending_list, st>>
  BY <1>1 DEF Post, polls, mutex
<1>8. MutexType' /\ OneOwner' /\ Waiters'
  BY <1>1, <1>4, <1>7 DEF MutexType, OneOwner, Waiters
<1>9. Leavers'
  BY <1>1, <1>4, <1>7 DEF Leavers
<1>10. ASSUME UNCHANGED queues PROVE Woken'
  <2>1. evt_list' = evt_list BY <1>10 DEF queues
  <2> QED BY <1>1, <1>5, <1>7, <2>1 DEF Woken
<1>11. ASSUME Enqueue(w, "SYNC") PROVE Woken' /\ (NoWaiterForgotten => NoWaiterForgotten')
  <2>1. evt_list' = [evt_list EXCEPT ![w] = Append(@, "SYNC")] /\ evt_list[w] \in Seq(Evts)
    BY <1>1, <1>2, <1>11 DEF Enqueue, KInv, KernelType
  <2>2. /\ evt_list'[w] = Append(evt_list[w], "SYNC")
        /\ \A x \in Edas \ {w} : evt_list'[x] = evt_list[x]
    BY <1>1, <1>2, <2>1 DEF KInv, KernelType
  <2>3. ~Listed(evt_list, w) /\ ~InHand(cur, evt, w) /\ st[w] = "waiting" /\ eda_owner = w
    BY <1>1, <1>2, <1>3 DEF Woken
  <2>4. /\ Listed(evt_list', w) /\ AtMostOnce(evt_list'[w], "SYNC")
    BY <1>1, <1>2, <2>1, <2>2, <2>3, AppendedEvent, MutexAssumption DEF Listed, Woken
  <2>5. \A x \in Edas \ {w} : Listed(evt_list', x) <=> Listed(evt_list, x)
    BY <2>2 DEF Listed
  <2>6. \A x \in Edas : AtMostOnce(evt_list'[x], "SYNC")
    BY <1>1, <2>2, <2>4 DEF Woken
  <2>7. \A x \in Edas : InHand(cur', evt', x) <=> InHand(cur, evt, x)
    BY <1>7
  <2> QED
    <3>1. Woken' BY <1>1, <1>5, <1>7, <2>3, <2>4, <2>5, <2>6, <2>7 DEF Woken
    <3>2. ASSUME NoWaiterForgotten PROVE NoWaiterForgotten'
      <4> SUFFICES ASSUME NEW x \in Edas, st[x] = "waiting",
                          ~(Linked(pending_list, x) /\ eda_owner # x)
                   PROVE  /\ eda_owner = x
                          /\ Listed(evt_list', x) \/ InHand(cur', evt', x) \/ Owed(wakes', x)
        BY <1>7 DEF NoWaiterForgotten, Listed, InHand, Owed
      <4>1. eda_owner = x BY <3>2 DEF NoWaiterForgotten
      <4> QED BY <2>3, <2>4, <4>1
    <3> QED BY <3>1, <3>2
<1>12. NodesUsed < NodeCnt => Enqueue(w, "SYNC")
  BY <1>1 DEF Post, Accepts, w
<1>13. Enqueue(w, "SYNC") \/ UNCHANGED queues
  BY <1>1 DEF Post, w
<1>14. MInv'
  BY <1>6, <1>8, <1>9, <1>10, <1>11, <1>13 DEF MInv
<1> QED BY <1>11, <1>12, <1>14

\* The lock is taken again: the owner that was appointed keeps the count at zero,
\* so there is nothing more to hand over.
LEMMA LeaveAgainInv ==
    ASSUME MInv, NEW e \in Edas, LeaveAgain(e)
    PROVE  MInv' /\ (NoWaiterForgotten => NoWaiterForgotten')
<1> USE EvtqAssumption
<1>1. /\ KInv /\ MutexType /\ OneOwner /\ Waiters /\ Woken /\ Leavers
      /\ st[e] = "leaving" /\ wakes[e] = None /\ UNCHANGED kernel
  BY DEF MInv, LeaveAgain
<1>2. st' = [st EXCEPT ![e] = "idle"] /\ UNCHANGED <<mutex, wakes>>
  <2>1. ~(cur_value > 0 /\ pending_list # <<>>) BY <1>1 DEF OneOwner
  <2> QED BY <2>1 DEF LeaveAgain
<1>3. KInv' /\ UNCHANGED <<evt_list, cur, evt, cur_value, eda_owner, pending_list, wakes>>
  BY <1>1, <1>2, StutterInv DEF kernel, queues, polls, mutex
<1>4. st'[e] = "idle" /\ \A x \in Edas \ {e} : st'[x] = st[x]
  BY <1>1, <1>2 DEF MutexType
<1>5. MutexType' /\ OneOwner' /\ Leavers'
  BY <1>1, <1>2, <1>3, <1>4 DEF MutexType, OneOwner, Leavers
<1>6. Waiters'
  BY <1>1, <1>3, <1>4 DEF Waiters, MutexType
<1>7. Woken'
  BY <1>1, <1>3, <1>4 DEF Woken
<1>8. NoWaiterForgotten => NoWaiterForgotten'
  BY <1>3, <1>4 DEF NoWaiterForgotten
<1> QED BY <1>3, <1>5, <1>6, <1>7, <1>8 DEF MInv

\* A dispatch takes a VSF_EVT_SYNC out of the list of its EDA into the hand of its
\* handler; only the event that was in the hand before is gone.
LEMMA SyncDispatched ==
    ASSUME KInv, NEW q \in Prios, NEW n \in Edas \cup {None}, Dispatch(q, n),
           n # None => evt_list[n] # <<>> /\ ~IsCurrent(n),
           NEW x \in Edas, AtMostOnce(evt_list[x], "SYNC"),
           ~(Listed(evt_list, x) /\ InHand(cur, evt, x))
    PROVE  /\ AtMostOnce(evt_list'[x], "SYNC")
           /\ ~(Listed(evt_list', x) /\ InHand(cur', evt', x))
           /\ Listed(evt_list', x) \/ InHand(cur', evt', x)
                 => Listed(evt_list, x) \/ InHand(cur, evt, x)
           /\ Listed(evt_list, x) => Listed(evt_list', x) \/ InHand(cur', evt', x)
           /\ InHand(cur, evt, x) /\ ~(cur[q] = x /\ evt[q] = "SYNC")
                 => InHand(cur', evt', x)
<1> USE EvtqAssumption
<1>1. /\ KernelType /\ cur' = [cur EXCEPT ![q] = n]
      /\ cur'[q] = n /\ \A r \in Prios \ {q} : cur'[r] = cur[r]
  BY DEF KInv, KernelType, Dispatch
<1>2. \A r \in Prios \ {q} : evt'[r] = evt[r]
  <2>1. CASE n = None BY <1>1, <2>1 DEF KernelType, Dispatch
  <2>2. CASE n # None BY <1>1, <2>2 DEF KernelType, Dispatch
  <2> QED BY <2>1, <2>2
<1>3. CASE n # x
  <2>1. evt_list'[x] = evt_list[x]
    <3>1. CASE n = None BY <3>1 DEF Dispatch
    <3>2. CASE n # None BY <1>1, <1>3, <3>2 DEF KernelType, Dispatch
    <3> QED BY <3>1, <3>2
  <2>2. InHand(cur', evt', x) => InHand(cur, evt, x)
    BY <1>1, <1>2, <1>3 DEF InHand
  <2>3. InHand(cur, evt, x) /\ ~(cur[q] = x /\ evt[q] = "SYNC") => InHand(cur', evt', x)
    BY <1>1, <1>2 DEF InHand
  <2> QED BY <2>1, <2>2, <2>3 DEF Listed
<1>4. CASE n = x
  <2>1. evt_list[x] \in Seq(Evts) /\ evt_list[x] # <<>> /\ ~IsCurrent(x) /\ x # None
    BY <1>1, <1>4 DEF KernelType
  <2>2. evt'[q] = Head(evt_list[x]) /\ evt_list'[x] = Tail(evt_list[x])
    BY <1>1, <1>4, <2>1 DEF KernelType, Dispatch
  <2>3. ~InHand(cur, evt, x)
    BY <2>1 DEF InHand, IsCurrent
  <2>4. InHand(cur', evt', x) <=> Head(evt_list[x]) = "SYNC"
    BY <1>1, <1>4, <2>1, <2>2 DEF InHand, IsCurrent
  <2>5. /\ Listed(evt_list, x) <=> "SYNC" = Head(evt_list[x]) \/ Listed(evt_list', x)
        /\ AtMostOnce(evt_list'[x], "SYNC")
        /\ Head(evt_list[x]) = "SYNC" => ~Listed(evt_list', x)
    BY <2>1, <2>2, TakenEvent DEF Listed
  <2> QED BY <2>3, <2>4, <2>5
<1> QED BY <1>3, <1>4

\* What the kernel does by itself loses no VSF_EVT_SYNC: a handler that waits for
\* one does not return with it.
LEMMA KernelStepInv ==
    ASSUME MInv, KernelStep
    PROVE  MInv' /\ (NoWaiterForgotten => NoWaiterForgotten')
<1>1. /\ KInv /\ MutexType /\ OneOwner /\ Waiters /\ Woken /\ Leavers
      /\ UNCHANGED <<cur_value, eda_owner, pending_list, st, wakes>>
  BY DEF MInv, KernelStep, mvars, mutex
<1>2. PICK q \in Prios :
          Preempt(q) \/ PollHead(q) \/ ((\E e \in Edas : MayReturn(e)) /\ HandlerDone(q))
  BY DEF KernelStep
<1>3. KInv'
  BY <1>1, <1>2, PreemptInv, PollHeadInv, HandlerDoneInv
<1>4. MutexType' /\ OneOwner' /\ Waiters' /\ Leavers'
  BY <1>1 DEF MutexType, OneOwner, Waiters, Leavers
<1>5. ASSUME UNCHANGED <<evt_list, cur, evt>>
      PROVE  Woken' /\ (NoWaiterForgotten => NoWaiterForgotten')
  BY <1>1, <1>5 DEF Woken, NoWaiterForgotten
<1>6. CASE Preempt(q)
  BY <1>3, <1>4, <1>5, <1>6 DEF Preempt, MInv
<1>7. CASE PollHead(q) \/ ((\E e \in Edas : MayReturn(e)) /\ HandlerDone(q))
  <2>1. \A x \in Edas : ~(cur[q] = x /\ evt[q] = "SYNC")
    <3> SUFFICES ASSUME NEW x \in Edas, cur[q] = x, evt[q] = "SYNC" PROVE FALSE
      OBVIOUS
    <3>1. x # None /\ InHand(cur, evt, x) BY EvtqAssumption DEF InHand
    <3>2. PICK e \in Edas : MayReturn(e) /\ Top = q BY <1>7, <3>1 DEF PollHead, HandlerDone
    <3>3. e = x /\ st[x] # "waiting" BY <3>2 DEF MayReturn, Runs
    <3> QED BY <1>1, <3>1, <3>3 DEF Woken
  <2>2. CASE UNCHANGED <<evt_list, cur, evt>>
    BY <1>3, <1>4, <1>5, <2>2 DEF MInv
  <2>3. CASE ~UNCHANGED <<evt_list, cur, evt>>
    <3>1. PICK n \in Edas \cup {None} :
              Dispatch(q, n) /\ (n # None => evt_list[n] # <<>> /\ ~IsCurrent(n))
      BY <1>1, <1>7, <2>3, Dispatched
    <3>2. ASSUME NEW x \in Edas
          PROVE  /\ AtMostOnce(evt_list'[x], "SYNC")
                 /\ ~(Listed(evt_list', x) /\ InHand(cur', evt', x))
                 /\ Listed(evt_list', x) \/ InHand(cur', evt', x)
                       <=> Listed(evt_list, x) \/ InHand(cur, evt, x)
      <4>1. AtMostOnce(evt_list[x], "SYNC") /\ ~(Listed(evt_list, x) /\ InHand(cur, evt, x))
        BY <1>1 DEF Woken
      <4> QED BY <1>1, <2>1, <3>1, <4>1, SyncDispatched
    <3>3. Woken'
      BY <1>1, <3>2 DEF Woken
    <3>4. NoWaiterForgotten => NoWaiterForgotten'
      <4> SUFFICES ASSUME NoWaiterForgotten, NEW x \in Edas, st[x] = "waiting",
                          ~(Linked(pending_list, x) /\ eda_owner # x)
                   PROVE  /\ eda_owner = x
                          /\ Listed(evt_list', x) \/ InHand(cur', evt', x) \/ Owed(wakes, x)
        BY <1>1 DEF NoWaiterForgotten, Listed, InHand, Owed
      <4>1. /\ eda_owner = x
            /\ Listed(evt_list, x) \/ InHand(cur, evt, x) \/ Owed(wakes, x)
        BY DEF NoWaiterForgotten, Listed, InHand, Owed
      <4> QED BY <3>2, <4>1
    <3> QED BY <1>3, <1>4, <3>3, <3>4 DEF MInv
  <2> QED BY <2>2, <2>3
<1> QED BY <1>2, <1>6, <1>7

\* An event that is none of the mutex's leaves its own where they are.
LEMMA UserPostInv ==
    ASSUME MInv, NEW e \in Edas, Post(e, "USER", FALSE), UNCHANGED mvars
    PROVE  MInv' /\ (NoWaiterForgotten => NoWaiterForgotten')
<1>1. /\ KInv /\ MutexType /\ OneOwner /\ Waiters /\ Woken /\ Leavers
      /\ UNCHANGED <<cur_value, eda_owner, pending_list, st, wakes>>
      /\ UNCHANGED <<cur, evt>>
  BY DEF MInv, mvars, mutex, Post, polls
<1>2. KInv'
  BY <1>1, PostInv, MutexAssumption
<1>3. MutexType' /\ OneOwner' /\ Waiters' /\ Leavers'
  BY <1>1 DEF MutexType, OneOwner, Waiters, Leavers
<1>4. ASSUME NEW x \in Edas
      PROVE  /\ Listed(evt_list', x) <=> Listed(evt_list, x)
             /\ AtMostOnce(evt_list[x], "SYNC") => AtMostOnce(evt_list'[x], "SYNC")
  <2>1. CASE UNCHANGED queues
    BY <2>1 DEF queues, Listed
  <2>2. CASE Enqueue(e, "USER")
    <3>1. /\ evt_list[e] \in Seq(Evts) /\ evt_list'[e] = Append(evt_list[e], "USER")
          /\ \A y \in Edas \ {e} : evt_list'[y] = evt_list[y]
      BY <1>1, <2>2 DEF Enqueue, KInv, KernelType
    <3>2. CASE x = e
      <4> DEFINE s == evt_list[e]
      <4>1. "USER" \in Evts /\ s \in Seq(Evts) BY <3>1, MutexAssumption
      <4>2. /\ Linked(Append(s, "USER"), "SYNC") <=> Linked(s, "SYNC")
            /\ AtMostOnce(s, "SYNC") => AtMostOnce(Append(s, "USER"), "SYNC")
        <5> HIDE DEF s
        <5> QED BY <4>1, AppendedEvent
      <4> QED BY <3>1, <3>2, <4>2 DEF Listed
    <3>3. CASE x # e
      BY <3>1, <3>3 DEF Listed
    <3> QED BY <3>2, <3>3
  <2> QED BY <2>1, <2>2 DEF Post
<1>5. Woken'
  BY <1>1, <1>4 DEF Woken
<1>6. NoWaiterForgotten => NoWaiterForgotten'
  <2> SUFFICES ASSUME NoWaiterForgotten, NEW x \in Edas, st[x] = "waiting",
                      ~(Linked(pending_list, x) /\ eda_owner # x)
               PROVE  /\ eda_owner = x
                      /\ Listed(evt_list', x) \/ InHand(cur, evt, x) \/ Owed(wakes, x)
    BY <1>1 DEF NoWaiterForgotten, Listed, InHand, Owed
  <2>1. /\ eda_owner = x
        /\ Listed(evt_list, x) \/ InHand(cur, evt, x) \/ Owed(wakes, x)
    BY DEF NoWaiterForgotten, Listed, InHand, Owed
  <2> QED BY <1>4, <2>1
<1> QED BY <1>2, <1>3, <1>5, <1>6 DEF MInv

(* ------------------------------ theorems ------------------------------ *)

LEMMA MInvNext ==
    ASSUME MInv, [MutexNext]_allvars
    PROVE  MInv' /\ (NodesUsed < NodeCnt /\ NoWaiterForgotten => NoWaiterForgotten')
<1>1. CASE \E e \in Edas : (EnterAtOnce(e) \/ EnterPends(e)) /\ Enters
  BY <1>1, EnterAtOnceInv, EnterPendsInv
<1>2. CASE MutexStep
  BY <1>2, GetReasonInv, LeaveInv, PostSyncInv, LeaveAgainInv DEF MutexStep
<1>3. CASE KernelStep
  BY <1>3, KernelStepInv
<1>4. CASE UserPost
  BY <1>4, UserPostInv DEF UserPost
<1>5. CASE UNCHANGED allvars
  <2>1. KInv' /\ UNCHANGED <<evt_list, cur, evt, cur_value, eda_owner, pending_list, st, wakes>>
    BY <1>5, StutterInv DEF allvars, vars, mvars, mutex, MInv, kernel, queues, polls
  <2> QED BY <2>1 DEF MInv, MutexType, OneOwner, Waiters, Woken, Leavers, NoWaiterForgotten
<1> QED BY <1>1, <1>2, <1>3, <1>4, <1>5 DEF MutexNext

THEOREM MutexInvariance == MutexSpec => []MInv
<1>1. MInv /\ [MutexNext]_allvars => MInv'
  BY MInvNext
<1> QED BY <1>1, MInvInit, PTL DEF MutexSpec

\* No two EDAs are ever in the mutex, and its owner is known as long as it is
\* taken, however waits, hand-overs, preemptions and changes of priority meet.
THEOREM OneOwnerAlways == MutexSpec => []OneOwner
<1>1. MInv => OneOwner
  BY DEF MInv
<1> QED BY <1>1, MutexInvariance, PTL

\* The mutex leaves the lists of the kernel whole: no handler is entered again
\* under an inheritance of priority.
THEOREM NoReentryUnderMutex == MutexSpec => [](NoReentry /\ ReadyIsLinked)
<1>1. MInv => NoReentry /\ ReadyIsLinked
  BY KInvLinked DEF MInv, KInv, Polls, NoReentry, Linked
<1> QED BY <1>1, MutexInvariance, PTL

\* No VSF_EVT_SYNC is left over for a wait that comes later.
THEOREM NoStraySyncAlways == MutexSpec => []NoStraySync
<1>1. MInv => NoStraySync
  BY DEF MInv, Woken, NoStraySync, Listed
<1> QED BY <1>1, MutexInvariance, PTL

\* As long as an event node is left, no waiter is forgotten between the lock that
\* is dropped and the event that is posted.
THEOREM NoWaiterForgottenWithNodes ==
    MutexSpec /\ [](NodesUsed < NodeCnt) => []NoWaiterForgotten
<1>1. MInv /\ NoWaiterForgotten /\ NodesUsed < NodeCnt /\ [MutexNext]_allvars
          => NoWaiterForgotten'
  BY MInvNext
<1>2. MutexInit => NoWaiterForgotten
  BY MInvInit
<1> QED BY <1>1, <1>2, MutexInvariance, PTL DEF MutexSpec
=============================================================================
