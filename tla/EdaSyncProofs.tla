---------------------------- MODULE EdaSyncProofs ----------------------------
(* Semaphores and events with timeouts, for any number of EDAs and units: no  *)
(* unit is lost, nobody waits for what is there, and, while there are event   *)
(* nodes, a wait that is over leaves nothing behind. At the heart is where    *)
(* the events of a wait are: among the events of its EDA, in the hand of its  *)
(* handler, or still owed by an EDA that increases or cancels.                *)
EXTENDS EdaSync, EvtqListProofs

(* --------------------------- lists of events -------------------------- *)

\* The events that tell an EDA that its wait is over, and all a wait causes.
Tells   == {"SYNC", "SYNC_CANCEL"}
Signals == Tells \cup {"TIMER"}

\* A list holds each of them at most once, and VSF_EVT_TIMER before the others:
\* a timer that is due finds the list empty, or its event is refused.
TimerFirst(s) ==
    \A i, j \in DOMAIN s : s[i] \in Tells /\ s[j] = "TIMER" => j < i

ListOK(s) == (\A k \in Signals : AtMostOnce(s, k)) /\ TimerFirst(s)

\* An event is added that the list does not hold, VSF_EVT_TIMER before the others.
LEMMA ListAppended ==
    ASSUME NEW s \in Seq(Evts), NEW v \in Evts, ListOK(s),
           v \in Signals => ~Linked(s, v),
           v = "TIMER" => \A k \in Tells : ~Linked(s, k)
    PROVE  /\ ListOK(Append(s, v))
           /\ \A x : Linked(Append(s, v), x) <=> Linked(s, x) \/ x = v
<1> DEFINE t == Append(s, v)
<1>1. /\ \A x : Linked(t, x) <=> Linked(s, x) \/ x = v
      /\ \A k : AtMostOnce(s, k) /\ (v = k => ~Linked(s, k)) => AtMostOnce(t, k)
  BY AppendedEvent
<1>2. Len(s) \in Nat /\ DOMAIN s = 1 .. Len(s) BY LenProperties
<1>3. /\ t \in Seq(Evts) /\ Len(t) = Len(s) + 1
      /\ \A i \in 1 .. Len(s) : t[i] = s[i]
      /\ t[Len(s) + 1] = v
  BY AppendProperties
<1>4. DOMAIN t = 1 .. Len(s) + 1 BY <1>3, LenProperties
<1> HIDE DEF t
<1>5. TimerFirst(t)
  <2> SUFFICES ASSUME NEW i \in 1 .. Len(s) + 1, NEW j \in 1 .. Len(s) + 1,
                      t[i] \in Tells, t[j] = "TIMER"
               PROVE  j < i
    BY <1>4 DEF TimerFirst
  <2>1. CASE i \in 1 .. Len(s) /\ j \in 1 .. Len(s)
    BY <1>2, <1>3, <2>1 DEF ListOK, TimerFirst
  <2>2. CASE i = Len(s) + 1
    <3>1. j # i BY DEF Tells
    <3> QED BY <1>2, <2>2, <3>1
  <2>3. CASE i \in 1 .. Len(s) /\ j = Len(s) + 1
    <3>1. s[i] \in Tells /\ v = "TIMER" /\ Linked(s, s[i]) BY <1>2, <1>3, <2>3 DEF Linked
    <3> QED BY <3>1
  <2> QED BY <1>2, <2>1, <2>2, <2>3
<1>6. \A k \in Signals : AtMostOnce(t, k)
  BY <1>1 DEF ListOK
<1> QED BY <1>1, <1>5, <1>6 DEF ListOK, t

\* The first event is taken: it is gone, and VSF_EVT_TIMER does not come after one
\* of the others.
LEMMA ListTaken ==
    ASSUME NEW s \in Seq(Evts), s # <<>>, ListOK(s)
    PROVE  /\ ListOK(Tail(s))
           /\ \A x : Linked(s, x) <=> x = Head(s) \/ Linked(Tail(s), x)
           /\ Head(s) \in Signals => ~Linked(Tail(s), Head(s))
           /\ Head(s) \in Tells => ~Linked(Tail(s), "TIMER")
<1> DEFINE t == Tail(s)
<1>1. /\ \A x : Linked(s, x) <=> x = Head(s) \/ Linked(t, x)
      /\ \A v : AtMostOnce(s, v) => AtMostOnce(t, v)
      /\ \A v : AtMostOnce(s, v) /\ Head(s) = v => ~Linked(t, v)
  BY TakenEvent
<1>2. Len(s) \in Nat \ {0} /\ DOMAIN s = 1 .. Len(s) /\ Head(s) = s[1]
  BY EmptySeq, LenProperties
<1>3. t \in Seq(Evts) /\ Len(t) = Len(s) - 1 /\ \A i \in 1 .. Len(s) - 1 : t[i] = s[i + 1]
  BY HeadTailProperties
<1>4. DOMAIN t = 1 .. Len(s) - 1 BY <1>3, LenProperties
<1> HIDE DEF t
<1>5. ASSUME NEW i \in 1 .. Len(s) - 1 PROVE i + 1 \in DOMAIN s /\ t[i] = s[i + 1]
  BY <1>2, <1>3
<1>6. TimerFirst(t)
  <2> SUFFICES ASSUME NEW i \in 1 .. Len(s) - 1, NEW j \in 1 .. Len(s) - 1,
                      t[i] \in Tells, t[j] = "TIMER"
               PROVE  j < i
    BY <1>4 DEF TimerFirst
  <2>1. j + 1 < i + 1 BY <1>5 DEF ListOK, TimerFirst
  <2> QED BY <2>1
<1>7. ASSUME Head(s) \in Tells, Linked(t, "TIMER") PROVE FALSE
  <2>1. PICK j \in 1 .. Len(s) - 1 : t[j] = "TIMER" BY <1>4, <1>7 DEF Linked
  <2>2. j + 1 \in DOMAIN s /\ s[j + 1] = "TIMER" /\ 1 \in DOMAIN s /\ s[1] \in Tells
    BY <1>2, <1>5, <1>7, <2>1
  <2>3. j + 1 < 1 BY <2>2 DEF ListOK, TimerFirst
  <2> QED BY <2>3
<1>8. \A k \in Signals : AtMostOnce(t, k)
  BY <1>1 DEF ListOK
<1> QED BY <1>1, <1>6, <1>7, <1>8 DEF ListOK, t

\* The first that waits leaves the list.
LEMMA HeadUnlinked ==
    ASSUME NEW s \in Seq(Edas), s # <<>>, Once(s)
    PROVE  /\ Head(s) \in Edas /\ Linked(s, Head(s))
           /\ Tail(s) \in Seq(Edas) /\ Once(Tail(s))
           /\ \A x : Linked(Tail(s), x) <=> Linked(s, x) /\ x # Head(s)
<1> DEFINE t == Tail(s)
<1>1. /\ \A x : Linked(s, x) <=> x = Head(s) \/ Linked(t, x)
      /\ \A v : AtMostOnce(s, v) => AtMostOnce(t, v)
      /\ \A v : AtMostOnce(s, v) /\ Head(s) = v => ~Linked(t, v)
  BY TakenEvent
<1>2. \A v : AtMostOnce(s, v) BY DEF Once, AtMostOnce
<1>3. Head(s) \in Edas /\ t \in Seq(Edas) BY HeadTailProperties
<1>4. Once(t) BY <1>1, <1>2 DEF Once, AtMostOnce
<1> HIDE DEF t
<1> QED BY <1>1, <1>2, <1>3, <1>4 DEF t

\* A set without two elements has none or one.
LEMMA NoneOrOne ==
    ASSUME NEW S, \A a, b \in S : a = b
    PROVE  Cardinality(S) = IF S = {} THEN 0 ELSE 1
<1>1. CASE S = {} BY <1>1, FS_EmptySet
<1>2. CASE S # {}
  <2>1. PICK a \in S : TRUE BY <1>2
  <2>2. S = {a} BY <2>1
  <2>3. Cardinality({a}) = 1 BY FS_Singleton
  <2> QED BY <1>2, <2>2, <2>3
<1> QED BY <1>1, <1>2

(* ----------------------------- invariant ------------------------------ *)

\* The types of the part of the state that is about waits.
SyncType ==
    /\ manual_rst \in BOOLEAN /\ cur_value \in 0 .. MaxValue /\ units \in Int
    /\ pending_list \in Seq(Edas)
    /\ is_sync_got \in [Edas -> BOOLEAN] /\ is_timed \in [Edas -> BOOLEAN]
    /\ st \in [Edas -> {"idle", "waiting", "increasing", "cancelling"}]
    /\ wakes \in [Edas -> Edas \cup {None}]
    /\ woken \in [Edas -> Tells \cup {None}]

\* An event in the hand of a handler, an event that is still to be posted.
InHand(c, v, e, k) == \E q \in Prios : c[q] = e /\ v[q] = k
Owed(w, e)         == \E x \in Edas : w[x] = e

\* An EDA with events is ready: its timer cannot add one.
ReadyWhenListed == \A e \in Edas : evt_list[e] # <<>> => is_ready[e]

\* In the list are those who wait and have not been told; a timer and the limit
\* to one event are for those who wait.
Waiters ==
    /\ Once(pending_list)
    /\ \A e \in Edas :
        /\ Linked(pending_list, e) <=> st[e] = "waiting" /\ woken[e] = None
        /\ woken[e] # None => st[e] = "waiting" /\ is_sync_got[e]
        /\ is_timed[e] => st[e] = "waiting" /\ is_limitted[e]
        /\ is_limitted[e] => st[e] = "waiting"

\* Who owes an event increases or cancels, and no other owes the same.
Tellers ==
    \A x \in Edas : wakes[x] # None =>
        /\ st[x] \in {"increasing", "cancelling"}
        /\ woken[wakes[x]] # None
        /\ \A y \in Edas : wakes[y] = wakes[x] => y = x

\* The events of a wait: an EDA has what it was told, in one place, and behind a
\* VSF_EVT_TIMER that came before; VSF_EVT_TIMER is for a wait that goes on, and
\* its timer is off.
EventsOf(e) ==
    /\ ListOK(evt_list[e])
    /\ \A k \in Tells : Linked(evt_list[e], k) \/ InHand(cur, evt, e, k) => woken[e] = k
    /\ Owed(wakes, e) =>
          \A k \in Tells : ~Linked(evt_list[e], k) /\ ~InHand(cur, evt, e, k)
    /\ \A k \in Tells : InHand(cur, evt, e, k) =>
          \A l \in Signals : ~Linked(evt_list[e], l)
    /\ InHand(cur, evt, e, "TIMER") => ~Linked(evt_list[e], "TIMER")
    /\ Linked(evt_list[e], "TIMER") \/ InHand(cur, evt, e, "TIMER") =>
          st[e] = "waiting" /\ ~is_timed[e]

Events == \A e \in Edas : EventsOf(e)

\* What was told is on its way.
Complete ==
    \A e \in Edas : woken[e] # None =>
        \/ Owed(wakes, e)
        \/ \E k \in Tells : Linked(evt_list[e], k) \/ InHand(cur, evt, e, k)

\* The inductive invariant.
SInv ==
    /\ KInv /\ SyncType /\ ReadyWhenListed
    /\ Waiters /\ Tellers /\ Events
    /\ UnitsConserved /\ NobodyWaitsInVain

\* What every step keeps; an event is lost only for want of a node.
Kept == SInv' /\ (NodesUsed < NodeCnt /\ Complete => Complete')

\* Nobody has been told to begin with.
LEMMA SInvInit == SyncInit => SInv /\ Complete
<1> SUFFICES ASSUME SyncInit PROVE SInv /\ Complete
  OBVIOUS
<1> USE EvtqAssumption, SyncAssumption
<1>1. KInv
  BY KInvInit DEF SyncInit
<1>2. SyncType
  BY EmptySeq DEF SyncInit, SyncType
<1>3. ReadyWhenListed /\ Waiters /\ Tellers /\ NobodyWaitsInVain /\ Complete
  BY DEF SyncInit, Init, ReadyWhenListed, Waiters, Tellers, NobodyWaitsInVain, Complete,
     Once, Linked
<1>4. Events
  BY DEF SyncInit, Init, Events, EventsOf, ListOK, TimerFirst, AtMostOnce, InHand, Owed, Linked,
     Tells, Signals
<1>5. UnitsConserved
  <2>1. {e \in Edas : woken[e] = "SYNC"} = {} BY DEF SyncInit
  <2>2. Cardinality({e \in Edas : woken[e] = "SYNC"}) = 0 BY <2>1, FS_EmptySet
  <2>3. units = cur_value /\ cur_value \in Nat BY DEF SyncInit
  <2> QED BY <2>2, <2>3 DEF UnitsConserved
<1> QED BY <1>1, <1>2, <1>3, <1>4, <1>5 DEF SInv

\* How many units are on their way to an EDA.
GivenTo(w) == Cardinality({e \in Edas : w[e] = "SYNC"})

\* One more EDA is given a unit, or one less.
LEMMA Given ==
    ASSUME NEW w \in [Edas -> Tells \cup {None}], NEW e \in Edas,
           NEW k \in Tells \cup {None}
    PROVE  /\ GivenTo(w) \in Nat
           /\ w[e] # "SYNC" /\ k = "SYNC" => GivenTo([w EXCEPT ![e] = k]) = GivenTo(w) + 1
           /\ w[e] # "SYNC" /\ k # "SYNC" => GivenTo([w EXCEPT ![e] = k]) = GivenTo(w)
           /\ w[e] = "SYNC" /\ k # "SYNC" => GivenTo([w EXCEPT ![e] = k]) = GivenTo(w) - 1
<1> DEFINE S == {x \in Edas : w[x] = "SYNC"}
           T == {x \in Edas : [w EXCEPT ![e] = k][x] = "SYNC"}
<1>1. IsFiniteSet(S) /\ Cardinality(S) \in Nat
  <2>1. S \in SUBSET Edas OBVIOUS
  <2>2. IsFiniteSet(S) BY <2>1, EvtqAssumption, FS_Subset
  <2> QED BY <2>2, FS_CardinalityType
<1>2. ASSUME w[e] # "SYNC", k = "SYNC" PROVE Cardinality(T) = Cardinality(S) + 1
  <2>1. T = S \cup {e} /\ e \notin S BY <1>2
  <2> HIDE DEF S, T
  <2> QED BY <1>1, <2>1, FS_AddElement
<1>3. ASSUME w[e] # "SYNC", k # "SYNC" PROVE T = S
  BY <1>3
<1>4. ASSUME w[e] = "SYNC", k # "SYNC" PROVE Cardinality(T) = Cardinality(S) - 1
  <2>1. T = S \ {e} /\ e \in S BY <1>4
  <2> HIDE DEF S, T
  <2> QED BY <1>1, <2>1, FS_RemoveElement
<1>5. GivenTo(w) = Cardinality(S) /\ GivenTo([w EXCEPT ![e] = k]) = Cardinality(T)
  BY DEF GivenTo
<1> HIDE DEF S, T
<1> QED BY <1>1, <1>2, <1>3, <1>4, <1>5

LEMMA GivenIsNat == SyncType => GivenTo(woken) \in Nat
<1> SUFFICES ASSUME SyncType PROVE Cardinality({x \in Edas : woken[x] = "SYNC"}) \in Nat
  BY DEF GivenTo
<1>1. {x \in Edas : woken[x] = "SYNC"} \in SUBSET Edas OBVIOUS
<1>2. IsFiniteSet({x \in Edas : woken[x] = "SYNC"}) BY <1>1, EvtqAssumption, FS_Subset
<1> QED BY <1>2, FS_CardinalityType

(* ----------------------- what the kernel does ------------------------- *)

\* An event is posted to an EDA that accepts it.
LEMMA Enqueued ==
    ASSUME KInv, NEW e \in Edas, NEW v \in Evts, Enqueue(e, v)
    PROVE  /\ evt_list[e] \in Seq(Evts) /\ evt_list'[e] = Append(evt_list[e], v)
           /\ \A x \in Edas \ {e} : evt_list'[x] = evt_list[x]
           /\ ReadyWhenListed => ReadyWhenListed'
<1>1. /\ evt_list \in [Edas -> Seq(Evts)] /\ is_ready \in [Edas -> BOOLEAN]
      /\ evt_list' = [evt_list EXCEPT ![e] = Append(@, v)]
      /\ is_ready' = [is_ready EXCEPT ![e] = TRUE]
  BY DEF KInv, KernelType, Enqueue
<1>2. is_ready'[e] /\ \A x \in Edas \ {e} : is_ready'[x] = is_ready[x]
  BY <1>1, Zenon
<1> QED BY <1>1, <1>2 DEF ReadyWhenListed

\* The EDA whose handler runs has one event in hand, which the handler takes.
LEMMA HandEmptied ==
    ASSUME KInv, NEW e \in Edas, Top # None, cur[Top] = e,
           evt' = [evt EXCEPT ![Top] = None], UNCHANGED cur
    PROVE  /\ evt' \in [Prios -> Evts \cup {None}]
           /\ \A k : InHand(cur, evt, e, k) <=> k = evt[Top]
           /\ \A k \in Signals : ~InHand(cur', evt', e, k)
           /\ \A x \in Edas \ {e} : \A k : InHand(cur', evt', x, k) <=> InHand(cur, evt, x, k)
<1> USE EvtqAssumption, SyncAssumption
<1> DEFINE q == Top
<1>1. KernelType /\ Polls BY DEF KInv
<1>2. q \in Prios
  <2>1. active \in Seq(Prios) /\ active # <<>> /\ q = active[Len(active)]
    BY <1>1 DEF KernelType, Top
  <2>2. Len(active) \in 1 .. Len(active) BY <2>1, EmptySeq, LenProperties
  <2>3. DOMAIN active = 1 .. Len(active) BY <2>1, LenProperties
  <2> QED BY <2>1, <2>2, <2>3, ElementOfSeq
<1>3. cur[q] = e /\ evt' = [evt EXCEPT ![q] = None] OBVIOUS
<1> HIDE DEF q
<1>4. \A r \in Prios : cur[r] = e <=> r = q
  BY <1>1, <1>2, <1>3 DEF Polls
<1>5. /\ evt' \in [Prios -> Evts \cup {None}]
      /\ evt'[q] = None /\ \A r \in Prios \ {q} : evt'[r] = evt[r]
  <2>1. evt \in [Prios -> Evts \cup {None}] BY <1>1 DEF KernelType
  <2> QED BY ONLY <1>2, <1>3, <2>1
<1>6. \A k : InHand(cur, evt, e, k) <=> k = evt[q]
  BY <1>2, <1>4 DEF InHand
<1>7. \A k \in Signals : ~InHand(cur', evt', e, k)
  <2>1. None \notin Signals BY DEF Signals, Tells
  <2> QED BY <1>4, <1>5, <2>1 DEF InHand
<1>8. ASSUME NEW x \in Edas \ {e}, NEW k
      PROVE  InHand(cur', evt', x, k) <=> InHand(cur, evt, x, k)
  BY <1>4, <1>5 DEF InHand
<1> QED BY <1>5, <1>6, <1>7, <1>8 DEF q

\* Taking the event out of the hand leaves the kernel's lists alone.
LEMMA HandledInv ==
    ASSUME KInv, evt' \in [Prios -> Evts \cup {None}], is_limitted' \in [Edas -> BOOLEAN],
           UNCHANGED <<queues, prios, cur, active>>
    PROVE  KInv'
  BY DEF KInv, KernelType, Lists, Polls, Deferrals, ReadyHasEvents, RaisedForHandler,
     IsCurrent, queues, prios

(* --------------------------- the operations --------------------------- *)

\* An EDA gets what is there (vsf_eda_sync.c:257-270).
LEMMA DecreaseNowInv ==
    ASSUME SInv, NEW e \in Edas, DecreaseNow(e), UNCHANGED manual_rst
    PROVE  Kept
<1> USE EvtqAssumption, SyncAssumption
<1>1. /\ KInv /\ SyncType /\ ReadyWhenListed /\ Waiters /\ Tellers /\ Events
      /\ UnitsConserved /\ cur_value > 0 /\ pending_list = <<>>
      /\ cur_value' = IF manual_rst THEN cur_value ELSE cur_value - 1
      /\ units' = IF manual_rst THEN units ELSE units - 1
      /\ UNCHANGED <<kernel, pending_list, is_sync_got, is_timed, st, wakes, woken, refused>>
  BY DEF SInv, DecreaseNow
<1>2. KInv' /\ UNCHANGED <<evt_list, is_ready, cur, evt, is_limitted>>
  BY <1>1, StutterInv DEF kernel, queues, polls
<1>3. SyncType'
  BY <1>1 DEF SyncType
<1>4. ReadyWhenListed' /\ Waiters' /\ Tellers' /\ Events' /\ (Complete => Complete')
  BY <1>1, <1>2 DEF ReadyWhenListed, Waiters, Tellers, Events, EventsOf, Complete
<1>5. UnitsConserved'
  <2>1. GivenTo(woken) \in Nat /\ cur_value \in Int /\ units \in Int
    BY <1>1, GivenIsNat DEF SyncType
  <2>2. ~manual_rst => units = cur_value + GivenTo(woken) BY <1>1 DEF UnitsConserved, GivenTo
  <2>3. ~manual_rst => units' = cur_value' + GivenTo(woken) BY <1>1, <2>1, <2>2
  <2> QED BY <1>1, <2>3 DEF UnitsConserved, GivenTo
<1>6. NobodyWaitsInVain'
  BY <1>1 DEF NobodyWaitsInVain
<1> QED BY <1>2, <1>3, <1>4, <1>5, <1>6 DEF SInv, Kept

\* An EDA waits, with a timeout or without (vsf_eda_sync.c:40-71).
LEMMA DecreasePendsInv ==
    ASSUME SInv, NEW e \in Edas, NEW timed \in BOOLEAN, DecreasePends(e, timed),
           UNCHANGED manual_rst
    PROVE  Kept
<1> USE EvtqAssumption, SyncAssumption
<1>1. /\ KInv /\ SyncType /\ ReadyWhenListed /\ Waiters /\ Tellers /\ Events
      /\ UnitsConserved /\ NobodyWaitsInVain
      /\ st[e] = "idle" /\ ~(cur_value > 0 /\ pending_list = <<>>)
      /\ pending_list' = Append(pending_list, e)
      /\ st' = [st EXCEPT ![e] = "waiting"]
      /\ is_timed' = [is_timed EXCEPT ![e] = timed]
      /\ is_limitted' = [is_limitted EXCEPT ![e] = @ \/ timed]
      /\ UNCHANGED <<queues, prios, polls, cur_value, is_sync_got, wakes, woken, units>>
  BY DEF SInv, DecreasePends, Calls
<1>2. UNCHANGED <<evt_list, is_ready, cur, evt>>
  BY <1>1 DEF queues, polls
<1>3. is_limitted \in [Edas -> BOOLEAN] /\ is_limitted' \in [Edas -> BOOLEAN]
  BY <1>1 DEF KInv, KernelType
<1>4. KInv'
  BY <1>1, <1>3, LimitInv
<1>5. ~Linked(pending_list, e) /\ woken[e] = None /\ ~is_limitted[e]
  BY <1>1 DEF Waiters
<1>6. /\ pending_list' \in Seq(Edas) /\ Once(pending_list')
      /\ \A x : Linked(pending_list', x) <=> Linked(pending_list, x) \/ x = e
  BY <1>1, <1>5, Appended DEF SyncType, Waiters
<1>7. st'[e] = "waiting" /\ \A x \in Edas \ {e} : st'[x] = st[x]
  BY <1>1 DEF SyncType
<1>8. is_timed'[e] = timed /\ \A x \in Edas \ {e} : is_timed'[x] = is_timed[x]
  BY <1>1 DEF SyncType
<1>9. (is_limitted'[e] <=> timed) /\ \A x \in Edas \ {e} : is_limitted'[x] = is_limitted[x]
  BY <1>1, <1>3, <1>5
<1>10. SyncType'
  BY <1>1, <1>6 DEF SyncType
<1>11. Waiters'
  BY <1>1, <1>5, <1>6, <1>7, <1>8, <1>9 DEF Waiters
<1>12. Tellers'
  BY <1>1, <1>7 DEF Tellers
<1>13. Events'
  <2>1. ~Linked(evt_list[e], "TIMER") /\ ~InHand(cur, evt, e, "TIMER")
    BY <1>1 DEF Events, EventsOf
  <2> QED BY <1>1, <1>2, <1>7, <1>8, <2>1 DEF Events, EventsOf
<1>14. ReadyWhenListed' /\ (Complete => Complete') /\ UnitsConserved'
  BY <1>1, <1>2 DEF ReadyWhenListed, Complete, UnitsConserved
<1>15. NobodyWaitsInVain'
  <2> SUFFICES ASSUME cur_value > 0 PROVE \E x \in Edas : st'[x] = "increasing"
    BY <1>1 DEF NobodyWaitsInVain
  <2>1. PICK x \in Edas : st[x] = "increasing" BY <1>1 DEF NobodyWaitsInVain
  <2>2. st'[x] = "increasing" BY <1>1, <1>7, <2>1
  <2> QED BY <2>2
<1> QED BY <1>4, <1>10, <1>11, <1>12, <1>13, <1>14, <1>15 DEF SInv, Kept

\* The first that waits is told: it is out of the list, and is owed its event by
\* the EDA that took it out.
LEMMA DequeueKeeps ==
    ASSUME SInv, NEW e \in Edas, NEW k \in Tells, pending_list # <<>>, Dequeue(e, k),
           st[e] # "waiting", wakes[e] = None,
           NEW doing \in {"increasing", "cancelling"}, st' = [st EXCEPT ![e] = doing],
           UNCHANGED <<kernel, is_timed>>
    PROVE  /\ KInv' /\ ReadyWhenListed' /\ Waiters' /\ Tellers' /\ Events'
           /\ Complete => Complete'
           /\ pending_list' \in Seq(Edas) /\ is_sync_got' \in [Edas -> BOOLEAN]
           /\ st' \in [Edas -> {"idle", "waiting", "increasing", "cancelling"}]
           /\ wakes' \in [Edas -> Edas \cup {None}] /\ woken' \in [Edas -> Tells \cup {None}]
           /\ GivenTo(woken') = GivenTo(woken) + (IF k = "SYNC" THEN 1 ELSE 0)
<1> USE EvtqAssumption, SyncAssumption
<1> DEFINE h == Head(pending_list)
<1>1. /\ KInv /\ SyncType /\ ReadyWhenListed /\ Waiters /\ Tellers /\ Events
      /\ pending_list' = Tail(pending_list)
      /\ is_sync_got' = [is_sync_got EXCEPT ![h] = TRUE]
      /\ wakes' = [wakes EXCEPT ![e] = h]
      /\ woken' = [woken EXCEPT ![h] = k]
  BY DEF SInv, Dequeue
<1>2. KInv' /\ UNCHANGED <<evt_list, is_ready, cur, evt, is_limitted, is_timed>>
  BY <1>1, StutterInv DEF kernel, queues, polls
<1>3. /\ h \in Edas /\ Linked(pending_list, h)
      /\ pending_list' \in Seq(Edas) /\ Once(pending_list')
      /\ \A x : Linked(pending_list', x) <=> Linked(pending_list, x) /\ x # h
  BY <1>1, HeadUnlinked DEF SyncType, Waiters
<1> HIDE DEF h
<1>4. st[h] = "waiting" /\ woken[h] = None /\ h # e
  BY <1>1, <1>3 DEF Waiters
<1>5. ~Owed(wakes, h)
  BY <1>1, <1>3, <1>4 DEF Tellers, Owed
<1>6. k # None
  BY DEF Tells
<1>7. st'[e] = doing /\ \A x \in Edas \ {e} : st'[x] = st[x]
  BY <1>1 DEF SyncType
<1>8. woken'[h] = k /\ \A x \in Edas \ {h} : woken'[x] = woken[x]
  BY <1>1, <1>3 DEF SyncType
<1>9. wakes'[e] = h /\ \A x \in Edas \ {e} : wakes'[x] = wakes[x]
  BY <1>1 DEF SyncType
<1>10. is_sync_got'[h] /\ \A x \in Edas \ {h} : is_sync_got'[x] = is_sync_got[x]
  BY <1>1, <1>3, Zenon DEF SyncType
<1>11. \A x \in Edas : Owed(wakes', x) <=> Owed(wakes, x) \/ x = h
  <2> SUFFICES ASSUME NEW x \in Edas PROVE Owed(wakes', x) <=> Owed(wakes, x) \/ x = h
    OBVIOUS
  <2>1. ASSUME NEW y \in Edas, wakes[y] = x PROVE Owed(wakes', x)
    <3>1. y # e BY <2>1
    <3> QED BY <1>9, <2>1, <3>1 DEF Owed
  <2>2. ASSUME NEW y \in Edas, wakes'[y] = x PROVE Owed(wakes, x) \/ x = h
    BY <1>9, <2>2 DEF Owed
  <2> QED BY <1>9, <2>1, <2>2 DEF Owed
<1>12. Waiters'
  <2> SUFFICES ASSUME NEW x \in Edas
               PROVE  /\ Linked(pending_list', x) <=> st'[x] = "waiting" /\ woken'[x] = None
                      /\ woken'[x] # None => st'[x] = "waiting" /\ is_sync_got'[x]
                      /\ is_timed[x] => st'[x] = "waiting" /\ is_limitted[x]
                      /\ is_limitted[x] => st'[x] = "waiting"
    BY <1>2, <1>3 DEF Waiters
  <2>1. CASE x = h BY <1>1, <1>3, <1>4, <1>6, <1>7, <1>8, <1>10, <2>1 DEF Waiters
  <2>2. CASE x = e BY <1>1, <1>3, <1>4, <1>7, <1>8, <2>2 DEF Waiters
  <2>3. CASE x # h /\ x # e BY <1>1, <1>3, <1>7, <1>8, <1>10, <2>3 DEF Waiters
  <2> QED BY <2>1, <2>2, <2>3
<1>13. Tellers'
  <2> SUFFICES ASSUME NEW x \in Edas, wakes'[x] # None
               PROVE  /\ st'[x] \in {"increasing", "cancelling"}
                      /\ woken'[wakes'[x]] # None
                      /\ \A y \in Edas : wakes'[y] = wakes'[x] => y = x
    BY DEF Tellers
  <2>1. CASE x = e
    <3>1. \A y \in Edas \ {e} : wakes'[y] # h BY <1>5, <1>9 DEF Owed
    <3> QED BY <1>6, <1>7, <1>8, <1>9, <2>1, <3>1
  <2>2. CASE x # e
    <3>1. /\ wakes[x] # None /\ st[x] \in {"increasing", "cancelling"}
          /\ woken[wakes[x]] # None /\ wakes[x] # h /\ wakes[x] \in Edas
          /\ \A y \in Edas : wakes[y] = wakes[x] => y = x
      BY <1>1, <1>5, <1>9, <2>2 DEF Tellers, SyncType, Owed
    <3> QED BY <1>7, <1>8, <1>9, <2>2, <3>1
  <2> QED BY <2>1, <2>2
<1>14. \A l \in Tells : ~Linked(evt_list[h], l) /\ ~InHand(cur, evt, h, l)
  <2>1. None \notin Tells BY DEF Tells
  <2> QED BY <1>1, <1>3, <1>4, <2>1 DEF Events, EventsOf
<1>15. ~Linked(evt_list[e], "TIMER") /\ ~InHand(cur, evt, e, "TIMER")
  BY <1>1 DEF Events, EventsOf
<1>16. Events'
  BY <1>1, <1>2, <1>4, <1>7, <1>8, <1>11, <1>14, <1>15 DEF Events, EventsOf
<1>17. ReadyWhenListed'
  BY <1>1, <1>2 DEF ReadyWhenListed
<1>18. Complete => Complete'
  BY <1>2, <1>8, <1>11 DEF Complete
<1>19. GivenTo(woken') = GivenTo(woken) + (IF k = "SYNC" THEN 1 ELSE 0)
  <2>1. /\ GivenTo(woken) \in Nat
        /\ k = "SYNC" => GivenTo(woken') = GivenTo(woken) + 1
        /\ k # "SYNC" => GivenTo(woken') = GivenTo(woken)
    <3>1. woken \in [Edas -> Tells \cup {None}] /\ k \in Tells \cup {None} /\ woken[h] # "SYNC"
      BY <1>1, <1>4 DEF SyncType
    <3>2. woken' = [woken EXCEPT ![h] = k] /\ h \in Edas BY <1>1, <1>3
    <3> QED BY ONLY <3>1, <3>2, Given
  <2> QED BY <2>1
<1>20. /\ is_sync_got' \in [Edas -> BOOLEAN]
       /\ st' \in [Edas -> {"idle", "waiting", "increasing", "cancelling"}]
       /\ wakes' \in [Edas -> Edas \cup {None}] /\ woken' \in [Edas -> Tells \cup {None}]
  BY <1>1, <1>3 DEF SyncType
<1> QED BY <1>2, <1>3, <1>12, <1>13, <1>16, <1>17, <1>18, <1>19, <1>20

\* An EDA that owes no event has nothing more to do.
LEMMA StopKeeps ==
    ASSUME SInv, NEW e \in Edas, st[e] # "waiting", wakes[e] = None,
           st' = [st EXCEPT ![e] = "idle"],
           UNCHANGED <<kernel, is_timed, pending_list, is_sync_got, wakes, woken>>
    PROVE  /\ KInv' /\ ReadyWhenListed' /\ Waiters' /\ Tellers' /\ Events'
           /\ Complete => Complete'
           /\ st' \in [Edas -> {"idle", "waiting", "increasing", "cancelling"}]
<1>1. KInv /\ SyncType /\ ReadyWhenListed /\ Waiters /\ Tellers /\ Events
  BY DEF SInv
<1>2. KInv' /\ UNCHANGED <<evt_list, is_ready, cur, evt, is_limitted>>
  BY <1>1, StutterInv DEF kernel, queues, polls
<1>3. /\ st' \in [Edas -> {"idle", "waiting", "increasing", "cancelling"}]
      /\ st'[e] = "idle" /\ \A x \in Edas \ {e} : st'[x] = st[x]
  BY <1>1 DEF SyncType
<1>4. Waiters'
  BY <1>1, <1>2, <1>3 DEF Waiters
<1>5. Tellers'
  BY <1>1, <1>3 DEF Tellers
<1>6. Events'
  BY <1>1, <1>2, <1>3 DEF Events, EventsOf
<1>7. ReadyWhenListed' /\ (Complete => Complete')
  BY <1>1, <1>2 DEF ReadyWhenListed, Complete
<1> QED BY <1>2, <1>3, <1>4, <1>5, <1>6, <1>7

\* One round of an increase: a unit is handed to the first that waits, or kept
\* (vsf_eda_sync.c:201-215).
LEMMA HandOneInv ==
    ASSUME SInv, NEW e \in Edas, st[e] # "waiting", wakes[e] = None,
           NEW value \in 0 .. MaxValue, HandOne(e, value),
           units' = units + (value - cur_value),
           UNCHANGED <<kernel, is_timed, manual_rst>>
    PROVE  Kept
<1> USE EvtqAssumption, SyncAssumption
<1>1. SyncType /\ UnitsConserved
  BY DEF SInv
<1>2. /\ value \in Nat /\ cur_value \in Nat /\ units \in Int /\ units' \in Int
      /\ GivenTo(woken) \in Nat
  BY <1>1, GivenIsNat DEF SyncType
<1>3. ~manual_rst => units = cur_value + GivenTo(woken)
  BY <1>1 DEF UnitsConserved, GivenTo
<1>4. CASE value > 0 /\ pending_list # <<>>
  <2>1. /\ Dequeue(e, "SYNC") /\ st' = [st EXCEPT ![e] = "increasing"]
        /\ cur_value' = IF manual_rst THEN value ELSE value - 1
    BY <1>4 DEF HandOne
  <2>2. /\ KInv' /\ ReadyWhenListed' /\ Waiters' /\ Tellers' /\ Events'
        /\ Complete => Complete'
        /\ pending_list' \in Seq(Edas) /\ is_sync_got' \in [Edas -> BOOLEAN]
        /\ st' \in [Edas -> {"idle", "waiting", "increasing", "cancelling"}]
        /\ wakes' \in [Edas -> Edas \cup {None}] /\ woken' \in [Edas -> Tells \cup {None}]
        /\ GivenTo(woken') = GivenTo(woken) + 1
    <3>1. "SYNC" \in Tells /\ "increasing" \in {"increasing", "cancelling"} BY DEF Tells
    <3> QED BY <1>4, <2>1, <3>1, DequeueKeeps
  <2>3. cur_value' \in 0 .. MaxValue BY <1>2, <1>4, <2>1
  <2>4. SyncType' BY <1>1, <1>2, <2>2, <2>3 DEF SyncType
  <2>5. UnitsConserved'
    <3>1. ~manual_rst => units' = cur_value' + GivenTo(woken')
      BY <1>2, <1>3, <2>1, <2>2
    <3> QED BY <3>1 DEF UnitsConserved, GivenTo
  <2>6. NobodyWaitsInVain'
    <3>1. st'[e] = "increasing" BY <1>1, <2>1 DEF SyncType
    <3> QED BY <3>1 DEF NobodyWaitsInVain
  <2> QED BY <2>2, <2>4, <2>5, <2>6 DEF SInv, Kept
<1>5. CASE ~(value > 0 /\ pending_list # <<>>)
  <2>1. /\ cur_value' = value /\ st' = [st EXCEPT ![e] = "idle"]
        /\ UNCHANGED <<pending_list, is_sync_got, wakes, woken>>
    BY <1>5 DEF HandOne
  <2>2. /\ KInv' /\ ReadyWhenListed' /\ Waiters' /\ Tellers' /\ Events'
        /\ Complete => Complete'
        /\ st' \in [Edas -> {"idle", "waiting", "increasing", "cancelling"}]
    BY <2>1, StopKeeps
  <2>3. SyncType' BY <1>1, <1>2, <2>1, <2>2 DEF SyncType
  <2>4. UnitsConserved'
    <3>1. ~manual_rst => units' = cur_value' + GivenTo(woken)
      BY <1>2, <1>3, <2>1
    <3> QED BY <2>1, <3>1 DEF UnitsConserved, GivenTo
  <2>5. NobodyWaitsInVain' BY <1>5, <2>1 DEF NobodyWaitsInVain
  <2> QED BY <2>2, <2>3, <2>4, <2>5 DEF SInv, Kept
<1> QED BY <1>4, <1>5

\* An increase, and the next round of it when the lock is taken again.
LEMMA IncreaseInv ==
    ASSUME SInv, NEW e \in Edas, Increase(e) \/ IncreaseAgain(e), UNCHANGED manual_rst
    PROVE  Kept
<1> USE EvtqAssumption, SyncAssumption
<1>1. SyncType /\ Tellers /\ cur_value \in Nat /\ cur_value \in 0 .. MaxValue /\ units \in Int
  BY DEF SInv, SyncType
<1>2. CASE Increase(e)
  <2>1. /\ st[e] = "idle" /\ cur_value < MaxValue /\ HandOne(e, cur_value + 1)
        /\ units' = units + 1 /\ UNCHANGED <<kernel, is_timed, refused>>
    BY <1>2 DEF Increase, Calls
  <2>2. wakes[e] = None BY <1>1, <2>1 DEF Tellers
  <2>3. cur_value + 1 \in 0 .. MaxValue /\ units' = units + ((cur_value + 1) - cur_value)
    BY <1>1, <2>1
  <2> QED BY <2>1, <2>2, <2>3, HandOneInv
<1>3. CASE IncreaseAgain(e)
  <2>1. /\ st[e] = "increasing" /\ wakes[e] = None /\ HandOne(e, cur_value)
        /\ UNCHANGED <<kernel, is_timed, units, refused>>
    BY <1>3 DEF IncreaseAgain
  <2>2. units' = units + (cur_value - cur_value) BY <1>1, <2>1
  <2> QED BY <1>1, <2>1, <2>2, HandOneInv
<1> QED BY <1>2, <1>3

\* A cancellation tells all that wait, one in each round (vsf_eda_sync.c:308-327).
LEMMA CancelInv ==
    ASSUME SInv, NEW e \in Edas, Cancel(e) \/ CancelAgain(e), UNCHANGED manual_rst
    PROVE  Kept
<1> USE EvtqAssumption, SyncAssumption
<1>1. /\ SyncType /\ Tellers /\ UnitsConserved /\ NobodyWaitsInVain
      /\ CancelOne(e) /\ st[e] \in {"idle", "cancelling"} /\ wakes[e] = None
      /\ UNCHANGED <<kernel, cur_value, is_timed, units, refused>>
  BY DEF SInv, Cancel, CancelAgain, Calls, Tellers
<1>2. GivenTo(woken) \in Nat
  BY <1>1, GivenIsNat
<1>3. CASE pending_list # <<>>
  <2>1. Dequeue(e, "SYNC_CANCEL") /\ st' = [st EXCEPT ![e] = "cancelling"]
    BY <1>1, <1>3 DEF CancelOne
  <2>2. /\ KInv' /\ ReadyWhenListed' /\ Waiters' /\ Tellers' /\ Events'
        /\ Complete => Complete'
        /\ pending_list' \in Seq(Edas) /\ is_sync_got' \in [Edas -> BOOLEAN]
        /\ st' \in [Edas -> {"idle", "waiting", "increasing", "cancelling"}]
        /\ wakes' \in [Edas -> Edas \cup {None}] /\ woken' \in [Edas -> Tells \cup {None}]
        /\ GivenTo(woken') = GivenTo(woken) + 0
    <3>1. /\ "SYNC_CANCEL" \in Tells /\ "cancelling" \in {"increasing", "cancelling"}
          /\ "SYNC_CANCEL" # "SYNC"
      BY DEF Tells
    <3> QED BY <1>1, <1>3, <2>1, <3>1, DequeueKeeps
  <2>3. SyncType' BY <1>1, <2>2 DEF SyncType
  <2>4. UnitsConserved' BY <1>1, <1>2, <2>2 DEF UnitsConserved, GivenTo
  <2>5. NobodyWaitsInVain'
    <3> SUFFICES ASSUME cur_value > 0 PROVE \E x \in Edas : st'[x] = "increasing"
      BY <1>1 DEF NobodyWaitsInVain
    <3>1. PICK x \in Edas : st[x] = "increasing" BY <1>1, <1>3 DEF NobodyWaitsInVain
    <3>2. st'[x] = "increasing" BY <1>1, <2>1, <3>1 DEF SyncType
    <3> QED BY <3>2
  <2> QED BY <2>2, <2>3, <2>4, <2>5 DEF SInv, Kept
<1>4. CASE pending_list = <<>>
  <2>1. /\ st' = [st EXCEPT ![e] = "idle"]
        /\ UNCHANGED <<pending_list, is_sync_got, wakes, woken>>
    BY <1>1, <1>4 DEF CancelOne
  <2>2. /\ KInv' /\ ReadyWhenListed' /\ Waiters' /\ Tellers' /\ Events'
        /\ Complete => Complete'
        /\ st' \in [Edas -> {"idle", "waiting", "increasing", "cancelling"}]
    BY <1>1, <2>1, StopKeeps
  <2>3. SyncType' /\ UnitsConserved' /\ NobodyWaitsInVain'
    BY <1>1, <1>4, <2>1, <2>2 DEF SyncType, UnitsConserved, NobodyWaitsInVain
  <2> QED BY <2>2, <2>3 DEF SInv, Kept
<1> QED BY <1>3, <1>4

\* The value is set back, and nobody is told (vsf_eda_sync.c:240-246).
LEMMA ForceResetInv ==
    ASSUME SInv, NEW e \in Edas, ForceReset(e), UNCHANGED manual_rst
    PROVE  Kept
<1> USE SyncAssumption
<1>1. /\ KInv /\ SyncType /\ ReadyWhenListed /\ Waiters /\ Tellers /\ Events /\ UnitsConserved
      /\ cur_value' = 0 /\ units' = units - cur_value
      /\ UNCHANGED <<kernel, pending_list, is_sync_got, is_timed, st, wakes, woken, refused>>
  BY DEF SInv, ForceReset
<1>2. KInv' /\ UNCHANGED <<evt_list, is_ready, cur, evt, is_limitted>>
  BY <1>1, StutterInv DEF kernel, queues, polls
<1>3. SyncType'
  BY <1>1 DEF SyncType
<1>4. ReadyWhenListed' /\ Waiters' /\ Tellers' /\ Events' /\ (Complete => Complete')
  BY <1>1, <1>2 DEF ReadyWhenListed, Waiters, Tellers, Events, EventsOf, Complete
<1>5. UnitsConserved'
  <2>1. GivenTo(woken) \in Nat /\ cur_value \in Int /\ units \in Int
    BY <1>1, GivenIsNat DEF SyncType
  <2>2. ~manual_rst => units = cur_value + GivenTo(woken) BY <1>1 DEF UnitsConserved, GivenTo
  <2>3. ~manual_rst => units' = cur_value' + GivenTo(woken) BY <1>1, <2>1, <2>2
  <2> QED BY <1>1, <2>3 DEF UnitsConserved, GivenTo
<1>6. NobodyWaitsInVain'
  BY <1>1 DEF NobodyWaitsInVain
<1> QED BY <1>2, <1>3, <1>4, <1>5, <1>6 DEF SInv, Kept

\* The event that is owed is posted (vsf_eda_sync.c:217-220). Forced, it is refused
\* only for want of a node.
LEMMA PostWakeInv ==
    ASSUME SInv, NEW e \in Edas, PostWake(e), UNCHANGED manual_rst
    PROVE  Kept
<1> USE EvtqAssumption, SyncAssumption
<1> DEFINE f == wakes[e]
           k == woken[f]
<1>1. /\ KInv /\ SyncType /\ ReadyWhenListed /\ Waiters /\ Tellers /\ Events
      /\ UnitsConserved /\ NobodyWaitsInVain
      /\ f # None /\ Post(f, k, TRUE) /\ wakes' = [wakes EXCEPT ![e] = None]
      /\ UNCHANGED <<cur_value, pending_list, is_sync_got, is_timed, st, woken, units>>
  BY DEF SInv, PostWake, sync, ghosts
<1>2. f \in Edas /\ k # None
  BY <1>1 DEF SyncType, Tellers
<1>3. k \in Tells
  BY <1>1, <1>2 DEF SyncType
<1>4. Owed(wakes, f)
  BY DEF Owed
<1>5. /\ wakes' \in [Edas -> Edas \cup {None}]
      /\ wakes'[e] = None /\ \A x \in Edas \ {e} : wakes'[x] = wakes[x]
  BY <1>1 DEF SyncType
<1>6. \A x \in Edas : Owed(wakes', x) <=> Owed(wakes, x) /\ x # f
  BY <1>1, <1>2, <1>5 DEF Owed, Tellers
<1>7. k = woken[f]
  OBVIOUS
<1> HIDE DEF f, k
<1>8. k \in Evts /\ k # "TIMER"
  BY <1>3 DEF Tells
<1>9. KInv' /\ UNCHANGED <<cur, evt, is_limitted>>
  BY <1>1, <1>2, <1>8, PostInv DEF Post, polls
<1>10. SyncType' /\ Waiters' /\ UnitsConserved' /\ NobodyWaitsInVain'
  BY <1>1, <1>5, <1>9 DEF SyncType, Waiters, UnitsConserved, NobodyWaitsInVain
<1>11. Tellers'
  BY <1>1, <1>5 DEF Tellers
<1>12. \A l \in Tells : ~Linked(evt_list[f], l) /\ ~InHand(cur, evt, f, l)
  BY <1>1, <1>2, <1>4 DEF Events, EventsOf
<1>13. ASSUME UNCHANGED queues PROVE ReadyWhenListed' /\ Events'
  <2>1. UNCHANGED <<evt_list, is_ready>> BY <1>13 DEF queues
  <2> QED BY <1>1, <1>6, <1>9, <2>1 DEF Events, EventsOf, ReadyWhenListed
<1>14. ASSUME Enqueue(f, k) PROVE ReadyWhenListed' /\ Events' /\ (Complete => Complete')
  <2>1. /\ evt_list[f] \in Seq(Evts) /\ evt_list'[f] = Append(evt_list[f], k)
        /\ \A x \in Edas \ {f} : evt_list'[x] = evt_list[x]
        /\ ReadyWhenListed'
    BY <1>1, <1>2, <1>8, <1>14, Enqueued
  <2>2. /\ ListOK(evt_list'[f])
        /\ \A x : Linked(evt_list'[f], x) <=> Linked(evt_list[f], x) \/ x = k
    <3>1. ListOK(evt_list[f]) BY <1>1, <1>2 DEF Events, EventsOf
    <3>2. ~Linked(evt_list[f], k) BY <1>3, <1>12
    <3> QED BY <1>8, <2>1, <3>1, <3>2, ListAppended
  <2>3. Events'
    <3> SUFFICES ASSUME NEW x \in Edas PROVE EventsOf(x)'
      BY DEF Events
    <3>1. CASE x = f
      BY <1>1, <1>2, <1>6, <1>7, <1>8, <1>9, <1>12, <2>2, <3>1 DEF Events, EventsOf
    <3>2. CASE x # f
      <4>1. evt_list'[x] = evt_list[x] /\ (Owed(wakes', x) <=> Owed(wakes, x))
        BY <1>6, <2>1, <3>2
      <4> QED BY <1>1, <1>9, <4>1 DEF Events, EventsOf
    <3> QED BY <3>1, <3>2
  <2>4. Complete => Complete'
    <3> SUFFICES ASSUME Complete, NEW x \in Edas, woken[x] # None
                 PROVE  \/ Owed(wakes', x)
                        \/ \E l \in Tells : Linked(evt_list'[x], l) \/ InHand(cur, evt, x, l)
      BY <1>1, <1>9 DEF Complete
    <3>1. CASE x = f BY <1>3, <2>2, <3>1
    <3>2. CASE x # f BY <1>6, <2>1, <3>2 DEF Complete
    <3> QED BY <3>1, <3>2
  <2> QED BY <2>1, <2>3, <2>4
<1>15. Enqueue(f, k) \/ UNCHANGED queues
  BY <1>1 DEF Post
<1>16. NodesUsed < NodeCnt => Enqueue(f, k)
  BY <1>1 DEF Post, Accepts
<1>17. SInv'
  BY <1>9, <1>10, <1>11, <1>13, <1>14, <1>15 DEF SInv
<1> QED BY <1>14, <1>16, <1>17 DEF Kept

\* A handler takes VSF_EVT_TIMER (vsf_eda_sync.c:116-124): its EDA leaves the list,
\* or goes on waiting for what it was told.
LEMMA TimedOutInv ==
    ASSUME SInv, NEW e \in Edas, TimedOut(e), UNCHANGED manual_rst
    PROVE  Kept
<1> USE EvtqAssumption, SyncAssumption
<1>1. /\ KInv /\ SyncType /\ ReadyWhenListed /\ Waiters /\ Tellers /\ Events
      /\ UnitsConserved /\ NobodyWaitsInVain
      /\ Top # None /\ cur[Top] = e /\ st[e] = "waiting" /\ evt[Top] = "TIMER"
      /\ evt' = [evt EXCEPT ![Top] = None]
      /\ UNCHANGED <<queues, prios, cur, active, cur_value, is_sync_got, is_timed, wakes,
                     woken, units>>
  BY DEF SInv, TimedOut, Runs, Handled, ghosts
<1>2. /\ evt' \in [Prios -> Evts \cup {None}]
      /\ \A k : InHand(cur, evt, e, k) <=> k = evt[Top]
      /\ \A k \in Signals : ~InHand(cur', evt', e, k)
      /\ \A x \in Edas \ {e} : \A k : InHand(cur', evt', x, k) <=> InHand(cur, evt, x, k)
  BY <1>1, HandEmptied
<1>3. /\ InHand(cur, evt, e, "TIMER") /\ ~Linked(evt_list[e], "TIMER") /\ ~is_timed[e]
      /\ \A k \in Tells : ~InHand(cur, evt, e, k)
  BY <1>1, <1>2 DEF Events, EventsOf, Tells
<1>4. UNCHANGED <<evt_list, is_ready>>
  BY <1>1 DEF queues
<1>5. is_limitted \in [Edas -> BOOLEAN]
  BY <1>1 DEF KInv, KernelType
<1>6. ReadyWhenListed' /\ UnitsConserved'
  BY <1>1, <1>4 DEF ReadyWhenListed, UnitsConserved
<1>7. "TIMER" \in Signals /\ Tells \subseteq Signals
  BY DEF Signals
<1>8. Complete => Complete'
  BY <1>1, <1>2, <1>3, <1>4, <1>7 DEF Complete
<1>9. ASSUME \A x \in Edas \ {e} : st'[x] = st[x] PROVE Events'
  <2> SUFFICES ASSUME NEW x \in Edas PROVE EventsOf(x)'
    BY DEF Events
  <2>1. EventsOf(x) BY <1>1 DEF Events
  <2>2. CASE x = e BY <1>1, <1>2, <1>3, <1>4, <1>7, <2>1, <2>2 DEF EventsOf
  <2>3. CASE x # e BY <1>1, <1>2, <1>4, <1>9, <2>1, <2>3 DEF EventsOf
  <2> QED BY <2>2, <2>3
<1>10. CASE is_sync_got[e]
  <2>1. UNCHANGED <<pending_list, st, is_limitted>>
    BY <1>10 DEF TimedOut
  <2>2. KInv' BY <1>1, <1>2, <1>5, <2>1, HandledInv
  <2>3. SyncType' /\ Waiters' /\ Tellers' /\ NobodyWaitsInVain'
    BY <1>1, <2>1 DEF SyncType, Waiters, Tellers, NobodyWaitsInVain
  <2> QED BY <1>6, <1>8, <1>9, <2>1, <2>2, <2>3 DEF SInv, Kept
<1>11. CASE ~is_sync_got[e]
  <2>1. /\ pending_list' = Unlink(pending_list, e)
        /\ st' = [st EXCEPT ![e] = "idle"]
        /\ is_limitted' = [is_limitted EXCEPT ![e] = FALSE]
    BY <1>11 DEF TimedOut, WaitEnds
  <2>2. is_limitted' \in [Edas -> BOOLEAN] BY <1>5, <2>1
  <2>3. KInv' BY <1>1, <1>2, <2>2, HandledInv
  <2>4. woken[e] = None /\ Linked(pending_list, e)
    BY <1>1, <1>11 DEF Waiters
  <2>5. /\ pending_list' \in Seq(Edas) /\ Once(pending_list')
        /\ \A x : Linked(pending_list', x) <=> Linked(pending_list, x) /\ x # e
    BY <1>1, <2>1, <2>4, Unlinked DEF SyncType, Waiters
  <2>6. st'[e] = "idle" /\ \A x \in Edas \ {e} : st'[x] = st[x]
    BY <1>1, <2>1 DEF SyncType
  <2>7. ~is_limitted'[e] /\ \A x \in Edas \ {e} : is_limitted'[x] = is_limitted[x]
    BY <1>5, <2>1
  <2>8. SyncType' BY <1>1, <2>1, <2>5 DEF SyncType
  <2>9. Waiters' BY <1>1, <1>3, <2>4, <2>5, <2>6, <2>7 DEF Waiters
  <2>10. Tellers' BY <1>1, <2>6 DEF Tellers
  <2>11. NobodyWaitsInVain'
    <3> SUFFICES ASSUME cur_value > 0 PROVE \E x \in Edas : st'[x] = "increasing"
      BY <1>1 DEF NobodyWaitsInVain
    <3>1. pending_list # <<>> BY <2>4 DEF Linked
    <3>2. PICK x \in Edas : st[x] = "increasing" BY <1>1, <3>1 DEF NobodyWaitsInVain
    <3>3. st'[x] = "increasing" BY <1>1, <2>6, <3>2
    <3> QED BY <3>3
  <2> QED BY <1>6, <1>8, <1>9, <2>3, <2>6, <2>8, <2>9, <2>10, <2>11 DEF SInv, Kept
<1> QED BY <1>10, <1>11

\* A handler takes what its EDA was told (vsf_eda_sync.c:125-139): with it, the
\* timer and the limit, nothing of the wait is left.
LEMMA GotInv ==
    ASSUME SInv, NEW e \in Edas, Got(e), UNCHANGED manual_rst
    PROVE  Kept
<1> USE EvtqAssumption, SyncAssumption
<1> DEFINE k == evt[Top]
<1>1. /\ KInv /\ SyncType /\ ReadyWhenListed /\ Waiters /\ Tellers /\ Events
      /\ UnitsConserved /\ NobodyWaitsInVain
      /\ Top # None /\ cur[Top] = e /\ st[e] = "waiting" /\ k \in Tells
      /\ st' = [st EXCEPT ![e] = "idle"]
      /\ is_limitted' = [is_limitted EXCEPT ![e] = FALSE]
      /\ evt' = [evt EXCEPT ![Top] = None]
      /\ is_timed' = [is_timed EXCEPT ![e] = FALSE]
      /\ woken' = [woken EXCEPT ![e] = None]
      /\ units' = IF k = "SYNC" /\ ~manual_rst THEN units - 1 ELSE units
      /\ UNCHANGED <<queues, prios, cur, active, cur_value, pending_list, is_sync_got, wakes>>
  BY DEF SInv, Got, Runs, Handled, WaitEnds, sync, Tells
<1>2. /\ evt' \in [Prios -> Evts \cup {None}]
      /\ \A l : InHand(cur, evt, e, l) <=> l = k
      /\ \A l \in Signals : ~InHand(cur', evt', e, l)
      /\ \A x \in Edas \ {e} : \A l : InHand(cur', evt', x, l) <=> InHand(cur, evt, x, l)
  BY <1>1, HandEmptied
<1> HIDE DEF k
<1>3. woken[e] = k /\ ~Owed(wakes, e) /\ \A l \in Signals : ~Linked(evt_list[e], l)
  BY <1>1, <1>2 DEF Events, EventsOf
<1>4. k # None /\ None # "SYNC"
  BY <1>1 DEF Tells
<1>5. UNCHANGED <<evt_list, is_ready>>
  BY <1>1 DEF queues
<1>6. is_limitted \in [Edas -> BOOLEAN]
  BY <1>1 DEF KInv, KernelType
<1>7. is_limitted' \in [Edas -> BOOLEAN]
  BY <1>1, <1>6
<1>8. KInv'
  BY <1>1, <1>2, <1>7, HandledInv
<1>9. st'[e] = "idle" /\ \A x \in Edas \ {e} : st'[x] = st[x]
  BY <1>1 DEF SyncType
<1>10. ~is_limitted'[e] /\ \A x \in Edas \ {e} : is_limitted'[x] = is_limitted[x]
  BY <1>1, <1>6
<1>11. ~is_timed'[e] /\ \A x \in Edas \ {e} : is_timed'[x] = is_timed[x]
  BY <1>1 DEF SyncType
<1>12. woken'[e] = None /\ \A x \in Edas \ {e} : woken'[x] = woken[x]
  BY <1>1 DEF SyncType
<1>13. SyncType'
  BY <1>1 DEF SyncType
<1>14. ReadyWhenListed'
  BY <1>1, <1>5 DEF ReadyWhenListed
<1>15. Waiters'
  BY <1>1, <1>3, <1>4, <1>9, <1>10, <1>11, <1>12 DEF Waiters
<1>16. Tellers'
  <2>1. \A x \in Edas : wakes[x] # e BY <1>3 DEF Owed
  <2> QED BY <1>1, <1>9, <1>12, <2>1 DEF Tellers, SyncType
<1>17. "TIMER" \in Signals /\ Tells \subseteq Signals
  BY DEF Signals
<1>18. Events'
  <2> SUFFICES ASSUME NEW x \in Edas PROVE EventsOf(x)'
    BY DEF Events
  <2>1. EventsOf(x) BY <1>1 DEF Events
  <2>2. CASE x = e BY <1>1, <1>2, <1>3, <1>5, <1>17, <2>1, <2>2 DEF EventsOf
  <2>3. CASE x # e BY <1>1, <1>2, <1>5, <1>9, <1>11, <1>12, <2>1, <2>3 DEF EventsOf
  <2> QED BY <2>2, <2>3
<1>19. Complete => Complete'
  BY <1>1, <1>2, <1>5, <1>12 DEF Complete
<1>20. UnitsConserved'
  <2> SUFFICES ASSUME ~manual_rst PROVE units' = cur_value + GivenTo(woken')
    BY <1>1 DEF UnitsConserved, GivenTo
  <2>1. woken \in [Edas -> Tells \cup {None}] BY <1>1 DEF SyncType
  <2>2. /\ GivenTo(woken) \in Nat
        /\ k = "SYNC" => GivenTo(woken') = GivenTo(woken) - 1
        /\ k # "SYNC" => GivenTo(woken') = GivenTo(woken)
    <3>1. None \in Tells \cup {None} /\ woken' = [woken EXCEPT ![e] = None] BY <1>1
    <3>2. k # "SYNC" => woken[e] # "SYNC" BY <1>3, <1>4
    <3>3. k = "SYNC" => woken[e] = "SYNC" BY <1>3, <1>4
    <3>4. None # "SYNC" BY EvtqAssumption, SyncAssumption
    <3> QED BY ONLY <2>1, <3>1, <3>2, <3>3, <3>4, e \in Edas, Given
  <2>3. units = cur_value + GivenTo(woken) BY <1>1 DEF UnitsConserved, GivenTo
  <2>4. cur_value \in Int /\ units \in Int BY <1>1 DEF SyncType
  <2> QED BY <1>1, <2>2, <2>3, <2>4
<1>21. NobodyWaitsInVain'
  <2> SUFFICES ASSUME cur_value > 0, pending_list # <<>>
               PROVE  \E x \in Edas : st'[x] = "increasing"
    BY <1>1 DEF NobodyWaitsInVain
  <2>1. PICK x \in Edas : st[x] = "increasing" BY <1>1 DEF NobodyWaitsInVain
  <2>2. st'[x] = "increasing" BY <1>1, <1>9, <2>1
  <2> QED BY <2>2
<1> QED BY <1>8, <1>13, <1>14, <1>15, <1>16, <1>18, <1>19, <1>20, <1>21 DEF SInv, Kept

\* A timer is due (vsf_eda.c:1013-1060). Its EDA waits and is limited to one event:
\* VSF_EVT_TIMER is posted only while the EDA has no event at all.
LEMMA TimerDueInv ==
    ASSUME SInv, NEW e \in Edas, TimerDue(e), UNCHANGED manual_rst
    PROVE  Kept
<1> USE EvtqAssumption, SyncAssumption
<1>1. /\ KInv /\ SyncType /\ ReadyWhenListed /\ Waiters /\ Tellers /\ Events
      /\ UnitsConserved /\ NobodyWaitsInVain
      /\ is_timed[e] /\ is_timed' = [is_timed EXCEPT ![e] = FALSE]
      /\ Post(e, "TIMER", FALSE)
      /\ UNCHANGED <<cur_value, pending_list, is_sync_got, st, wakes, woken, units>>
  BY DEF SInv, TimerDue, sync
<1>2. KInv' /\ UNCHANGED <<cur, evt, is_limitted>>
  BY <1>1, PostInv DEF Post, polls
<1>3. st[e] = "waiting" /\ is_limitted[e]
  BY <1>1 DEF Waiters
<1>4. ~is_timed'[e] /\ \A x \in Edas \ {e} : is_timed'[x] = is_timed[x]
  BY <1>1 DEF SyncType
<1>5. SyncType' /\ Waiters' /\ Tellers' /\ UnitsConserved' /\ NobodyWaitsInVain'
  BY <1>1, <1>2, <1>4 DEF SyncType, Waiters, Tellers, UnitsConserved, NobodyWaitsInVain
<1>6. ASSUME UNCHANGED queues PROVE ReadyWhenListed' /\ Events' /\ (Complete => Complete')
  <2>1. UNCHANGED <<evt_list, is_ready>> BY <1>6 DEF queues
  <2>2. ReadyWhenListed' /\ (Complete => Complete')
    BY <1>1, <1>2, <2>1 DEF ReadyWhenListed, Complete
  <2>3. Events'
    <3> SUFFICES ASSUME NEW x \in Edas PROVE EventsOf(x)'
      BY DEF Events
    <3>1. EventsOf(x) /\ (is_timed'[x] => is_timed[x]) BY <1>1, <1>4 DEF Events
    <3> QED BY <1>1, <1>2, <2>1, <3>1 DEF EventsOf
  <2> QED BY <2>2, <2>3
<1>7. ASSUME ~is_ready[e], Enqueue(e, "TIMER")
      PROVE  ReadyWhenListed' /\ Events' /\ (Complete => Complete')
  <2>1. "TIMER" \in Evts OBVIOUS
  <2>2. /\ evt_list[e] \in Seq(Evts) /\ evt_list'[e] = Append(evt_list[e], "TIMER")
        /\ \A x \in Edas \ {e} : evt_list'[x] = evt_list[x]
        /\ ReadyWhenListed'
    BY <1>1, <1>7, <2>1, Enqueued
  <2>3. evt_list[e] = <<>> BY <1>1, <1>7 DEF ReadyWhenListed
  <2>4. \A k : ~Linked(evt_list[e], k) BY <2>3 DEF Linked
  <2>5. \A k : ~InHand(cur, evt, e, k)
    <3>1. e # None OBVIOUS
    <3> QED BY <1>1, <1>7, <3>1 DEF KInv, Polls, InHand
  <2>6. /\ ListOK(evt_list'[e])
        /\ \A x : Linked(evt_list'[e], x) <=> x = "TIMER"
    <3>1. ListOK(evt_list[e]) BY <1>1 DEF Events, EventsOf
    <3> QED BY <2>1, <2>2, <2>4, <3>1, ListAppended
  <2>7. "TIMER" \notin Tells BY DEF Tells
  <2>8. Events'
    <3> SUFFICES ASSUME NEW x \in Edas PROVE EventsOf(x)'
      BY DEF Events
    <3>1. EventsOf(x) BY <1>1 DEF Events
    <3>2. CASE x = e BY <1>1, <1>2, <1>3, <1>4, <2>5, <2>6, <2>7, <3>2 DEF EventsOf
    <3>3. CASE x # e BY <1>1, <1>2, <1>4, <2>2, <3>1, <3>3 DEF EventsOf
    <3> QED BY <3>2, <3>3
  <2>9. Complete => Complete'
    <3> SUFFICES ASSUME Complete, NEW x \in Edas, woken[x] # None
                 PROVE  \/ Owed(wakes, x)
                        \/ \E l \in Tells : Linked(evt_list'[x], l) \/ InHand(cur, evt, x, l)
      BY <1>1, <1>2 DEF Complete
    <3>1. CASE x = e BY <2>4, <2>5, <3>1 DEF Complete
    <3>2. CASE x # e BY <2>2, <3>2 DEF Complete
    <3> QED BY <3>1, <3>2
  <2> QED BY <2>2, <2>8, <2>9
<1>8. UNCHANGED queues \/ (~is_ready[e] /\ Enqueue(e, "TIMER"))
  BY <1>1, <1>3 DEF Post, Accepts
<1> QED BY <1>2, <1>5, <1>6, <1>7, <1>8 DEF SInv, Kept

\* An event that is none of these leaves them where they are.
LEMMA UserPostKeeps ==
    ASSUME SInv, NEW e \in Edas, Post(e, "USER", FALSE), UNCHANGED svars
    PROVE  Kept
<1> USE EvtqAssumption, SyncAssumption
<1>1. /\ KInv /\ SyncType /\ ReadyWhenListed /\ Waiters /\ Tellers /\ Events
      /\ UnitsConserved /\ NobodyWaitsInVain
      /\ UNCHANGED <<manual_rst, cur_value, pending_list, is_sync_got, is_timed, st, wakes,
                     woken, units>>
      /\ UNCHANGED <<cur, evt, is_limitted>>
  BY DEF SInv, svars, sync, ghosts, Post, polls
<1>2. KInv'
  BY <1>1, PostInv
<1>3. SyncType' /\ Waiters' /\ Tellers' /\ UnitsConserved' /\ NobodyWaitsInVain'
  BY <1>1 DEF SyncType, Waiters, Tellers, UnitsConserved, NobodyWaitsInVain
<1>4. /\ ReadyWhenListed'
      /\ \A x \in Edas : /\ ListOK(evt_list'[x])
                         /\ \A k \in Signals : Linked(evt_list'[x], k) <=> Linked(evt_list[x], k)
  <2>1. CASE UNCHANGED queues
    BY <1>1, <2>1 DEF queues, ReadyWhenListed, Events, EventsOf
  <2>2. CASE Enqueue(e, "USER")
    <3>1. "USER" \in Evts /\ "USER" \notin Signals BY DEF Signals, Tells
    <3>2. /\ evt_list[e] \in Seq(Evts) /\ evt_list'[e] = Append(evt_list[e], "USER")
          /\ \A x \in Edas \ {e} : evt_list'[x] = evt_list[x]
          /\ ReadyWhenListed'
      BY <1>1, <2>2, <3>1, Enqueued
    <3>3. \A x \in Edas : ListOK(evt_list[x]) BY <1>1 DEF Events, EventsOf
    <3>4. /\ ListOK(evt_list'[e])
          /\ \A x : Linked(evt_list'[e], x) <=> Linked(evt_list[e], x) \/ x = "USER"
      BY <3>1, <3>2, <3>3, ListAppended
    <3> QED BY <3>1, <3>2, <3>3, <3>4
  <2> QED BY <2>1, <2>2 DEF Post
<1>5. "TIMER" \in Signals /\ Tells \subseteq Signals
  BY DEF Signals
<1>6. Events'
  <2> SUFFICES ASSUME NEW x \in Edas PROVE EventsOf(x)'
    BY DEF Events
  <2>1. EventsOf(x) BY <1>1 DEF Events
  <2> QED BY <1>1, <1>4, <1>5, <2>1 DEF EventsOf
<1>7. Complete => Complete'
  BY <1>1, <1>4, <1>5 DEF Complete
<1> QED BY <1>2, <1>3, <1>4, <1>6, <1>7 DEF SInv, Kept

\* A dispatch puts the first event of an EDA into the hand of its handler; what
\* another handler has in hand stays there.
LEMMA SignalsDispatched ==
    ASSUME KInv, NEW q \in Prios, NEW n \in Edas \cup {None}, Dispatch(q, n),
           n # None => evt_list[n] # <<>> /\ ~IsCurrent(n),
           evt[q] \notin Signals \/ cur[q] = None
    PROVE  /\ \A x \in Edas \ {n} :
                  /\ evt_list'[x] = evt_list[x]
                  /\ \A k \in Signals : InHand(cur', evt', x, k) <=> InHand(cur, evt, x, k)
           /\ n # None =>
                  /\ evt_list[n] \in Seq(Evts) /\ evt_list[n] # <<>>
                  /\ evt_list'[n] = Tail(evt_list[n])
                  /\ \A k : ~InHand(cur, evt, n, k)
                  /\ \A k : InHand(cur', evt', n, k) <=> k = Head(evt_list[n])
<1> USE EvtqAssumption
<1>1. /\ KernelType /\ cur' = [cur EXCEPT ![q] = n]
      /\ cur'[q] = n /\ \A r \in Prios \ {q} : cur'[r] = cur[r]
  BY DEF KInv, KernelType, Dispatch
<1>2. \A r \in Prios \ {q} : evt'[r] = evt[r]
  <2>1. CASE n = None BY <1>1, <2>1 DEF KernelType, Dispatch
  <2>2. CASE n # None BY <1>1, <2>2 DEF KernelType, Dispatch
  <2> QED BY <2>1, <2>2
<1>3. ASSUME NEW x \in Edas \ {n}
      PROVE  /\ evt_list'[x] = evt_list[x]
             /\ \A k \in Signals : InHand(cur', evt', x, k) <=> InHand(cur, evt, x, k)
  <2>1. evt_list'[x] = evt_list[x]
    <3>1. CASE n = None BY <3>1 DEF Dispatch
    <3>2. CASE n # None BY <1>1, <1>3, <3>2 DEF KernelType, Dispatch
    <3> QED BY <3>1, <3>2
  <2>2. ASSUME NEW k \in Signals PROVE InHand(cur', evt', x, k) <=> InHand(cur, evt, x, k)
    <3>1. ~(cur[q] = x /\ evt[q] = k) OBVIOUS
    <3>2. cur'[q] # x BY <1>1
    <3> QED BY <1>1, <1>2, <3>1, <3>2 DEF InHand
  <2> QED BY <2>1, <2>2
<1>4. ASSUME n # None
      PROVE  /\ evt_list[n] \in Seq(Evts) /\ evt_list[n] # <<>>
             /\ evt_list'[n] = Tail(evt_list[n])
             /\ \A k : ~InHand(cur, evt, n, k)
             /\ \A k : InHand(cur', evt', n, k) <=> k = Head(evt_list[n])
  <2>1. evt_list[n] \in Seq(Evts) /\ evt_list[n] # <<>> /\ ~IsCurrent(n)
    BY <1>1, <1>4 DEF KernelType
  <2>2. evt'[q] = Head(evt_list[n]) /\ evt_list'[n] = Tail(evt_list[n])
    <3>1. /\ n \in Edas /\ evt_list \in [Edas -> Seq(Evts)]
          /\ evt \in [Prios -> Evts \cup {None}]
      BY <1>1, <1>4 DEF KernelType
    <3>2. /\ evt' = [evt EXCEPT ![q] = Head(evt_list[n])]
          /\ evt_list' = [evt_list EXCEPT ![n] = Tail(@)]
      BY <1>4 DEF Dispatch
    <3> QED BY <3>1, <3>2
  <2>3. \A k : ~InHand(cur, evt, n, k)
    BY <2>1 DEF InHand, IsCurrent
  <2>4. \A k : InHand(cur', evt', n, k) <=> k = Head(evt_list[n])
    BY <1>1, <2>1, <2>2 DEF InHand, IsCurrent
  <2> QED BY <2>1, <2>2, <2>3, <2>4
<1> QED BY <1>3, <1>4

\* What the kernel does by itself loses no event of a wait: a handler does not
\* return with one.
LEMMA KernelStepInv ==
    ASSUME SInv, KernelStep
    PROVE  Kept
<1> USE EvtqAssumption, SyncAssumption
<1>1. /\ KInv /\ SyncType /\ ReadyWhenListed /\ Waiters /\ Tellers /\ Events
      /\ UnitsConserved /\ NobodyWaitsInVain
      /\ UNCHANGED <<manual_rst, cur_value, pending_list, is_sync_got, is_timed, st, wakes,
                     woken, units>>
  BY DEF SInv, KernelStep, svars, sync, ghosts
<1>2. PICK q \in Prios :
          Preempt(q) \/ PollHead(q) \/ ((\E e \in Edas : MayReturn(e)) /\ HandlerDone(q))
  BY DEF KernelStep
<1>3. KInv' /\ UNCHANGED is_limitted
  BY <1>1, <1>2, PreemptInv, PollHeadInv, HandlerDoneInv DEF Preempt, PollHead, HandlerDone
<1>4. SyncType' /\ Waiters' /\ Tellers' /\ UnitsConserved' /\ NobodyWaitsInVain'
  BY <1>1, <1>3 DEF SyncType, Waiters, Tellers, UnitsConserved, NobodyWaitsInVain
<1>5. ASSUME UNCHANGED <<evt_list, cur, evt>> PROVE Events' /\ (Complete => Complete')
  BY <1>1, <1>5 DEF Events, EventsOf, Complete
<1>6. ASSUME \A x \in Edas : evt_list'[x] # <<>> => evt_list[x] # <<>> PROVE ReadyWhenListed'
  <2> SUFFICES ASSUME NEW x \in Edas, evt_list'[x] # <<>> PROVE is_ready'[x]
    BY DEF ReadyWhenListed
  <2>1. is_ready[x] /\ evt_list[x] # <<>> BY <1>1, <1>6 DEF ReadyWhenListed
  <2>2. CASE UNCHANGED is_ready BY <2>1, <2>2
  <2>3. CASE HandlerDone(q)
    <3>1. /\ is_ready \in [Edas -> BOOLEAN]
          /\ is_ready' = [is_ready EXCEPT ![cur[q]] = evt_list[cur[q]] # <<>>]
      BY <1>1, <2>3 DEF HandlerDone, KInv, KernelType
    <3> QED BY <2>1, <3>1, Zenon
  <2> QED BY <1>2, <2>2, <2>3 DEF Preempt, PollHead
<1>7. CASE Preempt(q)
  BY <1>3, <1>4, <1>5, <1>6, <1>7 DEF Preempt, SInv, Kept
<1>8. CASE PollHead(q) \/ ((\E e \in Edas : MayReturn(e)) /\ HandlerDone(q))
  <2>1. evt[q] \notin Signals \/ cur[q] = None
    <3> SUFFICES ASSUME evt[q] \in Signals, cur[q] # None PROVE FALSE
      OBVIOUS
    <3>1. PICK e \in Edas : MayReturn(e) /\ Top = q BY <1>8 DEF PollHead, HandlerDone
    <3>2. cur[q] = e /\ ~(st[e] = "waiting" /\ evt[q] \in Signals)
      BY <3>1 DEF MayReturn, Runs, Signals, Tells
    <3>3. st[e] # "waiting" /\ InHand(cur, evt, e, evt[q]) BY <3>2 DEF InHand
    <3>4. evt[q] # "TIMER" BY <1>1, <3>3 DEF Events, EventsOf
    <3>5. evt[q] \in Tells BY <3>4 DEF Signals
    <3>6. woken[e] = evt[q] /\ evt[q] # None
      BY <1>1, <3>3, <3>5 DEF Events, EventsOf, Tells
    <3> QED BY <1>1, <3>3, <3>6 DEF Waiters
  <2>2. CASE UNCHANGED <<evt_list, cur, evt>>
    BY <1>3, <1>4, <1>5, <1>6, <2>2 DEF SInv, Kept
  <2>3. CASE ~UNCHANGED <<evt_list, cur, evt>>
    <3>1. PICK n \in Edas \cup {None} :
              Dispatch(q, n) /\ (n # None => evt_list[n] # <<>> /\ ~IsCurrent(n))
      BY <1>1, <1>8, <2>3, Dispatched
    <3>2. /\ \A x \in Edas \ {n} :
                 /\ evt_list'[x] = evt_list[x]
                 /\ \A k \in Signals : InHand(cur', evt', x, k) <=> InHand(cur, evt, x, k)
          /\ n # None =>
                 /\ evt_list[n] \in Seq(Evts) /\ evt_list[n] # <<>>
                 /\ evt_list'[n] = Tail(evt_list[n])
                 /\ \A k : ~InHand(cur, evt, n, k)
                 /\ \A k : InHand(cur', evt', n, k) <=> k = Head(evt_list[n])
      BY <1>1, <2>1, <3>1, SignalsDispatched
    <3>3. "TIMER" \in Signals /\ Tells \subseteq Signals BY DEF Signals
    <3>4. ASSUME NEW x \in Edas
          PROVE  /\ EventsOf(x)'
                 /\ \A k \in Tells : Linked(evt_list[x], k) \/ InHand(cur, evt, x, k) =>
                        Linked(evt_list'[x], k) \/ InHand(cur', evt', x, k)
      <4>1. EventsOf(x) BY <1>1 DEF Events
      <4>2. CASE x # n BY <1>1, <3>2, <3>3, <4>1, <4>2 DEF EventsOf
      <4>3. CASE x = n
        <5> DEFINE s == evt_list[n]
        <5>1. /\ s \in Seq(Evts) /\ s # <<>> /\ evt_list'[x] = Tail(s)
              /\ \A k : ~InHand(cur, evt, x, k)
              /\ \A k : InHand(cur', evt', x, k) <=> k = Head(s)
          BY <3>2, <4>3
        <5>2. ListOK(s) BY <4>1, <4>3 DEF EventsOf
        <5>3. s = evt_list[x] BY <4>3
        <5> HIDE DEF s
        <5>4. /\ ListOK(Tail(s))
              /\ \A k : Linked(s, k) <=> k = Head(s) \/ Linked(Tail(s), k)
              /\ Head(s) \in Signals => ~Linked(Tail(s), Head(s))
              /\ Head(s) \in Tells => ~Linked(Tail(s), "TIMER")
          BY <5>1, <5>2, ListTaken
        <5>5. \A k \in Tells : Linked(Tail(s), k) \/ Head(s) = k => woken[x] = k
          BY <4>1, <5>3, <5>4 DEF EventsOf
        <5>6. \A k \in Tells : Head(s) = k => \A l \in Signals : ~Linked(Tail(s), l)
          BY <5>4, <5>5 DEF Signals
        <5>7. Owed(wakes, x) => \A k \in Tells : ~Linked(Tail(s), k) /\ Head(s) # k
          BY <4>1, <5>3, <5>4 DEF EventsOf
        <5>8. Head(s) = "TIMER" => ~Linked(Tail(s), "TIMER")
          BY <3>3, <5>4
        <5>9. Linked(Tail(s), "TIMER") \/ Head(s) = "TIMER" => st[x] = "waiting" /\ ~is_timed[x]
          BY <4>1, <5>3, <5>4 DEF EventsOf
        <5>10. EventsOf(x)'
          BY <1>1, <5>1, <5>4, <5>5, <5>6, <5>7, <5>8, <5>9 DEF EventsOf
        <5> QED BY <5>1, <5>3, <5>4, <5>10
      <4> QED BY <4>2, <4>3
    <3>5. Events' /\ (Complete => Complete')
      BY <1>1, <3>4 DEF Events, Complete
    <3>6. \A x \in Edas : evt_list'[x] # <<>> => evt_list[x] # <<>>
      BY <3>2
    <3> QED BY <1>3, <1>4, <1>6, <3>5, <3>6 DEF SInv, Kept
  <2> QED BY <2>2, <2>3
<1> QED BY <1>2, <1>7, <1>8

(* ------------------------------ theorems ------------------------------ *)

LEMMA SInvNext ==
    ASSUME SInv, [SyncNext]_allvars
    PROVE  Kept
<1>1. CASE OpStep
  BY <1>1, DecreaseNowInv, DecreasePendsInv, IncreaseInv, CancelInv, ForceResetInv DEF OpStep
<1>2. CASE SyncStep
  BY <1>2, IncreaseInv, CancelInv, PostWakeInv, TimedOutInv, GotInv DEF SyncStep
<1>3. CASE KernelStep
  BY <1>3, KernelStepInv
<1>4. CASE UserPost
  BY <1>4, UserPostKeeps DEF UserPost
<1>5. CASE \E e \in Edas : TimerStep(e)
  BY <1>5, TimerDueInv DEF TimerStep
<1>6. CASE UNCHANGED allvars
  <2>1. /\ KInv' /\ UNCHANGED <<evt_list, is_ready, cur, evt, is_limitted>>
        /\ UNCHANGED <<manual_rst, cur_value, pending_list, is_sync_got, is_timed, st, wakes,
                       woken, units>>
    BY <1>6, StutterInv DEF allvars, vars, svars, sync, ghosts, SInv, kernel, queues, polls
  <2>2. /\ SyncType /\ ReadyWhenListed /\ Waiters /\ Tellers /\ Events
        /\ UnitsConserved /\ NobodyWaitsInVain
    BY DEF SInv
  <2>3. SyncType' /\ Waiters' /\ Tellers' /\ UnitsConserved' /\ NobodyWaitsInVain'
    BY <2>1, <2>2 DEF SyncType, Waiters, Tellers, UnitsConserved, NobodyWaitsInVain
  <2>4. ReadyWhenListed' /\ Events' /\ (Complete => Complete')
    BY <2>1, <2>2 DEF ReadyWhenListed, Events, EventsOf, Complete
  <2> QED BY <2>1, <2>3, <2>4 DEF SInv, Kept
<1> QED BY <1>1, <1>2, <1>3, <1>4, <1>5, <1>6 DEF SyncNext

\* Where the events, links and timers of every wait can be, in every reachable
\* state, also when there are no event nodes left.
THEOREM SyncInvariance == SyncSpec => []SInv
<1>1. SInv /\ [SyncNext]_allvars => SInv'
  BY SInvNext DEF Kept
<1> QED BY <1>1, SInvInit, PTL DEF SyncSpec

\* No unit of a semaphore is lost or given twice, whatever increases, timeouts,
\* cancellations and resets meet, and even if the event of a hand-over is refused.
THEOREM UnitsConservedAlways == SyncSpec => []UnitsConserved
<1>1. SInv => UnitsConserved
  BY DEF SInv
<1> QED BY <1>1, SyncInvariance, PTL

\* Nobody is in the list while the value is positive, unless an EDA is about to
\* hand it over.
THEOREM NobodyWaitsInVainAlways == SyncSpec => []NobodyWaitsInVain
<1>1. SInv => NobodyWaitsInVain
  BY DEF SInv
<1> QED BY <1>1, SyncInvariance, PTL

\* An EDA that was told has its event in exactly one of the three places.
LEMMA ToldOnce ==
    ASSUME SInv, Complete, NEW e \in Edas
    PROVE  Told(e) = IF woken[e] # None THEN 1 ELSE 0
<1> DEFINE W == {x \in Edas : wakes[x] = e}
           L == {i \in DOMAIN evt_list[e] : evt_list[e][i] \in {"SYNC", "SYNC_CANCEL"}}
           H == {q \in Prios : cur[q] = e /\ evt[q] \in {"SYNC", "SYNC_CANCEL"}}
<1> USE EvtqAssumption, SyncAssumption
<1>1. KInv /\ SyncType /\ Tellers /\ EventsOf(e)
  BY DEF SInv, Events
<1>2. e # None /\ None \notin Tells /\ Tells \subseteq Signals /\ Tells = {"SYNC", "SYNC_CANCEL"}
  BY DEF Tells, Signals
<1>3. \A x, y \in W : x = y
  BY <1>1, <1>2 DEF Tellers
<1>4. \A i, j \in L : i = j
  <2> SUFFICES ASSUME NEW i \in L, NEW j \in L PROVE i = j
    OBVIOUS
  <2>1. /\ i \in DOMAIN evt_list[e] /\ j \in DOMAIN evt_list[e]
        /\ evt_list[e][i] \in Tells /\ evt_list[e][j] \in Tells
    BY <1>2
  <2>2. Linked(evt_list[e], evt_list[e][i]) /\ Linked(evt_list[e], evt_list[e][j])
    BY <2>1 DEF Linked
  <2>3. evt_list[e][i] = woken[e] /\ evt_list[e][j] = woken[e]
    BY <1>1, <2>1, <2>2 DEF EventsOf
  <2>4. AtMostOnce(evt_list[e], evt_list[e][i])
    BY <1>1, <1>2, <2>1 DEF EventsOf, ListOK
  <2> QED BY <2>1, <2>3, <2>4 DEF AtMostOnce
<1>5. \A q, r \in H : q = r
  BY <1>1, <1>2 DEF KInv, Polls
<1>6. /\ Owed(wakes, e) <=> W # {}
      /\ (\E k \in Tells : Linked(evt_list[e], k)) <=> L # {}
      /\ (\E k \in Tells : InHand(cur, evt, e, k)) <=> H # {}
  BY <1>2 DEF Owed, Linked, InHand
<1>7. /\ Cardinality(W) = IF W = {} THEN 0 ELSE 1
      /\ Cardinality(L) = IF L = {} THEN 0 ELSE 1
      /\ Cardinality(H) = IF H = {} THEN 0 ELSE 1
  <2> HIDE DEF W, L, H
  <2> QED BY <1>3, <1>4, <1>5, NoneOrOne
<1>8. Told(e) = Cardinality(W) + Cardinality(L) + Cardinality(H)
  BY DEF Told
<1> HIDE DEF W, L, H
<1>9. W # {} => woken[e] # None /\ L = {} /\ H = {}
  <2> SUFFICES ASSUME Owed(wakes, e) PROVE woken[e] # None /\ L = {} /\ H = {}
    BY <1>6
  <2>1. woken[e] # None BY <1>1, <1>2 DEF Owed, Tellers
  <2> QED BY <1>1, <1>6, <2>1 DEF EventsOf
<1>10. L # {} => woken[e] # None /\ H = {}
  BY <1>1, <1>2, <1>6 DEF EventsOf
<1>11. H # {} => woken[e] # None
  BY <1>1, <1>2, <1>6 DEF EventsOf
<1>12. woken[e] # None => W # {} \/ L # {} \/ H # {}
  BY <1>6 DEF Complete
<1> QED BY <1>7, <1>8, <1>9, <1>10, <1>11, <1>12

\* As long as an event node is left, a wait that is over leaves no link, no timer,
\* no limit and no event behind, and an EDA that was told has one event, in one
\* place, on its way.
THEOREM WaitsAreCleanWithNodes ==
    SyncSpec /\ [](NodesUsed < NodeCnt) => []WaitsAreClean
<1>1. SInv /\ Complete /\ NodesUsed < NodeCnt /\ [SyncNext]_allvars => Complete'
  BY SInvNext DEF Kept
<1>2. SyncInit => Complete
  BY SInvInit
<1>3. SInv /\ Complete => WaitsAreClean
  <2> SUFFICES ASSUME SInv, Complete, NEW e \in Edas
               PROVE  /\ Told(e) = IF woken[e] # None THEN 1 ELSE 0
                      /\ Links(e) = IF st[e] = "waiting" /\ woken[e] = None THEN 1 ELSE 0
                      /\ st[e] # "waiting" =>
                            /\ ~is_timed[e] /\ woken[e] = None /\ ~is_limitted[e]
                            /\ ~Linked(evt_list[e], "TIMER")
    BY DEF WaitsAreClean
  <2>1. Waiters /\ EventsOf(e) BY DEF SInv, Events
  <2>2. Told(e) = IF woken[e] # None THEN 1 ELSE 0 BY ToldOnce
  <2>3. Links(e) = IF Linked(pending_list, e) THEN 1 ELSE 0
    BY <2>1, LinksOnce DEF Links, Waiters
  <2>4. Linked(pending_list, e) <=> st[e] = "waiting" /\ woken[e] = None
    BY <2>1 DEF Waiters
  <2>5. st[e] # "waiting" => /\ ~is_timed[e] /\ woken[e] = None /\ ~is_limitted[e]
                            /\ ~Linked(evt_list[e], "TIMER")
    BY <2>1 DEF Waiters, EventsOf
  <2> QED BY <2>2, <2>3, <2>4, <2>5
<1> QED BY <1>1, <1>2, <1>3, SyncInvariance, PTL DEF SyncSpec
=============================================================================
