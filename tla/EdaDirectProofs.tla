-------------------------- MODULE EdaDirectProofs --------------------------
(* Proofs about dispatch without event queues, for any number of EDAs, of     *)
(* interrupt levels and of posts: no handler is entered while it runs,        *)
(* vsf_eda_get_cur() is the EDA whose handler runs, accepted events are kept   *)
(* where one level posts, and no event is overtaken by more than one.         *)
EXTENDS EdaDirect, SequenceTheorems, FiniteSetTheorems, TLAPS

Frames == [eda : Edas, evt : Events, at : Places, level : Levels, old : Edas \cup {None}]

\* Each EDA is dispatched to by at most one of the posts under way.
Once(s) ==
    \A i, j \in DOMAIN s :
        (s[i].at # "store" /\ s[j].at # "store" /\ s[i].eda = s[j].eda) => i = j

\* The EDAs that are dispatched to.
Dispatched(s) == {s[i].eda : i \in {j \in DOMAIN s : s[j].at # "store"}}

\* The EDA that is current while f is what runs, and what a post finds.
Under(f) == IF f.at \in {"first", "second"} THEN f.eda ELSE f.old

\* Every post puts back the EDA that was current in what it came upon.
Olds(s) == \A i \in DOMAIN s : i + 1 \in DOMAIN s => s[i + 1].old = Under(s[i])

\* The inductive invariant.
IInv ==
    /\ TypeOK
    /\ Once(stack)
    /\ \A e \in Dispatched(stack) : is_processing[e]
    /\ Olds(stack)
    /\ stack # <<>> => cur_eda = Under(Top)

(* ----------------------------- the stack ------------------------------ *)

\* What runs moves on to another place of its post.
LEMMA PlaceChanged ==
    ASSUME stack \in Seq(Frames), stack # <<>>, NEW p \in Places \ {"store"},
           Top.at # "store", Once(stack), Olds(stack)
    PROVE  /\ At(p) \in Seq(Frames) /\ At(p) # <<>> /\ Len(At(p)) = Len(stack)
           /\ At(p)[Len(At(p))].at = p /\ At(p)[Len(At(p))].old = Top.old
           /\ Once(At(p)) /\ Olds(At(p)) /\ Dispatched(At(p)) = Dispatched(stack)
           /\ At(p)[Len(stack)].eda = Top.eda /\ At(p)[Len(stack)].level = Top.level
           /\ \A i \in 1 .. Len(stack) - 1 : At(p)[i] = stack[i]
<1> DEFINE s == stack
           t == At(p)
<1>0. s[Len(s)] = Top BY DEF Top, Depth
<1>1. Len(s) \in Nat \ {0} /\ DOMAIN s = 1 .. Len(s) /\ Len(s) \in DOMAIN s
  BY EmptySeq, LenProperties
<1>2. s[Len(s)] \in Frames BY <1>1, ElementOfSeq
<1>3. [s[Len(s)] EXCEPT !.at = p] \in Frames BY <1>2 DEF Frames
<1>4. /\ t = [s EXCEPT ![Len(s)] = [s[Len(s)] EXCEPT !.at = p]]
      /\ t \in Seq(Frames) /\ Len(t) = Len(s) /\ DOMAIN t = DOMAIN s
      /\ t[Len(s)] = [s[Len(s)] EXCEPT !.at = p]
      /\ \A i \in DOMAIN s : i # Len(s) => t[i] = s[i]
  BY <1>1, <1>3, ExceptSeq DEF At, Depth
<1>5. /\ t[Len(s)].at = p /\ t[Len(s)].eda = s[Len(s)].eda /\ t[Len(s)].old = s[Len(s)].old
      /\ t[Len(s)].level = s[Len(s)].level
  BY <1>2, <1>4 DEF Frames
<1>6. \A i \in DOMAIN s : t[i].eda = s[i].eda /\ t[i].old = s[i].old
                          /\ (t[i].at = "store" <=> s[i].at = "store")
  BY <1>0, <1>4, <1>5
<1>7. Once(t) BY <1>4, <1>6 DEF Once
<1>8. Olds(t)
  <2> SUFFICES ASSUME NEW i \in DOMAIN t, i + 1 \in DOMAIN t
               PROVE  t[i + 1].old = Under(t[i])
    BY DEF Olds
  <2>1. i # Len(s) /\ t[i] = s[i] BY <1>1, <1>4
  <2>2. s[i + 1].old = Under(s[i]) BY <1>4 DEF Olds
  <2> QED BY <2>1, <2>2, <1>4, <1>6
<1>9. Dispatched(t) = Dispatched(s) BY <1>4, <1>6 DEF Dispatched
<1>10. t # <<>> BY <1>1, <1>4, EmptySeq
<1>11. \A i \in 1 .. Len(s) - 1 : t[i] = s[i] BY <1>1, <1>4
<1> QED BY <1>0, <1>4, <1>5, <1>7, <1>8, <1>9, <1>10, <1>11

\* A post begins.
LEMMA PostBegins ==
    ASSUME NEW s \in Seq(Frames), NEW f \in Frames, Once(s), Olds(s),
           f.at = "store" \/ f.eda \notin Dispatched(s),
           s # <<>> => f.old = Under(s[Len(s)])
    PROVE  LET t == Append(s, f) IN
           /\ t \in Seq(Frames) /\ t # <<>> /\ t[Len(t)] = f
           /\ Once(t) /\ Olds(t)
           /\ Dispatched(t) \subseteq Dispatched(s) \cup {f.eda}
           /\ f.at = "store" => Dispatched(t) = Dispatched(s)
<1> DEFINE t == Append(s, f)
<1>1. Len(s) \in Nat /\ DOMAIN s = 1 .. Len(s) BY LenProperties
<1>2. /\ t \in Seq(Frames) /\ Len(t) = Len(s) + 1 /\ DOMAIN t = 1 .. Len(s) + 1
      /\ t[Len(s) + 1] = f
      /\ \A i \in 1 .. Len(s) : t[i] = s[i]
  BY <1>1, AppendProperties
<1>3. t # <<>> BY <1>1, <1>2, EmptySeq
<1>4. \A i \in DOMAIN t : i \in DOMAIN s \/ i = Len(s) + 1 BY <1>1, <1>2
<1>5. \A i \in DOMAIN s : i \in DOMAIN t /\ t[i] = s[i] BY <1>1, <1>2
<1>6. \A i \in DOMAIN s : s[i].at # "store" => s[i].eda \in Dispatched(s)
  BY DEF Dispatched
<1>7. Once(t) BY <1>2, <1>4, <1>5, <1>6 DEF Once
<1>8. Olds(t)
  <2> SUFFICES ASSUME NEW i \in DOMAIN t, i + 1 \in DOMAIN t
               PROVE  t[i + 1].old = Under(t[i])
    BY DEF Olds
  <2>1. i \in DOMAIN s /\ t[i] = s[i] BY <1>1, <1>2
  <2>2. CASE i = Len(s)
    <3>1. s # <<>> BY <2>1, <2>2, <1>1, EmptySeq
    <3> QED BY <2>1, <2>2, <3>1, <1>2
  <2>3. CASE i # Len(s)
    <3>1. i + 1 \in DOMAIN s BY <2>1, <2>3, <1>1
    <3> QED BY <2>1, <3>1, <1>5 DEF Olds
  <2> QED BY <2>2, <2>3
<1>9. Dispatched(t) \subseteq Dispatched(s) \cup {f.eda}
  BY <1>2, <1>4, <1>5 DEF Dispatched
<1>10. ASSUME f.at = "store" PROVE Dispatched(t) = Dispatched(s)
  BY <1>2, <1>4, <1>5, <1>10 DEF Dispatched
<1> QED BY <1>2, <1>3, <1>7, <1>8, <1>9, <1>10

\* All but the last of the posts under way.
LEMMA FrontOf ==
    ASSUME NEW s \in Seq(Frames), s # <<>>
    PROVE  /\ Front(s) \in Seq(Frames) /\ Len(Front(s)) = Len(s) - 1
           /\ DOMAIN Front(s) = 1 .. Len(s) - 1
           /\ \A i \in 1 .. Len(s) - 1 : Front(s)[i] = s[i]
<1> DEFINE t == Front(s)
<1>1. Len(s) \in Nat \ {0} /\ DOMAIN s = 1 .. Len(s) BY EmptySeq, LenProperties
<1>2. t = SubSeq(s, 1, Len(s) - 1) BY DEF Front
<1>3. 1 \in Int /\ Len(s) - 1 \in Int /\ Len(s) - 1 <= Len(s) BY <1>1
<1>4. /\ t \in Seq(Frames) /\ Len(t) = Len(s) - 1
      /\ \A i \in 1 .. Len(s) - 1 : t[i] = s[i]
  <2> HIDE DEF t
  <2>1. \A i \in 1 .. Len(s) - 1 : s[i] \in Frames BY <1>1, ElementOfSeq
  <2>2. /\ SubSeq(s, 1, Len(s) - 1) \in Seq(Frames)
        /\ Len(SubSeq(s, 1, Len(s) - 1)) = IF 1 <= Len(s) - 1 THEN Len(s) - 1 - 1 + 1 ELSE 0
        /\ \A i \in 1 .. Len(s) - 1 - 1 + 1 : SubSeq(s, 1, Len(s) - 1)[i] = s[1 + i - 1]
    BY ONLY <1>3, <2>1, SubSeqProperties
  <2>3. Len(t) = Len(s) - 1 BY <2>2, <1>1, <1>2
  <2>4. \A i \in 1 .. Len(s) - 1 : t[i] = s[i] BY <2>2, <1>1, <1>2
  <2> QED BY <2>2, <2>3, <2>4, <1>2
<1>5. DOMAIN t = 1 .. Len(s) - 1 BY <1>4, LenProperties
<1> QED BY <1>4, <1>5

\* A post ends: what it came upon runs, and its EDA is free.
LEMMA PostEnds ==
    ASSUME NEW s \in Seq(Frames), s # <<>>, Once(s), Olds(s)
    PROVE  LET t == Front(s) IN
           /\ t \in Seq(Frames) /\ Len(t) = Len(s) - 1
           /\ Once(t) /\ Olds(t) /\ Dispatched(t) \subseteq Dispatched(s)
           /\ s[Len(s)].at # "store" => s[Len(s)].eda \notin Dispatched(t)
           /\ t # <<>> => s[Len(s)].old = Under(t[Len(t)])
<1> DEFINE t == Front(s)
<1>1. Len(s) \in Nat \ {0} /\ DOMAIN s = 1 .. Len(s) BY EmptySeq, LenProperties
<1>4. /\ t \in Seq(Frames) /\ Len(t) = Len(s) - 1 /\ DOMAIN t = 1 .. Len(s) - 1
      /\ \A i \in 1 .. Len(s) - 1 : t[i] = s[i]
  BY FrontOf
<1>5. DOMAIN t = 1 .. Len(s) - 1 BY <1>4
<1>6. \A i \in DOMAIN t : i \in DOMAIN s /\ i # Len(s) /\ t[i] = s[i]
  BY <1>1, <1>4, <1>5
<1>7. Once(t) BY <1>6 DEF Once
<1>8. Olds(t)
  <2> SUFFICES ASSUME NEW i \in DOMAIN t, i + 1 \in DOMAIN t
               PROVE  t[i + 1].old = Under(t[i])
    BY DEF Olds
  <2> QED BY <1>6 DEF Olds
<1>9. Dispatched(t) \subseteq Dispatched(s) BY <1>6 DEF Dispatched
<1>10. ASSUME s[Len(s)].at # "store" PROVE s[Len(s)].eda \notin Dispatched(t)
  <2>1. Len(s) \in DOMAIN s BY <1>1
  <2> QED BY <1>6, <1>10, <2>1 DEF Dispatched, Once
<1>11. ASSUME t # <<>> PROVE s[Len(s)].old = Under(t[Len(t)])
  <2>1. Len(s) - 1 \in DOMAIN s /\ Len(s) - 1 + 1 = Len(s) /\ Len(s) \in DOMAIN s
        /\ Len(t) \in DOMAIN t
    BY <1>1, <1>4, <1>5, <1>11, EmptySeq
  <2> QED BY <2>1, <1>4, <1>6 DEF Olds
<1> QED BY <1>4, <1>7, <1>8, <1>9, <1>10, <1>11

(* --------------------------- type correctness ------------------------- *)

\* What Dispatch does keeps the types.
LEMMA EventsTyped ==
    ASSUME NEW e \in Edas, NEW v \in Events
    PROVE  /\ order \in [Edas -> Seq(Events)] =>
                  [order EXCEPT ![e] = Append(@, v)] \in [Edas -> Seq(Events)]
           /\ accepted \in [Edas -> SUBSET Events] =>
                  [accepted EXCEPT ![e] = @ \cup {v}] \in [Edas -> SUBSET Events]
           /\ \A b \in BOOLEAN :
                 /\ is_processing \in [Edas -> BOOLEAN] =>
                        [is_processing EXCEPT ![e] = b] \in [Edas -> BOOLEAN]
                 /\ is_evt_incoming \in [Edas -> BOOLEAN] =>
                        [is_evt_incoming EXCEPT ![e] = b] \in [Edas -> BOOLEAN]
<1>1. order \in [Edas -> Seq(Events)] =>
          [order EXCEPT ![e] = Append(@, v)] \in [Edas -> Seq(Events)]
  OBVIOUS
<1>2. accepted \in [Edas -> SUBSET Events] =>
          [accepted EXCEPT ![e] = @ \cup {v}] \in [Edas -> SUBSET Events]
  OBVIOUS
<1>3. \A b \in BOOLEAN :
          /\ is_processing \in [Edas -> BOOLEAN] =>
                 [is_processing EXCEPT ![e] = b] \in [Edas -> BOOLEAN]
          /\ is_evt_incoming \in [Edas -> BOOLEAN] =>
                 [is_evt_incoming EXCEPT ![e] = b] \in [Edas -> BOOLEAN]
  BY Zenon
<1> QED BY <1>1, <1>2, <1>3

LEMMA TopTyped ==
    ASSUME stack \in Seq(Frames), stack # <<>>
    PROVE  /\ Top \in Frames /\ Top.eda \in Edas /\ Top.evt \in Events /\ Top.at \in Places
           /\ Top.level \in Levels /\ Top.old \in Edas \cup {None}
           /\ Top.at # "store" => Top.eda \in Dispatched(stack)
<1>1. Len(stack) \in DOMAIN stack BY EmptySeq, LenProperties
<1>2. Top \in Frames BY <1>1, ElementOfSeq, LenProperties DEF Top, Depth
<1>3. Top.at # "store" => Top.eda \in Dispatched(stack)
  BY <1>1 DEF Top, Depth, Dispatched
<1> QED BY <1>2, <1>3 DEF Frames

LEMMA DispatchedTyped == ASSUME stack \in Seq(Frames) PROVE Dispatched(stack) \subseteq Edas
<1>1. \A i \in DOMAIN stack : stack[i] \in Frames BY ElementOfSeq, LenProperties
<1>2. \A i \in DOMAIN stack : stack[i].eda \in Edas BY <1>1 DEF Frames
<1> QED BY <1>2 DEF Dispatched

LEMMA InitEstablishes == Init => IInv
<1> SUFFICES ASSUME Init PROVE IInv OBVIOUS
<1> USE DirectAssumption
<1>1. stack = <<>> /\ DOMAIN stack = {} BY DEF Init
<1>2. Once(stack) /\ Olds(stack) /\ Dispatched(stack) = {}
  BY <1>1 DEF Once, Olds, Dispatched
<1>3. TypeOK BY <1>1 DEF Init, TypeOK
<1> QED BY <1>1, <1>2, <1>3 DEF IInv

LEMMA HandlerReturnsKeeps == ASSUME IInv, HandlerReturns PROVE IInv'
<1> DEFINE p == IF Top.at = "first" THEN "check" ELSE "reset"
<1>1. stack \in Seq(Frames) /\ stack # <<>> /\ Once(stack) /\ Olds(stack)
  BY DEF IInv, TypeOK, HandlerReturns, Frames
<1>2. p \in Places \ {"store"} /\ Top.at # "store" /\ p \notin {"first", "second"}
  BY DEF HandlerReturns, Places
<1>3. stack' = At(p) BY DEF HandlerReturns
<1>4. /\ stack' \in Seq(Frames) /\ stack' # <<>>
      /\ stack'[Len(stack')].at = p /\ stack'[Len(stack')].old = Top.old
      /\ Once(stack') /\ Olds(stack') /\ Dispatched(stack') = Dispatched(stack)
  <2> HIDE DEF p
  <2> QED BY <1>1, <1>2, <1>3, PlaceChanged
<1>5. cur_eda' = Top.old /\ Top.old \in Edas \cup {None}
  BY <1>1, TopTyped DEF HandlerReturns, Restored
<1>6. UNCHANGED <<is_processing, evt_pending, is_evt_incoming, nested, posts, history>>
  BY DEF HandlerReturns, edas
<1>7. TypeOK' BY <1>4, <1>5, <1>6 DEF IInv, TypeOK, Frames, history
<1>8. cur_eda' = Under(Top)' BY <1>2, <1>4, <1>5 DEF Under, Top, Depth
<1>9. \A e \in Dispatched(stack') : is_processing'[e] BY <1>4, <1>6 DEF IInv
<1> QED BY <1>4, <1>7, <1>8, <1>9 DEF IInv

LEMMA PendingKeeps == ASSUME IInv, Pending PROVE IInv'
<1> DEFINE e == Top.eda
<1>1. stack \in Seq(Frames) /\ stack # <<>> /\ Once(stack) /\ Olds(stack) /\ Top.at = "check"
  BY DEF IInv, TypeOK, Pending, Frames
<1>2. /\ Top \in Frames /\ e \in Edas /\ e \in Dispatched(stack) /\ Top.level \in Levels
      /\ Top.old \in Edas \cup {None}
  BY <1>1, TopTyped
<1>3. is_processing[e] BY <1>2 DEF IInv
<1>4. cur_eda = Top.old BY <1>1 DEF IInv, Under
<1>5. UNCHANGED <<is_processing, nested, posts, accepted>> BY DEF Pending, edas
<1>6. CASE evt_pending[e] = None
  <2>1. /\ stack' = At("reset")
        /\ UNCHANGED <<evt_pending, is_evt_incoming, cur_eda, late, order, yielded>>
    BY <1>6 DEF Pending, edas
  <2>2. "reset" \in Places \ {"store"} BY DEF Places
  <2>3. /\ stack' \in Seq(Frames) /\ stack' # <<>>
        /\ stack'[Len(stack')].at = "reset" /\ stack'[Len(stack')].old = Top.old
        /\ Once(stack') /\ Olds(stack') /\ Dispatched(stack') = Dispatched(stack)
    BY <1>1, <2>1, <2>2, PlaceChanged
  <2>4. TypeOK' BY <1>5, <2>1, <2>3 DEF IInv, TypeOK, Frames
  <2>5. cur_eda' = Under(Top)' BY <1>4, <2>1, <2>3 DEF Under, Top, Depth
  <2>6. \A x \in Dispatched(stack') : is_processing'[x] BY <1>5, <2>3 DEF IInv
  <2> QED BY <2>3, <2>4, <2>5, <2>6 DEF IInv
<1>7. CASE evt_pending[e] # None
  <2> DEFINE v == evt_pending[e]
             f == [eda |-> e, evt |-> v, at |-> "second", level |-> Top.level, old |-> cur_eda]
  <2>1. v \in Events BY <1>2, <1>7 DEF IInv, TypeOK
  <2>2. /\ stack' = Append(Front(stack), f)
        /\ cur_eda' = e
        /\ is_evt_incoming' = [is_evt_incoming EXCEPT ![e] = FALSE]
        /\ order' = [order EXCEPT ![e] = Append(@, v)]
        /\ evt_pending' = [evt_pending EXCEPT ![e] = None]
        /\ late' = late \ {e} /\ yielded' = yielded \ {e}
    BY <1>7 DEF Pending, Dispatch
  <2>3. f \in Frames BY <1>2, <1>4, <2>1 DEF Frames, Places
  <2>4. /\ Front(stack) \in Seq(Frames) /\ Once(Front(stack)) /\ Olds(Front(stack))
        /\ Dispatched(Front(stack)) \subseteq Dispatched(stack)
        /\ e \notin Dispatched(Front(stack))
        /\ Front(stack) # <<>> => Top.old = Under(Front(stack)[Len(Front(stack))])
    BY <1>1, PostEnds DEF Top, Depth
  <2>5. f.at = "second" /\ f.eda = e /\ f.old = Top.old BY <1>4
  <2>6. /\ stack' \in Seq(Frames) /\ stack' # <<>> /\ stack'[Len(stack')] = f
        /\ Once(stack') /\ Olds(stack')
        /\ Dispatched(stack') \subseteq Dispatched(Front(stack)) \cup {e}
    <3> HIDE DEF f
    <3> QED BY <2>2, <2>3, <2>4, <2>5, PostBegins
  <2>7. /\ order' \in [Edas -> Seq(Events)] /\ is_evt_incoming' \in [Edas -> BOOLEAN]
        /\ evt_pending' \in [Edas -> Events \cup {None}]
    <3>1. evt_pending' \in [Edas -> Events \cup {None}] BY <1>2, <2>2 DEF IInv, TypeOK
    <3> QED BY <3>1, <1>2, <2>1, <2>2, EventsTyped DEF IInv, TypeOK
  <2>8. TypeOK'
    <3>1. late' \subseteq Edas /\ yielded' \subseteq Edas /\ cur_eda' \in Edas \cup {None}
      BY <1>2, <2>2 DEF IInv, TypeOK
    <3> QED BY <1>5, <2>6, <2>7, <3>1 DEF IInv, TypeOK, Frames
  <2>9. cur_eda' = Under(Top)' BY <2>2, <2>5, <2>6 DEF Under, Top, Depth
  <2>10. \A x \in Dispatched(stack') : is_processing'[x]
    BY <1>3, <1>5, <2>4, <2>6 DEF IInv
  <2> QED BY <2>6, <2>8, <2>9, <2>10 DEF IInv
<1> QED BY <1>6, <1>7

LEMMA ProcessedKeeps == ASSUME IInv, Processed PROVE IInv'
<1> DEFINE e == Top.eda
<1>1. stack \in Seq(Frames) /\ stack # <<>> /\ Once(stack) /\ Olds(stack) /\ Top.at = "reset"
  BY DEF IInv, TypeOK, Processed, Frames
<1>2. e \in Edas /\ cur_eda = Top.old BY <1>1, TopTyped DEF IInv, Under
<1>3. /\ is_processing' = [is_processing EXCEPT ![e] = FALSE]
      /\ stack' = Front(stack)
      /\ UNCHANGED <<evt_pending, is_evt_incoming, cur_eda, nested, posts, yielded, order,
                     accepted, late>>
  BY DEF Processed, history
<1>4. /\ stack' \in Seq(Frames) /\ Once(stack') /\ Olds(stack')
      /\ Dispatched(stack') \subseteq Dispatched(stack) \ {e}
      /\ stack' # <<>> => cur_eda = Under(stack'[Len(stack')])
  BY <1>1, <1>2, <1>3, PostEnds DEF Top, Depth
<1>5. is_processing' \in [Edas -> BOOLEAN] BY <1>3, Zenon DEF IInv, TypeOK
<1>6. \A x \in Edas : x # e => is_processing'[x] = is_processing[x]
  BY <1>3, Zenon DEF IInv, TypeOK
<1>7. Dispatched(stack) \subseteq Edas BY <1>1, DispatchedTyped
<1>8. \A x \in Dispatched(stack') : is_processing'[x] BY <1>4, <1>6, <1>7 DEF IInv
<1>9. TypeOK' BY <1>3, <1>4, <1>5 DEF IInv, TypeOK, Frames
<1> QED BY <1>3, <1>4, <1>8, <1>9 DEF IInv, Top, Depth

LEMMA StoredKeeps == ASSUME IInv, Stored PROVE IInv'
<1> DEFINE e == Top.eda
<1>1. stack \in Seq(Frames) /\ stack # <<>> /\ Once(stack) /\ Olds(stack) /\ Top.at = "store"
  BY DEF IInv, TypeOK, Stored, Frames
<1>2. e \in Edas /\ Top.evt \in Events /\ cur_eda = Top.old
  BY <1>1, TopTyped DEF IInv, Under
<1>3. /\ evt_pending' = [evt_pending EXCEPT ![e] = Top.evt]
      /\ accepted' = [accepted EXCEPT ![e] = @ \cup {Top.evt}]
      /\ late' \in {late \cup {e}, late \ {e}}
      /\ stack' = Front(stack)
      /\ UNCHANGED <<is_processing, is_evt_incoming, cur_eda, nested, posts, yielded, order>>
  BY DEF Stored
<1>4. /\ stack' \in Seq(Frames) /\ Once(stack') /\ Olds(stack')
      /\ Dispatched(stack') \subseteq Dispatched(stack)
      /\ stack' # <<>> => cur_eda = Under(stack'[Len(stack')])
  BY <1>1, <1>2, <1>3, PostEnds DEF Top, Depth
<1>5. /\ evt_pending' \in [Edas -> Events \cup {None}]
      /\ accepted' \in [Edas -> SUBSET Events] /\ late' \subseteq Edas
  <2>1. evt_pending' \in [Edas -> Events \cup {None}] BY <1>2, <1>3 DEF IInv, TypeOK
  <2>2. late' \subseteq Edas BY <1>2, <1>3 DEF IInv, TypeOK
  <2> QED BY <2>1, <2>2, <1>2, <1>3, EventsTyped DEF IInv, TypeOK
<1>6. TypeOK' BY <1>3, <1>4, <1>5 DEF IInv, TypeOK, Frames
<1> QED BY <1>3, <1>4, <1>6 DEF IInv, Top, Depth

LEMMA PostKeeps ==
    ASSUME IInv, NEW e \in Edas, NEW level \in Levels, Post(e, level), yielded' \subseteq Edas
    PROVE  IInv'
<1> USE DirectAssumption
<1> DEFINE v == posts + 1
           f(place) == [eda |-> e, evt |-> v, at |-> place, level |-> level, old |-> cur_eda]
<1>1. stack \in Seq(Frames) /\ Once(stack) /\ Olds(stack) /\ cur_eda \in Edas \cup {None}
  BY DEF IInv, TypeOK, Frames
<1>2. v \in Events /\ posts' \in 0 .. MaxPosts BY DEF Post, IInv, TypeOK, Events
<1>3. UNCHANGED <<evt_pending, nested, late>> BY DEF Post
<1>4. stack # <<>> => cur_eda = Under(stack[Len(stack)]) BY DEF IInv, Top, Depth
<1>5. \A place \in Places : f(place) \in Frames /\ f(place).at = place
                            /\ f(place).eda = e /\ f(place).old = cur_eda
  BY <1>1, <1>2 DEF Frames
<1>6. "first" \in Places /\ "store" \in Places BY DEF Places
<1>7. CASE ~is_processing[e]
  <2>1. /\ is_processing' = [is_processing EXCEPT ![e] = TRUE]
        /\ stack' = Append(stack, f("first")) /\ cur_eda' = e
        /\ is_evt_incoming' = [is_evt_incoming EXCEPT ![e] = FALSE]
        /\ order' = [order EXCEPT ![e] = Append(@, v)]
        /\ accepted' = [accepted EXCEPT ![e] = @ \cup {v}]
    BY <1>7 DEF Post, Dispatch
  <2>2. e \notin Dispatched(stack) BY <1>7 DEF IInv
  <2>3. /\ stack' \in Seq(Frames) /\ stack' # <<>> /\ stack'[Len(stack')] = f("first")
        /\ Once(stack') /\ Olds(stack')
        /\ Dispatched(stack') \subseteq Dispatched(stack) \cup {e}
    <3> HIDE DEF f
    <3> QED BY <1>1, <1>4, <1>5, <1>6, <2>1, <2>2, PostBegins
  <2>4. /\ is_processing' \in [Edas -> BOOLEAN] /\ is_processing'[e]
        /\ \A x \in Edas : is_processing[x] => is_processing'[x]
    BY <2>1, Zenon DEF IInv, TypeOK
  <2>5. Dispatched(stack) \subseteq Edas BY <1>1, DispatchedTyped
  <2>6. \A x \in Dispatched(stack') : is_processing'[x] BY <2>3, <2>4, <2>5 DEF IInv
  <2>7. /\ order' \in [Edas -> Seq(Events)] /\ accepted' \in [Edas -> SUBSET Events]
        /\ is_evt_incoming' \in [Edas -> BOOLEAN]
    BY <1>2, <2>1, EventsTyped DEF IInv, TypeOK
  <2>8. TypeOK' BY <1>2, <1>3, <2>1, <2>3, <2>4, <2>7 DEF IInv, TypeOK, Frames, Events
  <2>9. cur_eda' = Under(Top)' BY <2>1, <2>3 DEF Under, Top, Depth
  <2> QED BY <2>3, <2>6, <2>8, <2>9 DEF IInv
<1>8. CASE is_processing[e]
  <2>1. /\ is_evt_incoming' = [is_evt_incoming EXCEPT ![e] = TRUE]
        /\ UNCHANGED <<is_processing, cur_eda, order, accepted>>
        /\ stack' \in {stack, Append(stack, f("store"))}
    BY <1>8 DEF Post
  <2>2. is_evt_incoming' \in [Edas -> BOOLEAN] BY <2>1, Zenon DEF IInv, TypeOK
  <2>3. /\ stack' \in Seq(Frames) /\ Once(stack') /\ Olds(stack')
        /\ Dispatched(stack') = Dispatched(stack)
        /\ stack' # <<>> => cur_eda = Under(stack'[Len(stack')])
    <3>1. CASE stack' = stack BY <3>1, <1>1, <1>4
    <3>2. CASE stack' = Append(stack, f("store"))
      <4>1. /\ stack' \in Seq(Frames) /\ stack'[Len(stack')] = f("store")
            /\ Once(stack') /\ Olds(stack') /\ Dispatched(stack') = Dispatched(stack)
        <5> HIDE DEF f
        <5> QED BY <1>1, <1>4, <1>5, <1>6, <3>2, PostBegins
      <4>2. Under(f("store")) = cur_eda BY DEF Under
      <4> QED BY <4>1, <4>2
    <3> QED BY <2>1, <3>1, <3>2
  <2>4. TypeOK' BY <1>2, <1>3, <2>1, <2>2, <2>3 DEF IInv, TypeOK, Frames, Events
  <2>5. \A x \in Dispatched(stack') : is_processing'[x] BY <2>1, <2>3 DEF IInv
  <2> QED BY <2>1, <2>3, <2>4, <2>5 DEF IInv, Top, Depth
<1> QED BY <1>7, <1>8

LEMMA NextKeeps == ASSUME IInv, [Next]_vars PROVE IInv'
<1>1. CASE HandlerReturns BY <1>1, HandlerReturnsKeeps
<1>2. CASE Pending BY <1>2, PendingKeeps
<1>3. CASE Processed BY <1>3, ProcessedKeeps
<1>4. CASE Stored BY <1>4, StoredKeeps
<1>5. CASE SomePost
  <2> PICK e \in Edas, level \in Levels :
           Post(e, level) /\ yielded' \in {yielded, yielded \ {e}}
    BY <1>5 DEF SomePost
  <2>1. yielded' \subseteq Edas BY DEF IInv, TypeOK
  <2> QED BY <2>1, PostKeeps
<1>6. CASE Yield
  <2> PICK e \in Edas :
           /\ Runs(e) /\ yielded' = yielded \cup {e}
           /\ \/ UNCHANGED <<edas, cur_eda, stack, nested, posts, order, accepted, late>>
              \/ Post(e, Level)
    BY <1>6 DEF Yield
  <2>1. yielded' \subseteq Edas BY DEF IInv, TypeOK
  <2>2. CASE UNCHANGED <<edas, cur_eda, stack, nested, posts, order, accepted, late>>
    BY <2>1, <2>2 DEF IInv, TypeOK, edas, Once, Olds, Dispatched, Top, Depth
  <2>3. CASE Post(e, Level)
    <3>1. Level \in Levels BY TopTyped DEF Runs, Level, IInv, TypeOK, Frames
    <3> QED BY <2>1, <2>3, <3>1, PostKeeps
  <2> QED BY <2>2, <2>3
<1>7. CASE UNCHANGED vars
  BY <1>7 DEF vars, edas, history, IInv, TypeOK, Once, Olds, Dispatched, Top, Depth
<1> QED BY <1>1, <1>2, <1>3, <1>4, <1>5, <1>6, <1>7 DEF Next, CpuStep

(* ------------------------ levels, looks and writes -------------------- *)

\* Above what runs there are only posts of higher levels, or of its own when a
\* handler runs.
LevelsRise(s) ==
    \A i, j \in DOMAIN s : i < j =>
        /\ s[i].level <= s[j].level
        /\ s[i].at \notin {"first", "second"} => s[i].level < s[j].level

\* A post that found an EDA is_processing came upon the dispatch to it.
Backed(s) ==
    \A i \in DOMAIN s : s[i].at = "store" =>
        \E j \in DOMAIN s : j < i /\ s[j].at # "store" /\ s[j].eda = s[i].eda

\* The posts that looked at evt_pending and did not write it yet.
Stores(s) == {s[i] : i \in {j \in DOMAIN s : s[j].at = "store"}}

\* An EDA whose dispatch will look at evt_pending again.
Looking(s, e) == \E i \in DOMAIN s : s[i].eda = e /\ s[i].at \in {"first", "check"}

\* What runs moves on in its post, or its EDA is dispatched to again.
LEMMA TopReplaced ==
    ASSUME NEW s \in Seq(Frames), s # <<>>, NEW t \in Seq(Frames), Len(t) = Len(s),
           \A i \in 1 .. Len(s) - 1 : t[i] = s[i],
           t[Len(s)].eda = s[Len(s)].eda, t[Len(s)].level = s[Len(s)].level,
           s[Len(s)].at # "store", t[Len(s)].at # "store",
           LevelsRise(s), Backed(s)
    PROVE  /\ LevelsRise(t) /\ Backed(t) /\ Stores(t) = Stores(s)
           /\ Dispatched(t) = Dispatched(s)
           /\ \A e \in Edas : e # s[Len(s)].eda => (Looking(t, e) <=> Looking(s, e))
           /\ t[Len(s)].at \in {"first", "check"} => Looking(t, s[Len(s)].eda)
<1>1. Len(s) \in Nat \ {0} /\ DOMAIN s = 1 .. Len(s) /\ DOMAIN t = DOMAIN s
      /\ Len(s) \in DOMAIN s
  BY EmptySeq, LenProperties
<1>2. \A i \in DOMAIN s : /\ t[i].eda = s[i].eda /\ t[i].level = s[i].level
                          /\ (t[i].at = "store" <=> s[i].at = "store")
                          /\ i # Len(s) => t[i] = s[i]
  BY <1>1
<1>3. LevelsRise(t)
  <2> SUFFICES ASSUME NEW i \in DOMAIN s, NEW j \in DOMAIN s, i < j
               PROVE  /\ t[i].level <= t[j].level
                      /\ t[i].at \notin {"first", "second"} => t[i].level < t[j].level
    BY <1>1 DEF LevelsRise
  <2>1. i # Len(s) BY <1>1
  <2> QED BY <2>1, <1>2 DEF LevelsRise
<1>4. Backed(t) BY <1>1, <1>2 DEF Backed
<1>5. Stores(t) = Stores(s)
  <2>1. \A i \in DOMAIN s : s[i].at = "store" => t[i] = s[i] BY <1>2
  <2> QED BY <2>1, <1>1, <1>2 DEF Stores
<1>6. Dispatched(t) = Dispatched(s) BY <1>1, <1>2 DEF Dispatched
<1>7. \A e \in Edas : e # s[Len(s)].eda => (Looking(t, e) <=> Looking(s, e))
  BY <1>1, <1>2 DEF Looking
<1>8. t[Len(s)].at \in {"first", "check"} => Looking(t, s[Len(s)].eda)
  BY <1>1, <1>2 DEF Looking
<1> QED BY <1>3, <1>4, <1>5, <1>6, <1>7, <1>8

\* A post comes upon what runs.
LEMMA PostUpon ==
    ASSUME NEW s \in Seq(Frames), NEW f \in Frames, LevelsRise(s), Backed(s),
           s # <<>> => /\ s[Len(s)].level <= f.level
                       /\ s[Len(s)].at \notin {"first", "second"} => s[Len(s)].level < f.level,
           f.at = "store" => f.eda \in Dispatched(s)
    PROVE  LET t == Append(s, f) IN
           /\ LevelsRise(t) /\ Backed(t)
           /\ f.at # "store" => Stores(t) = Stores(s) /\ f.eda \in Dispatched(t)
           /\ f.at = "store" => Stores(t) = Stores(s) \cup {f}
           /\ Dispatched(s) \subseteq Dispatched(t)
           /\ \A e \in Edas : Looking(s, e) => Looking(t, e)
           /\ f.at = "first" => Looking(t, f.eda)
<1> DEFINE t == Append(s, f)
<1>1. Len(s) \in Nat /\ DOMAIN s = 1 .. Len(s) BY LenProperties
<1>2. /\ DOMAIN t = 1 .. Len(s) + 1 /\ t[Len(s) + 1] = f
      /\ \A i \in 1 .. Len(s) : t[i] = s[i]
  BY <1>1, AppendProperties
<1> HIDE DEF t
<1>3. \A i \in DOMAIN t : i \in DOMAIN s \/ i = Len(s) + 1 BY <1>1, <1>2
<1>4. \A i \in DOMAIN s : i \in DOMAIN t /\ t[i] = s[i] /\ i < Len(s) + 1 BY <1>1, <1>2
<1>5. Len(s) + 1 \in DOMAIN t BY <1>1, <1>2
<1>6. LevelsRise(t)
  <2> SUFFICES ASSUME NEW i \in DOMAIN t, NEW j \in DOMAIN t, i < j
               PROVE  /\ t[i].level <= t[j].level
                      /\ t[i].at \notin {"first", "second"} => t[i].level < t[j].level
    BY DEF LevelsRise
  <2>1. i \in DOMAIN s /\ t[i] = s[i] BY <1>1, <1>2
  <2>2. CASE j \in DOMAIN s BY <2>1, <2>2, <1>4 DEF LevelsRise
  <2>3. CASE j = Len(s) + 1
    <3>1. t[j] = f BY <2>3, <1>2
    <3>2. s # <<>> /\ Len(s) \in DOMAIN s BY <2>1, <1>1, EmptySeq
    <3>3. CASE i = Len(s) BY <3>1, <3>2, <3>3, <2>1
    <3>4. CASE i # Len(s)
      <4>1. i < Len(s) BY <2>1, <3>4, <1>1
      <4>2. /\ s[i].level <= s[Len(s)].level
            /\ s[i].at \notin {"first", "second"} => s[i].level < s[Len(s)].level
        BY <2>1, <3>2, <4>1 DEF LevelsRise
      <4>3. s[Len(s)].level <= f.level BY <3>2
      <4>4. s[i] \in Frames /\ s[Len(s)] \in Frames BY <2>1, <3>2, <1>1, ElementOfSeq
      <4>5. s[i].level \in Nat /\ s[Len(s)].level \in Nat /\ f.level \in Nat
        BY <4>4, DirectAssumption DEF Frames
      <4> QED BY <2>1, <3>1, <4>2, <4>3, <4>5
    <3> QED BY <3>3, <3>4
  <2> QED BY <2>2, <2>3, <1>3
<1>7. Backed(t)
  <2> SUFFICES ASSUME NEW i \in DOMAIN t, t[i].at = "store"
               PROVE  \E j \in DOMAIN t : j < i /\ t[j].at # "store" /\ t[j].eda = t[i].eda
    BY DEF Backed
  <2>1. CASE i \in DOMAIN s BY <2>1, <1>4 DEF Backed
  <2>2. CASE i = Len(s) + 1
    <3>1. f.eda \in Dispatched(s) BY <2>2, <1>2
    <3> QED BY <3>1, <2>2, <1>2, <1>4 DEF Dispatched
  <2> QED BY <2>1, <2>2, <1>3
<1>8. f.at # "store" => Stores(t) = Stores(s) /\ f.eda \in Dispatched(t)
  <2> SUFFICES ASSUME f.at # "store" PROVE Stores(t) = Stores(s) /\ f.eda \in Dispatched(t)
    OBVIOUS
  <2>1. {j \in DOMAIN t : t[j].at = "store"} = {j \in DOMAIN s : s[j].at = "store"}
    BY <1>2, <1>3, <1>4
  <2> QED BY <2>1, <1>2, <1>4, <1>5 DEF Stores, Dispatched
<1>9. f.at = "store" => Stores(t) = Stores(s) \cup {f}
  BY <1>2, <1>3, <1>4, <1>5 DEF Stores
<1>10. Dispatched(s) \subseteq Dispatched(t) BY <1>4 DEF Dispatched
<1>11. \A e \in Edas : Looking(s, e) => Looking(t, e) BY <1>4 DEF Looking
<1>12. f.at = "first" => Looking(t, f.eda) BY <1>2, <1>5 DEF Looking
<1> QED BY <1>6, <1>7, <1>8, <1>9, <1>10, <1>11, <1>12 DEF t

\* What runs returns to what it came upon.
LEMMA PostLeaves ==
    ASSUME NEW s \in Seq(Frames), s # <<>>, LevelsRise(s), Backed(s)
    PROVE  LET t == Front(s) IN
           /\ LevelsRise(t) /\ Backed(t)
           /\ Stores(t) \subseteq Stores(s)
           /\ Dispatched(s) \ {s[Len(s)].eda} \subseteq Dispatched(t)
           /\ s[Len(s)].at = "store" => Dispatched(s) \subseteq Dispatched(t)
           /\ s[Len(s)].at \notin {"first", "check"} =>
                  \A e \in Edas : Looking(s, e) => Looking(t, e)
<1> DEFINE t == Front(s)
<1>1. Len(s) \in Nat \ {0} /\ DOMAIN s = 1 .. Len(s) BY EmptySeq, LenProperties
<1>2. DOMAIN t = 1 .. Len(s) - 1 /\ \A i \in 1 .. Len(s) - 1 : t[i] = s[i] BY FrontOf
<1> HIDE DEF t
<1>3. \A i \in DOMAIN t : i \in DOMAIN s /\ t[i] = s[i] BY <1>1, <1>2
<1>4. \A i \in DOMAIN s : i \in DOMAIN t \/ i = Len(s) BY <1>1, <1>2
<1>5. LevelsRise(t) BY <1>3 DEF LevelsRise
<1>6. Backed(t)
  <2> SUFFICES ASSUME NEW i \in DOMAIN t, t[i].at = "store"
               PROVE  \E j \in DOMAIN t : j < i /\ t[j].at # "store" /\ t[j].eda = t[i].eda
    BY DEF Backed
  <2>1. PICK j \in DOMAIN s : j < i /\ s[j].at # "store" /\ s[j].eda = s[i].eda
    BY <1>3 DEF Backed
  <2>2. j \in DOMAIN t BY <2>1, <1>1, <1>2
  <2> QED BY <2>1, <2>2, <1>3
<1>7. Stores(t) \subseteq Stores(s) BY <1>3 DEF Stores
<1>8. Dispatched(s) \ {s[Len(s)].eda} \subseteq Dispatched(t) BY <1>3, <1>4 DEF Dispatched
<1>9. s[Len(s)].at = "store" => Dispatched(s) \subseteq Dispatched(t)
  BY <1>3, <1>4 DEF Dispatched
<1>10. s[Len(s)].at \notin {"first", "check"} => \A e \in Edas : Looking(s, e) => Looking(t, e)
  BY <1>3, <1>4 DEF Looking
<1> QED BY <1>5, <1>6, <1>7, <1>8, <1>9, <1>10 DEF t

\* While the dispatch to an EDA is what runs, no post to that EDA is under way.
LEMMA NoneUnderWay ==
    ASSUME NEW s \in Seq(Frames), s # <<>>, Once(s), Backed(s), s[Len(s)].at # "store"
    PROVE  /\ \A f \in Stores(s) : f.eda # s[Len(s)].eda
           /\ Looking(s, s[Len(s)].eda) => s[Len(s)].at \in {"first", "check"}
<1>1. Len(s) \in Nat \ {0} /\ DOMAIN s = 1 .. Len(s) /\ Len(s) \in DOMAIN s
  BY EmptySeq, LenProperties
<1>2. ASSUME NEW i \in DOMAIN s, s[i].at = "store", s[i].eda = s[Len(s)].eda PROVE FALSE
  <2>1. PICK j \in DOMAIN s : j < i /\ s[j].at # "store" /\ s[j].eda = s[i].eda
    BY <1>2 DEF Backed
  <2>2. j = Len(s) BY <1>1, <1>2, <2>1 DEF Once
  <2> QED BY <1>1, <2>1, <2>2
<1>3. Looking(s, s[Len(s)].eda) => s[Len(s)].at \in {"first", "check"}
  BY <1>1 DEF Looking, Once
<1> QED BY <1>2, <1>3 DEF Stores

\* An EDA that is not dispatched to will not look, and no post to it is under way.
LEMMA NotDispatched ==
    ASSUME NEW s \in Seq(Frames), Backed(s), NEW e \in Edas, e \notin Dispatched(s)
    PROVE  ~Looking(s, e) /\ \A f \in Stores(s) : f.eda # e
<1>1. ~Looking(s, e) BY DEF Looking, Dispatched
<1>2. \A f \in Stores(s) : f.eda # e BY DEF Backed, Stores, Dispatched
<1> QED BY <1>1, <1>2

\* At one level there is one post that looked and did not write yet.
LEMMA StoreAlone ==
    ASSUME NEW s \in Seq(Frames), s # <<>>, LevelsRise(s),
           NEW f \in Stores(Front(s)), f.level = s[Len(s)].level
    PROVE  FALSE
<1>1. Len(s) \in Nat \ {0} /\ DOMAIN s = 1 .. Len(s) /\ Len(s) \in DOMAIN s
  BY EmptySeq, LenProperties
<1>2. /\ DOMAIN Front(s) = 1 .. Len(s) - 1
      /\ \A i \in 1 .. Len(s) - 1 : Front(s)[i] = s[i]
  BY FrontOf
<1>3. PICK i \in DOMAIN Front(s) : Front(s)[i] = f /\ f.at = "store" BY DEF Stores
<1>4. i \in DOMAIN s /\ i < Len(s) /\ s[i] = f BY <1>1, <1>2, <1>3
<1>5. s[i].level < s[Len(s)].level BY <1>1, <1>3, <1>4 DEF LevelsRise
<1>6. s[Len(s)] \in Frames BY <1>1, ElementOfSeq
<1>7. s[Len(s)].level \in Nat BY <1>6, DirectAssumption DEF Frames
<1> QED BY <1>4, <1>5, <1>7

(* ------------------------ the events of an EDA ------------------------ *)

\* Of the events in q: all, at most one, none are numbered below, above, as v.
Earlier(q, v) == \A k \in DOMAIN q : q[k] < v
OneLater(q, v) == \A j, k \in DOMAIN q : (q[j] > v /\ q[k] > v) => j = k
Unused(q, v) == \A k \in DOMAIN q : q[k] # v

\* The events of q are dispatched once, each with at most one later one before it.
Ordered(q) ==
    \A i \in DOMAIN q :
        /\ \A j, k \in 1 .. i - 1 : (q[j] > q[i] /\ q[k] > q[i]) => j = k
        /\ \A j \in 1 .. i - 1 : q[j] # q[i]

\* What is so of one EDA: q are the events dispatched to it, acc the accepted
\* ones, p its pending event, n the number of the last post, `one` whether code at
\* one level posts to it, `looks` whether its dispatch will look at p again.
EventsOK(q, acc, p, n, one, looks) ==
    /\ Ordered(q)
    /\ \A k \in DOMAIN q : q[k] <= n
    /\ one => acc \subseteq Range(q) \cup {p}
    /\ p # None => p <= n /\ Unused(q, p) /\ OneLater(q, p) /\ (looks \/ Earlier(q, p))

\* An event is appended.
LEMMA Appended ==
    ASSUME NEW q \in Seq(Events), NEW v \in Events
    PROVE  LET r == Append(q, v) IN
           /\ r \in Seq(Events)
           /\ \A k \in DOMAIN r : k \in DOMAIN q \/ r[k] = v
           /\ Range(r) = Range(q) \cup {v}
           /\ \A k \in DOMAIN q : k \in DOMAIN r /\ r[k] = q[k]
           /\ \A j, k \in DOMAIN r : (j \notin DOMAIN q /\ k \notin DOMAIN q) => j = k
           /\ Ordered(q) /\ Unused(q, v) /\ OneLater(q, v) => Ordered(r)
<1> DEFINE r == Append(q, v)
<1>1. Len(q) \in Nat /\ DOMAIN q = 1 .. Len(q) BY LenProperties
<1>2. /\ r \in Seq(Events) /\ DOMAIN r = 1 .. Len(q) + 1 /\ r[Len(q) + 1] = v
      /\ \A i \in 1 .. Len(q) : r[i] = q[i]
  BY <1>1, AppendProperties
<1> HIDE DEF r
<1>3. \A k \in DOMAIN r : k \in DOMAIN q \/ (k = Len(q) + 1 /\ r[k] = v) BY <1>1, <1>2
<1>4. \A k \in DOMAIN q : k \in DOMAIN r /\ r[k] = q[k] BY <1>1, <1>2
<1>5. Len(q) + 1 \in DOMAIN r /\ Len(q) + 1 \notin DOMAIN q BY <1>1, <1>2
<1>6. Range(r) = Range(q) \cup {v} BY <1>2, <1>3, <1>4, <1>5 DEF Range
<1>7. ASSUME Ordered(q), Unused(q, v), OneLater(q, v) PROVE Ordered(r)
  <2> SUFFICES ASSUME NEW i \in DOMAIN r
               PROVE  /\ \A j, k \in 1 .. i - 1 : (r[j] > r[i] /\ r[k] > r[i]) => j = k
                      /\ \A j \in 1 .. i - 1 : r[j] # r[i]
    BY DEF Ordered
  <2>1. \A j \in 1 .. i - 1 : j \in DOMAIN q /\ r[j] = q[j] BY <1>1, <1>2
  <2>2. CASE i \in DOMAIN q BY <2>1, <2>2, <1>4, <1>7 DEF Ordered
  <2>3. CASE i = Len(q) + 1 BY <2>1, <2>3, <1>2, <1>7 DEF Unused, OneLater
  <2> QED BY <2>2, <2>3, <1>3
<1> QED BY <1>2, <1>3, <1>4, <1>6, <1>7 DEF r

\* A new event is dispatched to an EDA that nothing dispatches to.
LEMMA FreshDispatched ==
    ASSUME NEW q \in Seq(Events), NEW acc \in SUBSET Events, NEW p \in Events \cup {None},
           NEW n \in Nat, NEW one \in BOOLEAN, NEW looks \in BOOLEAN,
           EventsOK(q, acc, p, n, one, FALSE), n + 1 \in Events
    PROVE  EventsOK(Append(q, n + 1), acc \cup {n + 1}, p, n + 1, one, TRUE)
<1> USE DirectAssumption DEF Events
<1> DEFINE v == n + 1
           r == Append(q, v)
<1>1. \A k \in DOMAIN q : q[k] \in Nat /\ q[k] <= n /\ q[k] < v
  <2>1. \A k \in DOMAIN q : q[k] \in Events BY ElementOfSeq, LenProperties
  <2> QED BY <2>1 DEF EventsOK
<1>2. Unused(q, v) /\ OneLater(q, v) BY <1>1 DEF Unused, OneLater
<1>3. v \in Events OBVIOUS
<1>4. /\ r \in Seq(Events)
      /\ \A k \in DOMAIN r : k \in DOMAIN q \/ r[k] = v
      /\ Range(r) = Range(q) \cup {v}
      /\ \A k \in DOMAIN q : k \in DOMAIN r /\ r[k] = q[k]
      /\ \A j, k \in DOMAIN r : (j \notin DOMAIN q /\ k \notin DOMAIN q) => j = k
      /\ Ordered(r)
  <2>1. Ordered(q) BY DEF EventsOK
  <2> HIDE DEF v
  <2> QED BY <1>2, <1>3, <2>1, Appended
<1> HIDE DEF r
<1>5. \A k \in DOMAIN r : r[k] <= v
  <2>1. v <= v /\ \A k \in DOMAIN q : q[k] <= v BY <1>1
  <2> HIDE DEF v
  <2> QED BY ONLY <1>4, <2>1
<1>6. one => acc \cup {v} \subseteq Range(r) \cup {p} BY <1>4 DEF EventsOK
<1>7. ASSUME p # None
      PROVE  p <= v /\ Unused(r, p) /\ OneLater(r, p)
  <2>1. p \in Nat /\ p <= n /\ Unused(q, p) /\ Earlier(q, p) BY <1>7 DEF EventsOK
  <2>2. \A k \in DOMAIN q : ~(r[k] > p) BY <2>1, <1>1, <1>4 DEF Earlier
  <2>3. Unused(r, p)
    <3>1. v # p BY <2>1
    <3> HIDE DEF v
    <3> QED BY <2>1, <3>1, <1>4 DEF Unused
  <2>4. OneLater(r, p) BY <2>2, <1>4 DEF OneLater
  <2> QED BY <2>1, <2>3, <2>4
<1> QED BY <1>4, <1>5, <1>6, <1>7 DEF EventsOK, r

\* The pending event is dispatched.
LEMMA PendingDispatched ==
    ASSUME NEW q \in Seq(Events), NEW acc \in SUBSET Events, NEW p \in Events,
           NEW n \in Nat, NEW one \in BOOLEAN, NEW looks \in BOOLEAN, NEW later \in BOOLEAN,
           EventsOK(q, acc, p, n, one, looks)
    PROVE  EventsOK(Append(q, p), acc, None, n, one, later)
<1> USE DirectAssumption DEF Events
<1> DEFINE r == Append(q, p)
<1>1. p # None OBVIOUS
<1>2. p <= n /\ Unused(q, p) /\ OneLater(q, p) /\ Ordered(q) BY <1>1 DEF EventsOK
<1>3. /\ \A k \in DOMAIN r : k \in DOMAIN q \/ r[k] = p
      /\ Range(r) = Range(q) \cup {p}
      /\ \A k \in DOMAIN q : k \in DOMAIN r /\ r[k] = q[k]
      /\ Ordered(r)
  BY <1>2, Appended
<1> HIDE DEF r
<1>4. \A k \in DOMAIN r : r[k] <= n BY <1>2, <1>3 DEF EventsOK
<1>5. one => acc \subseteq Range(r) \cup {None} BY <1>3 DEF EventsOK
<1> QED BY <1>3, <1>4, <1>5 DEF EventsOK, r

\* A post writes evt_pending.
LEMMA EventStored ==
    ASSUME NEW q \in Seq(Events), NEW acc \in SUBSET Events, NEW p \in Events \cup {None},
           NEW n \in Nat, NEW one \in BOOLEAN, NEW looks \in BOOLEAN,
           EventsOK(q, acc, p, n, one, looks),
           NEW v \in Events, v <= n, Earlier(q, v), one => p = None
    PROVE  EventsOK(q, acc \cup {v}, v, n, one, looks)
<1> USE DirectAssumption DEF Events
<1>1. \A k \in DOMAIN q : q[k] \in Nat
  <2>1. \A k \in DOMAIN q : q[k] \in Events BY ElementOfSeq, LenProperties
  <2> QED BY <2>1
<1>2. Unused(q, v) /\ OneLater(q, v) BY <1>1 DEF Earlier, Unused, OneLater
<1>3. one => acc \subseteq Range(q)
  <2>1. \A x \in Events : x \in Nat OBVIOUS
  <2>2. None \notin Events BY ONLY <2>1, DirectAssumption
  <2>3. None \notin acc BY ONLY <2>2, acc \in SUBSET Events
  <2> QED BY <2>1 DEF EventsOK
<1> QED BY <1>2, <1>3 DEF EventsOK

\* Posts to other EDAs, and what they run, change nothing.
LEMMA EventsStay ==
    ASSUME NEW q \in Seq(Events), NEW acc \in SUBSET Events, NEW p \in Events \cup {None},
           NEW n \in Nat, NEW m \in Nat, n <= m, NEW one \in BOOLEAN,
           NEW looks \in BOOLEAN, NEW later \in BOOLEAN, looks => later,
           EventsOK(q, acc, p, n, one, looks)
    PROVE  EventsOK(q, acc, p, m, one, later)
<1> USE DirectAssumption DEF Events
<1>1. \A k \in DOMAIN q : q[k] \in Nat
  <2>1. \A k \in DOMAIN q : q[k] \in Events BY ElementOfSeq, LenProperties
  <2> QED BY <2>1
<1>2. p # None => p \in Nat OBVIOUS
<1> QED BY <1>1, <1>2 DEF EventsOK

\* What is so of a post that looked and did not write yet.
StoreOK(f, nest, n, ord, pend) ==
    /\ f.level \in nest[f.eda]
    /\ f.evt <= n
    /\ Earlier(ord[f.eda], f.evt)
    /\ (\A a, b \in nest[f.eda] : a = b) => pend[f.eda] = None

\* The inductive invariant about events. Only a dispatch below it on the stack
\* lets a post look at evt_pending, and nothing is dispatched to that EDA before
\* the post has written it; at one level no other post has looked in between.
DeliveryInv ==
    /\ IInv
    /\ LevelsRise(stack) /\ Backed(stack)
    /\ \A e \in Edas : is_processing[e] => e \in Dispatched(stack)
    /\ \A f \in Stores(stack) : StoreOK(f, nested, posts, order, evt_pending)
    /\ \A e \in Edas :
           EventsOK(order[e], accepted[e], evt_pending[e], posts, OneLevel(e), Looking(stack, e))

LEMMA DeliveryTyped ==
    ASSUME DeliveryInv
    PROVE  /\ stack \in Seq(Frames) /\ Once(stack) /\ Olds(stack) /\ LevelsRise(stack)
           /\ Backed(stack) /\ posts \in Nat
           /\ \A e \in Edas :
                  /\ order[e] \in Seq(Events) /\ accepted[e] \in SUBSET Events
                  /\ evt_pending[e] \in Events \cup {None}
                  /\ Looking(stack, e) \in BOOLEAN /\ OneLevel(e) \in BOOLEAN
           /\ \A f \in Stores(stack) : f.eda \in Edas /\ f.evt \in Events /\ f \in Frames
<1>1. /\ stack \in Seq(Frames) /\ Once(stack) /\ Olds(stack) /\ LevelsRise(stack)
      /\ Backed(stack) /\ TypeOK
  BY DEF DeliveryInv, IInv, TypeOK, Frames
<1>2. \A i \in DOMAIN stack : stack[i] \in Frames BY <1>1, ElementOfSeq, LenProperties
<1>3. \A f \in Stores(stack) : f \in Frames BY <1>2 DEF Stores
<1>4. \A f \in Stores(stack) : f.eda \in Edas /\ f.evt \in Events BY <1>3 DEF Frames
<1>5. posts \in Nat BY <1>1, DirectAssumption DEF TypeOK
<1>6. \A e \in Edas : /\ order[e] \in Seq(Events) /\ accepted[e] \in SUBSET Events
                      /\ evt_pending[e] \in Events \cup {None}
  BY <1>1 DEF TypeOK
<1>7. \A e \in Edas : Looking(stack, e) \in BOOLEAN /\ OneLevel(e) \in BOOLEAN
  BY DEF Looking, OneLevel
<1> QED BY <1>1, <1>3, <1>4, <1>5, <1>6, <1>7

\* An EDA that nothing happens to.
LEMMA OtherStays ==
    ASSUME DeliveryInv, IInv', NEW x \in Edas, posts <= posts', nested' = nested,
           order'[x] = order[x], accepted'[x] = accepted[x], evt_pending'[x] = evt_pending[x],
           Looking(stack, x) => Looking(stack', x)
    PROVE  EventsOK(order'[x], accepted'[x], evt_pending'[x], posts', OneLevel(x)',
                    Looking(stack', x))
<1> DEFINE l1 == Looking(stack, x)
           l2 == Looking(stack', x)
           one == OneLevel(x)
<1>1. /\ order[x] \in Seq(Events) /\ accepted[x] \in SUBSET Events
      /\ evt_pending[x] \in Events \cup {None}
      /\ l1 \in BOOLEAN /\ l2 \in BOOLEAN /\ one \in BOOLEAN /\ posts \in Nat
  <2>1. l2 \in BOOLEAN BY DEF Looking
  <2> QED BY <2>1, DeliveryTyped
<1>2. posts' \in Nat BY DirectAssumption DEF IInv, TypeOK
<1>3. EventsOK(order[x], accepted[x], evt_pending[x], posts, one, l1) BY DEF DeliveryInv
<1>4. OneLevel(x)' = one BY DEF OneLevel
<1>5. l1 => l2 OBVIOUS
<1>6. EventsOK(order[x], accepted[x], evt_pending[x], posts', one, l2)
  <2> HIDE DEF l1, l2, one
  <2> QED BY <1>1, <1>2, <1>3, <1>5, EventsStay
<1> QED BY <1>4, <1>6

\* A handler returns: its EDA looks at evt_pending, or did so already.
LEMMA HandlerReturnsDelivers == ASSUME DeliveryInv, HandlerReturns PROVE DeliveryInv'
<1> DEFINE p == IF Top.at = "first" THEN "check" ELSE "reset"
           e == Top.eda
<1>1. IInv' BY HandlerReturnsKeeps DEF DeliveryInv
<1>2. /\ stack # <<>> /\ stack' = At(p) /\ Top.at \in {"first", "second"}
      /\ UNCHANGED <<is_processing, evt_pending, nested, posts, order, accepted>>
  BY DEF HandlerReturns, edas, history
<1>3. stack \in Seq(Frames) /\ Once(stack) /\ Olds(stack) /\ LevelsRise(stack) /\ Backed(stack)
  BY DeliveryTyped
<1>4. p \in Places \ {"store"} /\ Top.at # "store" BY <1>2 DEF Places
<1>5. Top = stack[Len(stack)] BY DEF Top, Depth
<1>6. /\ stack' \in Seq(Frames) /\ Len(stack') = Len(stack)
      /\ stack'[Len(stack)].at = p /\ stack'[Len(stack)].eda = Top.eda
      /\ stack'[Len(stack)].level = Top.level
      /\ \A i \in 1 .. Len(stack) - 1 : stack'[i] = stack[i]
  <2> HIDE DEF p
  <2> QED BY <1>2, <1>3, <1>4, PlaceChanged
<1>7. /\ LevelsRise(stack') /\ Backed(stack') /\ Stores(stack') = Stores(stack)
      /\ Dispatched(stack') = Dispatched(stack)
      /\ \A x \in Edas : x # e => (Looking(stack', x) <=> Looking(stack, x))
      /\ p \in {"first", "check"} => Looking(stack', e)
  <2> HIDE DEF p
  <2> QED BY <1>2, <1>3, <1>4, <1>5, <1>6, TopReplaced
<1>8. Looking(stack, e) => Looking(stack', e)
  BY <1>2, <1>3, <1>4, <1>5, <1>7, NoneUnderWay
<1>9. ASSUME NEW x \in Edas
      PROVE  EventsOK(order'[x], accepted'[x], evt_pending'[x], posts', OneLevel(x)',
                      Looking(stack', x))
  <2>1. posts <= posts' BY <1>2, DeliveryTyped
  <2> QED BY <2>1, <1>1, <1>2, <1>7, <1>8, OtherStays
<1>10. \A f \in Stores(stack') : StoreOK(f, nested', posts', order', evt_pending')
  BY <1>2, <1>7 DEF DeliveryInv
<1>11. \A x \in Edas : is_processing'[x] => x \in Dispatched(stack')
  BY <1>2, <1>7 DEF DeliveryInv
<1> QED BY <1>1, <1>7, <1>9, <1>10, <1>11 DEF DeliveryInv

\* A dispatch looks at evt_pending: no post to its EDA is under way.
LEMMA PendingDelivers == ASSUME DeliveryInv, Pending PROVE DeliveryInv'
<1> DEFINE e == Top.eda
<1>1. IInv' BY PendingKeeps DEF DeliveryInv
<1>2. /\ stack # <<>> /\ Top.at = "check"
      /\ UNCHANGED <<is_processing, nested, posts, accepted>>
  BY DEF Pending, edas
<1>3. stack \in Seq(Frames) /\ Once(stack) /\ Olds(stack) /\ LevelsRise(stack) /\ Backed(stack)
  BY DeliveryTyped
<1>4. Top = stack[Len(stack)] /\ e \in Edas /\ Top \in Frames /\ posts <= posts'
  BY <1>2, <1>3, TopTyped, DeliveryTyped DEF Top, Depth
<1>5. \A f \in Stores(stack) : f.eda # e BY <1>2, <1>3, <1>4, NoneUnderWay
<1>6. CASE evt_pending[e] = None
  <2>1. stack' = At("reset") /\ UNCHANGED <<evt_pending, order>>
    BY <1>6 DEF Pending, edas
  <2>2. "reset" \in Places \ {"store"} /\ Top.at # "store" BY <1>2 DEF Places
  <2>3. /\ stack' \in Seq(Frames) /\ Len(stack') = Len(stack)
        /\ stack'[Len(stack)].at = "reset" /\ stack'[Len(stack)].eda = Top.eda
        /\ stack'[Len(stack)].level = Top.level
        /\ \A i \in 1 .. Len(stack) - 1 : stack'[i] = stack[i]
    BY <1>2, <1>3, <2>1, <2>2, PlaceChanged
  <2>4. /\ LevelsRise(stack') /\ Backed(stack') /\ Stores(stack') = Stores(stack)
        /\ Dispatched(stack') = Dispatched(stack)
        /\ \A x \in Edas : x # e => (Looking(stack', x) <=> Looking(stack, x))
    BY <1>2, <1>3, <1>4, <2>2, <2>3, TopReplaced
  <2>5. ASSUME NEW x \in Edas
        PROVE  EventsOK(order'[x], accepted'[x], evt_pending'[x], posts', OneLevel(x)',
                        Looking(stack', x))
    <3>1. CASE x # e BY <3>1, <1>1, <1>2, <1>4, <2>1, <2>4, OtherStays
    <3>2. CASE x = e
      <4>1. OneLevel(x)' = OneLevel(x) BY <1>2 DEF OneLevel
      <4>2. EventsOK(order[x], accepted[x], evt_pending[x], posts, OneLevel(x), Looking(stack, x))
        BY DEF DeliveryInv
      <4> QED BY <4>1, <4>2, <3>2, <1>2, <1>6, <2>1 DEF EventsOK
    <3> QED BY <3>1, <3>2
  <2>6. \A f \in Stores(stack') : StoreOK(f, nested', posts', order', evt_pending')
    BY <1>2, <2>1, <2>4 DEF DeliveryInv
  <2>7. \A x \in Edas : is_processing'[x] => x \in Dispatched(stack')
    BY <1>2, <2>4 DEF DeliveryInv
  <2> QED BY <1>1, <2>4, <2>5, <2>6, <2>7 DEF DeliveryInv
<1>7. CASE evt_pending[e] # None
  <2> DEFINE v == evt_pending[e]
             f == [eda |-> e, evt |-> v, at |-> "second", level |-> Top.level, old |-> cur_eda]
             b == Front(stack)
  <2>1. v \in Events BY <1>4, <1>7, DeliveryTyped
  <2>2. /\ stack' = Append(b, f)
        /\ order' = [order EXCEPT ![e] = Append(@, v)]
        /\ evt_pending' = [evt_pending EXCEPT ![e] = None]
    BY <1>7 DEF Pending, Dispatch
  <2>3. /\ f.at = "second" /\ f.eda = Top.eda /\ f.level = Top.level OBVIOUS
  <2>4. /\ b \in Seq(Frames) /\ Len(b) = Len(stack) - 1
        /\ \A i \in 1 .. Len(stack) - 1 : b[i] = stack[i]
    BY <1>2, <1>3, FrontOf
  <2>5. stack' \in Seq(Frames) BY <1>1 DEF IInv, TypeOK, Frames
  <2>6. /\ Len(stack') = Len(stack) /\ stack'[Len(stack)] = f
        /\ \A i \in 1 .. Len(stack) - 1 : stack'[i] = stack[i]
    <3>1. Len(stack) \in Nat \ {0} BY <1>2, <1>3, EmptySeq, LenProperties
    <3> HIDE DEF f, b
    <3>2. /\ Len(stack') = Len(b) + 1 /\ stack'[Len(b) + 1] = f
          /\ \A i \in 1 .. Len(b) : stack'[i] = b[i]
      BY <2>2, <2>4, AppendProperties
    <3> QED BY <3>1, <3>2, <2>4
  <2>7. /\ LevelsRise(stack') /\ Backed(stack') /\ Stores(stack') = Stores(stack)
        /\ Dispatched(stack') = Dispatched(stack)
        /\ \A x \in Edas : x # e => (Looking(stack', x) <=> Looking(stack, x))
    <3>1. stack'[Len(stack)].eda = Top.eda /\ stack'[Len(stack)].level = Top.level
          /\ stack'[Len(stack)].at # "store" /\ Top.at # "store"
      BY <1>2, <2>3, <2>6
    <3> HIDE DEF f
    <3> QED BY <3>1, <1>2, <1>3, <1>4, <2>5, <2>6, TopReplaced
  <2>8. \A x \in Edas : x # e => order'[x] = order[x] /\ evt_pending'[x] = evt_pending[x]
    BY <2>2 DEF DeliveryInv, IInv, TypeOK
  <2>9. ASSUME NEW x \in Edas
        PROVE  EventsOK(order'[x], accepted'[x], evt_pending'[x], posts', OneLevel(x)',
                        Looking(stack', x))
    <3>1. CASE x # e BY <3>1, <1>1, <1>2, <1>4, <2>7, <2>8, OtherStays
    <3>2. CASE x = e
      <4> DEFINE l1 == Looking(stack, e)
                 l2 == Looking(stack', e)
                 one == OneLevel(e)
      <4>1. OneLevel(x)' = OneLevel(x) BY <1>2 DEF OneLevel
      <4>2. EventsOK(order[e], accepted[e], v, posts, one, l1) BY <1>4 DEF DeliveryInv
      <4>3. order'[e] = Append(order[e], v) /\ evt_pending'[e] = None
        BY <1>4, <2>2 DEF DeliveryInv, IInv, TypeOK
      <4>4. l2 \in BOOLEAN BY DEF Looking
      <4>5. EventsOK(Append(order[e], v), accepted[e], None, posts, one, l2)
        <5>1. /\ order[e] \in Seq(Events) /\ accepted[e] \in SUBSET Events /\ posts \in Nat
              /\ one \in BOOLEAN /\ l1 \in BOOLEAN
          BY <1>4, DeliveryTyped
        <5> HIDE DEF l1, l2, one, v
        <5> QED BY <5>1, <4>2, <4>4, <2>1, PendingDispatched
      <4>6. EventsOK(order'[x], accepted'[x], evt_pending'[x], posts', OneLevel(x), Looking(stack', x))
        BY <3>2, <4>3, <4>5, <1>2
      <4> QED BY <4>1, <4>6
    <3> QED BY <3>1, <3>2
  <2>10. ASSUME NEW g \in Stores(stack')
         PROVE  StoreOK(g, nested', posts', order', evt_pending')
    <3>1. g.eda \in Edas /\ g.eda # e /\ StoreOK(g, nested, posts, order, evt_pending)
      BY <1>5, <2>7, DeliveryTyped DEF DeliveryInv
    <3>2. order'[g.eda] = order[g.eda] /\ evt_pending'[g.eda] = evt_pending[g.eda]
      BY <3>1, <2>8
    <3> QED BY <3>1, <3>2, <1>2 DEF StoreOK
  <2>11. \A x \in Edas : is_processing'[x] => x \in Dispatched(stack')
    BY <1>2, <2>7 DEF DeliveryInv
  <2> QED BY <1>1, <2>7, <2>9, <2>10, <2>11 DEF DeliveryInv
<1> QED BY <1>6, <1>7

\* A dispatch ends: no post to its EDA is under way.
LEMMA ProcessedDelivers == ASSUME DeliveryInv, Processed PROVE DeliveryInv'
<1> DEFINE e == Top.eda
<1>1. IInv' BY ProcessedKeeps DEF DeliveryInv
<1>2. /\ stack # <<>> /\ Top.at = "reset" /\ stack' = Front(stack)
      /\ is_processing' = [is_processing EXCEPT ![e] = FALSE]
      /\ UNCHANGED <<evt_pending, nested, posts, order, accepted>>
  BY DEF Processed, history
<1>3. stack \in Seq(Frames) /\ Once(stack) /\ Olds(stack) /\ LevelsRise(stack) /\ Backed(stack)
  BY DeliveryTyped
<1>4. Top = stack[Len(stack)] /\ posts <= posts' /\ e \in Edas
  BY <1>2, <1>3, DeliveryTyped, TopTyped DEF Top, Depth
<1>5. /\ LevelsRise(stack') /\ Backed(stack') /\ Stores(stack') \subseteq Stores(stack)
      /\ Dispatched(stack) \ {e} \subseteq Dispatched(stack')
      /\ \A x \in Edas : Looking(stack, x) => Looking(stack', x)
  BY <1>2, <1>3, <1>4, PostLeaves
<1>6. ASSUME NEW x \in Edas
      PROVE  EventsOK(order'[x], accepted'[x], evt_pending'[x], posts', OneLevel(x)',
                      Looking(stack', x))
  BY <1>1, <1>2, <1>4, <1>5, OtherStays
<1>7. \A f \in Stores(stack') : StoreOK(f, nested', posts', order', evt_pending')
  BY <1>2, <1>5 DEF DeliveryInv
<1>8. /\ ~is_processing'[e]
      /\ \A x \in Edas : x # e => is_processing'[x] = is_processing[x]
  BY <1>2, <1>4, Zenon DEF DeliveryInv, IInv, TypeOK
<1>9. \A x \in Edas : is_processing'[x] => x \in Dispatched(stack')
  BY <1>5, <1>8 DEF DeliveryInv
<1> QED BY <1>1, <1>5, <1>6, <1>7, <1>9 DEF DeliveryInv

\* A post writes evt_pending: its event is later than all that were dispatched,
\* and at one level nobody wrote since it looked.
LEMMA StoredDelivers == ASSUME DeliveryInv, Stored PROVE DeliveryInv'
<1> DEFINE e == Top.eda
           v == Top.evt
<1>1. IInv' BY StoredKeeps DEF DeliveryInv
<1>2. /\ stack # <<>> /\ Top.at = "store" /\ stack' = Front(stack)
      /\ evt_pending' = [evt_pending EXCEPT ![e] = v]
      /\ accepted' = [accepted EXCEPT ![e] = @ \cup {v}]
      /\ UNCHANGED <<is_processing, nested, posts, order>>
  BY DEF Stored
<1>3. stack \in Seq(Frames) /\ Once(stack) /\ Olds(stack) /\ LevelsRise(stack) /\ Backed(stack)
  BY DeliveryTyped
<1>4. Top = stack[Len(stack)] /\ posts <= posts' /\ e \in Edas /\ v \in Events
  BY <1>2, <1>3, DeliveryTyped, TopTyped DEF Top, Depth
<1>5. /\ LevelsRise(stack') /\ Backed(stack') /\ Stores(stack') \subseteq Stores(stack)
      /\ Dispatched(stack) \subseteq Dispatched(stack')
      /\ \A x \in Edas : Looking(stack, x) => Looking(stack', x)
  BY <1>2, <1>3, <1>4, PostLeaves
<1>6. Top \in Stores(stack)
  <2>1. Len(stack) \in DOMAIN stack BY <1>2, <1>3, EmptySeq, LenProperties
  <2> QED BY <2>1, <1>2, <1>4 DEF Stores
<1>7. StoreOK(Top, nested, posts, order, evt_pending) BY <1>6 DEF DeliveryInv
<1>8. \A x \in Edas : x # e => accepted'[x] = accepted[x] /\ evt_pending'[x] = evt_pending[x]
  BY <1>2 DEF DeliveryInv, IInv, TypeOK
<1>9. accepted'[e] = accepted[e] \cup {v} /\ evt_pending'[e] = v
  BY <1>2, <1>4 DEF DeliveryInv, IInv, TypeOK
<1>10. ASSUME NEW x \in Edas
       PROVE  EventsOK(order'[x], accepted'[x], evt_pending'[x], posts', OneLevel(x)',
                       Looking(stack', x))
  <2>1. CASE x # e BY <2>1, <1>1, <1>2, <1>4, <1>5, <1>8, OtherStays
  <2>2. CASE x = e
    <3> DEFINE l1 == Looking(stack, x)
               l2 == Looking(stack', x)
               one == OneLevel(x)
    <3>1. OneLevel(x)' = one BY <1>2 DEF OneLevel
    <3>2. /\ order[x] \in Seq(Events) /\ accepted[x] \in SUBSET Events /\ posts \in Nat
          /\ evt_pending[x] \in Events \cup {None}
          /\ one \in BOOLEAN /\ l1 \in BOOLEAN /\ l2 \in BOOLEAN /\ (l1 => l2)
      <4>1. l2 \in BOOLEAN BY DEF Looking
      <4> QED BY <4>1, <1>5, DeliveryTyped
    <3>3. EventsOK(order[x], accepted[x], evt_pending[x], posts, one, l1) BY DEF DeliveryInv
    <3>4. v <= posts /\ Earlier(order[x], v) /\ (one => evt_pending[x] = None)
      BY <1>7, <2>2 DEF StoreOK, OneLevel
    <3>5. EventsOK(order[x], accepted[x] \cup {v}, v, posts, one, l1)
      <4> HIDE DEF l1, l2, one, v
      <4> QED BY <1>4, <3>2, <3>3, <3>4, EventStored
    <3>6. EventsOK(order[x], accepted[x] \cup {v}, v, posts, one, l2)
      <4>1. accepted[x] \cup {v} \in SUBSET Events /\ v \in Events \cup {None}
        BY <1>4, <3>2
      <4>2. posts <= posts BY <3>2
      <4> HIDE DEF l1, l2, one, v
      <4> QED BY <4>1, <4>2, <3>2, <3>5, EventsStay
    <3>7. order'[x] = order[x] /\ posts' = posts BY <1>2
    <3> QED BY <3>1, <3>6, <3>7, <1>9, <2>2
  <2> QED BY <2>1, <2>2
<1>11. ASSUME NEW g \in Stores(stack')
       PROVE  StoreOK(g, nested', posts', order', evt_pending')
  <2>1. g \in Stores(stack) /\ g.eda \in Edas /\ StoreOK(g, nested, posts, order, evt_pending)
    BY <1>5, DeliveryTyped DEF DeliveryInv
  <2>2. CASE g.eda # e
    BY <2>1, <2>2, <1>2, <1>8 DEF StoreOK
  <2>3. CASE g.eda = e
    <3>1. g.level \in nested[e] /\ Top.level \in nested[e] BY <2>1, <2>3, <1>7 DEF StoreOK
    <3>2. g.level # Top.level BY <1>2, <1>3, <1>4, StoreAlone
    <3>3. ~\A a, b \in nested[e] : a = b BY <3>1, <3>2
    <3> QED BY <3>3, <2>1, <2>3, <1>2 DEF StoreOK
  <2> QED BY <2>2, <2>3
<1>12. \A x \in Edas : is_processing'[x] => x \in Dispatched(stack')
  BY <1>2, <1>5 DEF DeliveryInv
<1> QED BY <1>1, <1>5, <1>10, <1>11, <1>12 DEF DeliveryInv

\* Who may post: the main loop when nothing is under way; interrupts, and the
\* handler that runs, to the EDAs their level posts to.
MayPost(e, level) ==
    \/ stack = <<>>
    \/ level \in nested[e] /\ level > Level
    \/ level \in nested[e] /\ level = Level /\ stack # <<>> /\ Top.at \in {"first", "second"}

\* A post: what it comes upon is of a lower level or a handler, and an EDA that it
\* finds is_processing is dispatched to below it.
LEMMA PostDelivers ==
    ASSUME DeliveryInv, IInv', NEW e \in Edas, NEW level \in Levels, Post(e, level),
           MayPost(e, level)
    PROVE  DeliveryInv'
<1> DEFINE v == posts + 1
           f(place) == [eda |-> e, evt |-> v, at |-> place, level |-> level, old |-> cur_eda]
<1>1. /\ stack \in Seq(Frames) /\ Once(stack) /\ Olds(stack) /\ LevelsRise(stack)
      /\ Backed(stack) /\ posts \in Nat
  BY DeliveryTyped
<1>2. posts' = v /\ v \in Events /\ posts <= posts' /\ UNCHANGED <<evt_pending, nested>>
  BY <1>1, DirectAssumption DEF Post, Events
<1>3. \A place \in Places : f(place) \in Frames /\ f(place).at = place
                            /\ f(place).eda = e /\ f(place).level = level /\ f(place).evt = v
  BY <1>2 DEF Frames, DeliveryInv, IInv, TypeOK
<1>4. "first" \in Places /\ "store" \in Places BY DEF Places
<1>5. stack # <<>> => /\ stack[Len(stack)].level <= level
                      /\ stack[Len(stack)].at \notin {"first", "second"} =>
                             stack[Len(stack)].level < level
  <2> SUFFICES ASSUME stack # <<>>
               PROVE  /\ Top.level <= level
                      /\ Top.at \notin {"first", "second"} => Top.level < level
    BY DEF Top, Depth
  <2>1. Top.level \in Nat /\ level \in Nat BY <1>1, TopTyped, DirectAssumption
  <2>2. Level = Top.level BY DEF Level
  <2> QED BY <2>1, <2>2 DEF MayPost
<1>6. ASSUME NEW g \in Stores(stack)
      PROVE  /\ g.eda \in Edas /\ StoreOK(g, nested, posts, order, evt_pending)
             /\ order'[g.eda] = order[g.eda] =>
                    StoreOK(g, nested', posts', order', evt_pending')
  <2>1. g.eda \in Edas /\ g.evt \in Events /\ StoreOK(g, nested, posts, order, evt_pending)
    BY DeliveryTyped DEF DeliveryInv
  <2>2. g.evt \in Nat BY <2>1, DirectAssumption DEF Events
  <2> QED BY <1>1, <1>2, <2>1, <2>2 DEF StoreOK
<1>7. CASE ~is_processing[e]
  <2>1. /\ is_processing' = [is_processing EXCEPT ![e] = TRUE]
        /\ stack' = Append(stack, f("first"))
        /\ order' = [order EXCEPT ![e] = Append(@, v)]
        /\ accepted' = [accepted EXCEPT ![e] = @ \cup {v}]
    BY <1>7 DEF Post, Dispatch
  <2>2. e \notin Dispatched(stack) BY <1>7 DEF DeliveryInv, IInv
  <2>3. ~Looking(stack, e) /\ \A g \in Stores(stack) : g.eda # e
    BY <1>1, <2>2, NotDispatched
  <2>4. /\ LevelsRise(stack') /\ Backed(stack') /\ Stores(stack') = Stores(stack)
        /\ e \in Dispatched(stack') /\ Dispatched(stack) \subseteq Dispatched(stack')
        /\ \A x \in Edas : Looking(stack, x) => Looking(stack', x)
        /\ Looking(stack', e)
    <3> DEFINE h == f("first")
    <3>1. h \in Frames /\ h.at = "first" /\ h.eda = e /\ h.level = level BY <1>3, <1>4
    <3>2. stack' = Append(stack, h) BY <2>1
    <3> HIDE DEF h, f
    <3> QED BY <1>1, <1>5, <3>1, <3>2, PostUpon
  <2>5. \A x \in Edas : x # e => /\ order'[x] = order[x] /\ accepted'[x] = accepted[x]
                                 /\ evt_pending'[x] = evt_pending[x]
    BY <1>2, <2>1 DEF DeliveryInv, IInv, TypeOK
  <2>6. ASSUME NEW x \in Edas
        PROVE  EventsOK(order'[x], accepted'[x], evt_pending'[x], posts', OneLevel(x)',
                        Looking(stack', x))
    <3>1. CASE x # e BY <3>1, <1>2, <2>4, <2>5, OtherStays
    <3>2. CASE x = e
      <4> DEFINE one == OneLevel(x)
      <4>1. OneLevel(x)' = one BY <1>2 DEF OneLevel
      <4>2. EventsOK(order[x], accepted[x], evt_pending[x], posts, one, Looking(stack, x))
        BY DEF DeliveryInv
      <4>3. Looking(stack, x) = FALSE /\ Looking(stack', x) = TRUE
        <5>1. Looking(stack, x) \in BOOLEAN /\ Looking(stack', x) \in BOOLEAN BY DEF Looking
        <5> QED BY <5>1, <3>2, <2>3, <2>4
      <4>4. EventsOK(order[x], accepted[x], evt_pending[x], posts, one, FALSE)
        BY <4>2, <4>3
      <4>5. /\ order[x] \in Seq(Events) /\ accepted[x] \in SUBSET Events
            /\ evt_pending[x] \in Events \cup {None} /\ one \in BOOLEAN
        BY DeliveryTyped
      <4>6. EventsOK(Append(order[x], v), accepted[x] \cup {v}, evt_pending[x], v, one, TRUE)
        <5> HIDE DEF one
        <5> QED BY <1>1, <1>2, <4>4, <4>5, FreshDispatched
      <4>7. /\ order'[x] = Append(order[x], v) /\ accepted'[x] = accepted[x] \cup {v}
            /\ evt_pending'[x] = evt_pending[x]
        BY <1>2, <2>1, <3>2 DEF DeliveryInv, IInv, TypeOK
      <4> QED BY <4>1, <4>3, <4>6, <4>7, <1>2
    <3> QED BY <3>1, <3>2
  <2>7. \A g \in Stores(stack') : StoreOK(g, nested', posts', order', evt_pending')
    BY <1>6, <2>3, <2>4, <2>5
  <2>8. \A x \in Edas : x # e => is_processing'[x] = is_processing[x]
    BY <2>1, Zenon DEF DeliveryInv, IInv, TypeOK
  <2>9. \A x \in Edas : is_processing'[x] => x \in Dispatched(stack')
    BY <2>4, <2>8 DEF DeliveryInv
  <2> QED BY <2>4, <2>6, <2>7, <2>9 DEF DeliveryInv
<1>8. CASE is_processing[e]
  <2>1. /\ UNCHANGED <<is_processing, order, accepted>>
        /\ \/ stack' = stack
           \/ evt_pending[e] = None /\ stack' = Append(stack, f("store"))
    BY <1>8 DEF Post
  <2>2. e \in Dispatched(stack) BY <1>8 DEF DeliveryInv
  <2>3. level \in nested[e]
    <3>1. stack # <<>> BY <2>2 DEF Dispatched
    <3> QED BY <3>1 DEF MayPost
  <2>4. StoreOK(f("store"), nested', posts', order', evt_pending) \/ evt_pending[e] # None
    <3>1. \A k \in DOMAIN order[e] : order[e][k] < v
      <4>1. \A k \in DOMAIN order[e] : order[e][k] \in Nat
        <5>1. order[e] \in Seq(Events) BY DeliveryTyped
        <5>2. \A k \in DOMAIN order[e] : order[e][k] \in Events
          BY <5>1, ElementOfSeq, LenProperties
        <5> QED BY <5>2, DirectAssumption DEF Events
      <4>2. \A k \in DOMAIN order[e] : order[e][k] <= posts
        BY DEF DeliveryInv, EventsOK
      <4> QED BY <1>1, <4>1, <4>2
    <3>2. v <= posts' BY <1>1, <1>2
    <3>3. /\ f("store").eda = e /\ f("store").level = level /\ f("store").evt = v
      BY <1>3, <1>4
    <3> HIDE DEF f, v
    <3> QED BY <3>1, <3>2, <3>3, <2>1, <2>3, <1>2 DEF StoreOK, Earlier
  <2>5. /\ LevelsRise(stack') /\ Backed(stack')
        /\ \/ Stores(stack') = Stores(stack)
           \/ evt_pending[e] = None /\ Stores(stack') = Stores(stack) \cup {f("store")}
        /\ Dispatched(stack) \subseteq Dispatched(stack')
        /\ \A x \in Edas : Looking(stack, x) => Looking(stack', x)
    <3>1. CASE stack' = stack BY <3>1, <1>1
    <3>2. CASE evt_pending[e] = None /\ stack' = Append(stack, f("store"))
      <4> DEFINE h == f("store")
      <4>1. h \in Frames /\ h.at = "store" /\ h.eda = e /\ h.level = level BY <1>3, <1>4
      <4>2. stack' = Append(stack, h) BY <3>2
      <4> HIDE DEF h, f
      <4>3. /\ LevelsRise(stack') /\ Backed(stack')
            /\ Stores(stack') = Stores(stack) \cup {h}
            /\ Dispatched(stack) \subseteq Dispatched(stack')
            /\ \A x \in Edas : Looking(stack, x) => Looking(stack', x)
        BY <1>1, <1>5, <2>2, <4>1, <4>2, PostUpon
      <4> QED BY <4>3, <3>2 DEF h
    <3> QED BY <2>1, <3>1, <3>2
  <2>6. ASSUME NEW x \in Edas
        PROVE  EventsOK(order'[x], accepted'[x], evt_pending'[x], posts', OneLevel(x)',
                        Looking(stack', x))
    BY <1>2, <2>1, <2>5, OtherStays
  <2>7. \A g \in Stores(stack') : StoreOK(g, nested', posts', order', evt_pending')
    <3>1. \A g \in Stores(stack) : StoreOK(g, nested', posts', order', evt_pending')
      BY <1>6, <2>1
    <3>2. evt_pending[e] = None => StoreOK(f("store"), nested', posts', order', evt_pending')
      BY <2>4, <1>2
    <3> HIDE DEF f
    <3> QED BY <2>5, <3>1, <3>2
  <2>8. \A x \in Edas : is_processing'[x] => x \in Dispatched(stack')
    BY <2>1, <2>5 DEF DeliveryInv
  <2> QED BY <2>5, <2>6, <2>7, <2>8 DEF DeliveryInv
<1> QED BY <1>7, <1>8

LEMMA InitDelivers == Init => DeliveryInv
<1> SUFFICES ASSUME Init PROVE DeliveryInv OBVIOUS
<1>1. IInv BY InitEstablishes
<1>2. stack = <<>> /\ DOMAIN stack = {} BY DEF Init
<1>3. LevelsRise(stack) /\ Backed(stack) /\ Stores(stack) = {}
  BY <1>2 DEF LevelsRise, Backed, Stores
<1>4. ASSUME NEW e \in Edas
      PROVE  /\ ~is_processing[e]
             /\ EventsOK(order[e], accepted[e], evt_pending[e], posts, OneLevel(e),
                         Looking(stack, e))
  <2>1. ~is_processing[e] /\ order[e] = <<>> /\ accepted[e] = {} /\ evt_pending[e] = None
    BY DEF Init
  <2>2. DOMAIN order[e] = {} BY <2>1
  <2> QED BY <2>1, <2>2 DEF EventsOK, Ordered
<1> QED BY <1>1, <1>3, <1>4 DEF DeliveryInv

LEMMA NextDelivers == ASSUME DeliveryInv, [Next]_vars PROVE DeliveryInv'
<1> USE DirectAssumption
<1>1. IInv' BY NextKeeps DEF DeliveryInv
<1>2. CASE HandlerReturns BY <1>2, HandlerReturnsDelivers
<1>3. CASE Pending BY <1>3, PendingDelivers
<1>4. CASE Processed BY <1>4, ProcessedDelivers
<1>5. CASE Stored BY <1>5, StoredDelivers
<1>6. CASE SomePost
  <2> PICK e \in Edas, level \in Levels :
           /\ \/ stack = <<>> /\ level = 0
              \/ level \in nested[e] /\ level > Level
              \/ level \in nested[e] /\ level = Level /\ \E x \in Edas : Runs(x)
           /\ Post(e, level)
    BY <1>6 DEF SomePost
  <2>1. MayPost(e, level) BY DEF MayPost, Runs
  <2> QED BY <2>1, <1>1, PostDelivers
<1>7. ASSUME UNCHANGED <<is_processing, evt_pending, stack, nested, posts, order, accepted>>
      PROVE  DeliveryInv'
  <2>1. \A e \in Edas : OneLevel(e)' = OneLevel(e) BY <1>7 DEF OneLevel
  <2> QED BY <1>1, <1>7, <2>1 DEF DeliveryInv
<1>8. CASE Yield
  <2> PICK e \in Edas :
           /\ Runs(e) /\ Level \in nested[e]
           /\ \/ UNCHANGED <<edas, cur_eda, stack, nested, posts, order, accepted, late>>
              \/ Post(e, Level)
    BY <1>8 DEF Yield
  <2>1. CASE UNCHANGED <<edas, cur_eda, stack, nested, posts, order, accepted, late>>
    BY <2>1, <1>7 DEF edas
  <2>2. CASE Post(e, Level)
    <3>1. Level \in Levels BY TopTyped DEF Runs, Level, DeliveryInv, IInv, TypeOK, Frames
    <3>2. MayPost(e, Level) BY DEF MayPost, Runs
    <3> QED BY <2>2, <3>1, <3>2, <1>1, PostDelivers
  <2> QED BY <2>1, <2>2
<1>9. CASE UNCHANGED vars BY <1>9, <1>7 DEF vars, edas, history
<1> QED BY <1>2, <1>3, <1>4, <1>5, <1>6, <1>8, <1>9 DEF Next, CpuStep

(* ------------------------------ theorems ------------------------------ *)

\* The inductive invariant: each EDA that is dispatched to is so by one post and
\* is marked is_processing, and each post saved the EDA that was current in what
\* it came upon.
THEOREM Invariance == Spec => []IInv
<1>1. Init => IInv BY InitEstablishes
<1>2. IInv /\ [Next]_vars => IInv' BY NextKeeps
<1> QED BY <1>1, <1>2, PTL DEF Spec

\* The types of the state of the direct dispatch.
THEOREM TypeCorrect == Spec => []TypeOK
<1>1. IInv => TypeOK BY DEF IInv
<1> QED BY <1>1, Invariance, PTL

\* No handler is entered while it runs, however posts nest: __vsf_evtq_post() only
\* dispatches to an EDA that is not is_processing.
THEOREM NoReentryAlways == Spec => []NoReentry
<1>1. IInv => NoReentry BY DEF IInv, Once, NoReentry
<1> QED BY <1>1, Invariance, PTL

\* vsf_eda_get_cur() is the EDA whose handler runs, also after any number of
\* interrupts and of nested posts returned to it.
THEOREM CurIsRunningAlways == Spec => []CurIsRunning
<1>1. IInv => CurIsRunning BY DEF IInv, Under, CurIsRunning, Runs
<1> QED BY <1>1, Invariance, PTL

\* Posts, dispatches and what waits to be written agree, at all times.
THEOREM DeliveryInvariance == Spec => []DeliveryInv
<1>1. Init => DeliveryInv BY InitDelivers
<1>2. DeliveryInv /\ [Next]_vars => DeliveryInv' BY NextDelivers
<1> QED BY <1>1, <1>2, PTL DEF Spec

\* An event that a post reported VSF_ERR_NONE for is dispatched or is in
\* evt_pending, for every EDA that code at one level posts to: between the look of
\* __vsf_evtq_post() at evt_pending and its write, no other post has looked.
THEOREM AcceptedKeptAlways == Spec => []AcceptedKept
<1>1. DeliveryInv => AcceptedKept BY DEF DeliveryInv, EventsOK, AcceptedKept
<1> QED BY <1>1, DeliveryInvariance, PTL

\* Whatever the levels, no event is dispatched twice and none after more than one
\* later event: a pending event that came too late is taken by the next dispatch.
THEOREM OvertakenByOneAlways == Spec => []OvertakenByOne
<1>1. ASSUME DeliveryInv PROVE OvertakenByOne
  <2> SUFFICES ASSUME NEW e \in Edas, NEW i \in DOMAIN order[e]
               PROVE  /\ Cardinality({j \in 1 .. i - 1 : order[e][j] > order[e][i]}) <= 1
                      /\ \A j \in 1 .. i - 1 : order[e][j] # order[e][i]
    BY DEF OvertakenByOne
  <2> DEFINE L == {j \in 1 .. i - 1 : order[e][j] > order[e][i]}
  <2>1. Ordered(order[e]) BY <1>1 DEF DeliveryInv, EventsOK
  <2>2. \A j, k \in L : j = k BY <2>1 DEF Ordered
  <2>3. \A j \in 1 .. i - 1 : order[e][j] # order[e][i] BY <2>1 DEF Ordered
  <2>4. Cardinality(L) <= 1
    <3> HIDE DEF L
    <3>1. CASE L = {} BY <3>1, FS_EmptySet
    <3>2. CASE L # {}
      <4> PICK j \in L : TRUE BY <3>2
      <4>1. L = {j} BY <2>2
      <4>2. Cardinality(L) = 1 BY <4>1, FS_Singleton
      <4> QED BY <4>2
    <3> QED BY <3>1, <3>2
  <2> QED BY <2>3, <2>4
<1> QED BY <1>1, DeliveryInvariance, PTL
=============================================================================
