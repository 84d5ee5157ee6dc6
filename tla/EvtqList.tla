------------------------------ MODULE EvtqList ------------------------------
(* The preemptive kernel's event queues (vsf_evtq_list.c) under the software  *)
(* interrupts that poll them (vsf_os.c): one queue of ready EDAs for every    *)
(* priority, one list of events in every EDA, priorities that change.         *)
(*                                                                            *)
(* A queue is polled in its own software interrupt, so polls nest: `active`   *)
(* is the stack of polls in progress and only its top runs. What the code     *)
(* does with interrupts disabled is one step; between two steps a hardware    *)
(* interrupt may post, and a pending software interrupt of a higher priority  *)
(* may preempt. What handlers do is left open here: they post events, change  *)
(* priorities, and limit themselves to one event.                             *)
(*                                                                            *)
(* is_ready, is_new_prio, is_limitted and is_sync_got are bits of one byte    *)
(* (vsf_eda.h:690-721), some of them written without interrupts disabled.     *)
(* Here each is a variable of its own: what a write of the whole byte may     *)
(* undo in between is left out.                                               *)
EXTENDS Naturals, Sequences, FiniteSets, FiniteSetsExt, SequencesExt, Dlist

CONSTANTS
    Edas,
    Evts,
    QueueCnt,      \* VSF_OS_CFG_PRIORITY_NUM
    priority,      \* the static priority of each EDA
    NodeCnt,       \* the size of the pool of event nodes
    MaxPosts,      \* bound: events posted in a behaviour
    MaxSets,       \* bound: priorities set by handlers in a behaviour
    None

Prios == 0 .. QueueCnt - 1

ASSUME EvtqAssumption ==
    /\ QueueCnt \in Nat \ {0}
    /\ IsFiniteSet(Edas) /\ priority \in [Edas -> Prios]
    /\ NodeCnt \in Nat /\ MaxPosts \in Nat /\ MaxSets \in Nat
    /\ None \notin Edas /\ None \notin Evts /\ None \notin Prios

VARIABLES
    evt_list,      \* the events of each EDA
    is_ready,
    is_limitted,
    cur_priority,
    new_priority,  \* None unless is_new_prio
    rdy_list,      \* the ready EDAs of each queue
    cur,           \* the EDA each queue dispatches to, NULL between two
    evt,           \* the event it dispatches
    pending,       \* the software interrupt of each queue is pending
    swi_prio,      \* its priority
    active,        \* the queues being polled; the last one runs
    posts, sets    \* how much of the bounds is used

queues == <<evt_list, is_ready, rdy_list, pending>>
prios  == <<cur_priority, new_priority, swi_prio>>
polls  == <<cur, evt, active>>
kernel == <<queues, prios, polls, is_limitted>>
vars   == <<kernel, posts, sets>>

(* ------------------------------- lists -------------------------------- *)

NextOf(s, e) == IF Place(s, e) < Len(s) THEN s[Place(s, e) + 1] ELSE None

NodesUsed == MapThenSumSet(LAMBDA e : Len(evt_list[e]), Edas)

(* ------------------------------ posting ------------------------------- *)

\* A post fails when no event node is left, or when the EDA is limited to one
\* event and has it.
Accepts(e, force) ==
    /\ NodesUsed < NodeCnt
    /\ ~(is_limitted[e] /\ is_ready[e] /\ ~force)

\* Mutants: an EDA is made ready although it is, a queue is not activated.
EnqueueTwice(e, v) ==
    /\ evt_list' = [evt_list EXCEPT ![e] = Append(@, v)]
    /\ rdy_list' = [rdy_list EXCEPT ![cur_priority[e]] = Append(@, e)]
    /\ is_ready' = [is_ready EXCEPT ![e] = TRUE]
    /\ pending'  = [pending EXCEPT ![cur_priority[e]] = TRUE]

EnqueueSilent(e, v) ==
    /\ evt_list' = [evt_list EXCEPT ![e] = Append(@, v)]
    /\ rdy_list' = IF is_ready[e] THEN rdy_list
                   ELSE [rdy_list EXCEPT ![cur_priority[e]] = Append(@, e)]
    /\ is_ready' = [is_ready EXCEPT ![e] = TRUE]
    /\ pending'  = IF active = <<>> THEN [pending EXCEPT ![cur_priority[e]] = TRUE]
                   ELSE pending

\* An event makes its EDA ready, and the queue of the EDA is activated.
Enqueue(e, v) ==
    /\ evt_list' = [evt_list EXCEPT ![e] = Append(@, v)]
    /\ rdy_list' = IF is_ready[e] THEN rdy_list
                   ELSE [rdy_list EXCEPT ![cur_priority[e]] = Append(@, e)]
    /\ is_ready' = [is_ready EXCEPT ![e] = TRUE]
    /\ pending'  = [pending EXCEPT ![cur_priority[e]] = TRUE]

Post(e, v, force) ==
    /\ IF Accepts(e, force) THEN Enqueue(e, v) ELSE UNCHANGED queues
    /\ UNCHANGED <<prios, polls, is_limitted>>

(* ----------------------------- priorities ----------------------------- *)

\* An EDA that is ready moves to the queue of its new priority.
Moved(lists, e, p) ==
    LET unlinked == [lists EXCEPT ![cur_priority[e]] = Unlink(@, e)]
    IN  IF is_ready'[e] THEN [unlinked EXCEPT ![p] = Append(@, e)] ELSE lists

\* Mutant: an EDA is moved although an event is being dispatched to it.
DeferredNever(e) == FALSE

\* The change waits when an event is being dispatched to the EDA.
Deferred(e) == cur[cur_priority[e]] = e \/ new_priority[e] # None

SetPriority(e, p) ==
    /\ UNCHANGED <<evt_list, is_ready, pending, polls, is_limitted>>
    /\ IF cur_priority[e] = p \/ Deferred(e)
       THEN UNCHANGED <<rdy_list, cur_priority>>
       ELSE /\ rdy_list' = Moved(rdy_list, e, p)
            /\ cur_priority' = [cur_priority EXCEPT ![e] = p]
    /\ IF cur_priority[e] # p /\ Deferred(e)
       THEN /\ new_priority' = [new_priority EXCEPT ![e] = p]
            /\ swi_prio' = IF p > cur_priority[e]
                           THEN [swi_prio EXCEPT ![cur_priority[e]] = p]
                           ELSE swi_prio
       ELSE UNCHANGED <<new_priority, swi_prio>>

(* ------------------------------- polling ------------------------------ *)

Top == IF active = <<>> THEN None ELSE active[Len(active)]

\* An event of e is being dispatched, and its handler is not preempted.
Runs(e) == Top # None /\ cur[Top] = e
IsCurrent(e) == \E q \in Prios : cur[q] = e

\* A pending software interrupt is taken when it outranks all that are active.
Preempt(q) ==
    /\ pending[q]
    /\ \A i \in DOMAIN active : swi_prio[q] > swi_prio[active[i]]
    /\ pending' = [pending EXCEPT ![q] = FALSE]
    /\ active' = Append(active, q)
    /\ UNCHANGED <<evt_list, is_ready, rdy_list, prios, cur, evt, is_limitted>>

\* node_eda is dispatched its first event, or there is none.
Dispatch(q, node_eda) ==
    /\ cur' = [cur EXCEPT ![q] = node_eda]
    /\ IF node_eda = None
       THEN evt' = [evt EXCEPT ![q] = None] /\ UNCHANGED evt_list
       ELSE /\ evt' = [evt EXCEPT ![q] = Head(evt_list[node_eda])]
            /\ evt_list' = [evt_list EXCEPT ![node_eda] = Tail(@)]

\* The outer loop of vsf_evtq_poll(): take the first EDA, or return.
PollHead(q) ==
    /\ Top = q /\ cur[q] = None
    /\ IF rdy_list[q] = <<>>
       THEN /\ active' = SubSeq(active, 1, Len(active) - 1)
            /\ UNCHANGED <<evt_list, cur, evt>>
       ELSE /\ Dispatch(q, Head(rdy_list[q]))
            /\ UNCHANGED active
    /\ UNCHANGED <<is_ready, rdy_list, pending, prios, is_limitted>>

\* Mutants: is_new_prio is not looked at; the priority of the software interrupt
\* stays raised.
SettleUnchecked(q, e, lists) ==
    /\ rdy_list' = Moved(lists, e, new_priority[e])
    /\ cur_priority' = [cur_priority EXCEPT ![e] = new_priority[e]]
    /\ new_priority' = [new_priority EXCEPT ![e] = None]
    /\ swi_prio' = [swi_prio EXCEPT ![q] = q]

SettleKeepsSwi(q, e, lists) ==
    IF new_priority[e] = None
    THEN rdy_list' = lists /\ UNCHANGED prios
    ELSE /\ rdy_list' = Moved(lists, e, new_priority[e])
         /\ cur_priority' = [cur_priority EXCEPT ![e] = new_priority[e]]
         /\ new_priority' = [new_priority EXCEPT ![e] = None]
         /\ UNCHANGED swi_prio

\* After a handler its EDA leaves the list, to its tail if it has more events.
Requeued(q, e) ==
    [rdy_list EXCEPT ![q] = LET rest == Unlink(@, e) IN
                            IF evt_list[e] = <<>> THEN rest ELSE Append(rest, e)]

\* Then a priority that had to wait is set, and the interrupt gets its own back.
Settle(q, e, lists) ==
    IF new_priority[e] = None
    THEN rdy_list' = lists /\ UNCHANGED prios
    ELSE /\ rdy_list' = Moved(lists, e, new_priority[e])
         /\ cur_priority' = [cur_priority EXCEPT ![e] = new_priority[e]]
         /\ new_priority' = [new_priority EXCEPT ![e] = None]
         /\ swi_prio' = [swi_prio EXCEPT ![q] = q]

\* Mutant: is_ready is not reset.
HandlerDoneReady(q) ==
    LET e == cur[q] IN
    /\ Top = q /\ e # None
    /\ UNCHANGED is_ready
    /\ Settle(q, e, Requeued(q, e))
    /\ Dispatch(q, NextOf(rdy_list[q], e))
    /\ UNCHANGED <<pending, active, is_limitted>>

\* The handler returns: the inner loop of vsf_evtq_poll() goes on to the EDA
\* that was next in the list.
HandlerDone(q) ==
    LET e == cur[q] IN
    /\ Top = q /\ e # None
    /\ is_ready' = [is_ready EXCEPT ![e] = evt_list[e] # <<>>]
    /\ Settle(q, e, Requeued(q, e))
    /\ Dispatch(q, NextOf(rdy_list[q], e))
    /\ UNCHANGED <<pending, active, is_limitted>>

(* ---------------------------- the kernel ------------------------------ *)

Init ==
    /\ evt_list = [e \in Edas |-> <<>>]
    /\ is_ready = [e \in Edas |-> FALSE] /\ is_limitted = [e \in Edas |-> FALSE]
    /\ cur_priority = priority /\ new_priority = [e \in Edas |-> None]
    /\ rdy_list = [q \in Prios |-> <<>>]
    /\ cur = [q \in Prios |-> None] /\ evt = [q \in Prios |-> None]
    /\ pending = [q \in Prios |-> FALSE]
    /\ swi_prio = [q \in Prios |-> q]
    /\ active = <<>>
    /\ posts = 0 /\ sets = 0

CountPost == posts < MaxPosts /\ posts' = posts + 1

\* A hardware interrupt, or the handler that runs, posts an event. Only the
\* kernel's own posts of VSF_EVT_SYNC are forced.
SomePost ==
    /\ CountPost
    /\ \E e \in Edas, v \in Evts, force \in BOOLEAN : Post(e, v, force)
    /\ UNCHANGED sets

SomeSetPriority ==
    /\ Top # None /\ cur[Top] # None
    /\ sets < MaxSets /\ sets' = sets + 1
    /\ \E e \in Edas, p \in Prios : SetPriority(e, p)
    /\ UNCHANGED posts

\* A handler starts or ends a wait with a timeout.
SomeLimit ==
    /\ \E e \in Edas, b \in BOOLEAN :
          Runs(e) /\ is_limitted' = [is_limitted EXCEPT ![e] = b]
    /\ UNCHANGED <<queues, prios, polls, posts, sets>>

\* What the processor does by itself; a handler always returns.
CpuStep ==
    /\ \E q \in Prios : Preempt(q) \/ PollHead(q) \/ HandlerDone(q)
    /\ UNCHANGED <<posts, sets>>

Next == SomePost \/ SomeSetPriority \/ SomeLimit \/ CpuStep

Spec == Init /\ [][Next]_vars

FairSpec == Spec /\ WF_vars(CpuStep)

(* ---------------------------- properties ------------------------------ *)

\* The types of the kernel's state.
TypeOK ==
    /\ evt_list \in [Edas -> Seq(Evts)]
    /\ is_ready \in [Edas -> BOOLEAN] /\ is_limitted \in [Edas -> BOOLEAN]
    /\ cur_priority \in [Edas -> Prios]
    /\ new_priority \in [Edas -> Prios \cup {None}]
    /\ rdy_list \in [Prios -> Seq(Edas)]
    /\ cur \in [Prios -> Edas \cup {None}]
    /\ evt \in [Prios -> Evts \cup {None}]
    /\ pending \in [Prios -> BOOLEAN]
    /\ swi_prio \in [Prios -> Prios]
    /\ active \in Seq(Prios)
    /\ posts \in 0 .. MaxPosts /\ sets \in 0 .. MaxSets

\* Whatever handlers, interrupts and preemptions do to its priority, an EDA that
\* is ready is linked exactly once, in the queue of its current priority, and
\* an EDA that is not is linked nowhere: neither a second link nor a removal
\* from the wrong queue ever tears a list.
ReadyIsLinked ==
    \A e \in Edas, q \in Prios :
        Cardinality({i \in DOMAIN rdy_list[q] : rdy_list[q][i] = e})
            = IF is_ready[e] /\ cur_priority[e] = q THEN 1 ELSE 0

\* vsf_evtq_poll() never takes an event from an EDA that has none: an EDA in a
\* queue has events left, or the last of them is being dispatched.
ReadyHasEvents ==
    \A e \in Edas : is_ready[e] => evt_list[e] # <<>> \/ IsCurrent(e)

\* No handler is entered while it runs: an EDA whose priority is changed in the
\* middle of its handler is not dispatched to from its new queue before the
\* handler has returned.
NoReentry ==
    \A q \in Prios : cur[q] # None =>
        /\ cur_priority[cur[q]] = q
        /\ \E i \in DOMAIN active : active[i] = q

\* A queue is polled at a raised priority only as long as the handler for which
\* it was raised runs.
RaisedForHandler ==
    \A q \in Prios : swi_prio[q] # q => cur[q] # None /\ new_priority[cur[q]] # None

\* As long as no priority changes, every event posted is dispatched, however
\* many events of the same and of higher priority are posted with it.
EventsAreDispatched ==
    \A e \in Edas : (evt_list[e] # <<>> /\ ~IsCurrent(e)) ~> (IsCurrent(e) \/ sets > 0)
=============================================================================
