------------------------------- MODULE EdaSync ------------------------------
(* vsf_sync_t without an owner (vsf_eda_sync.c): semaphores and events that   *)
(* EDAs of one priority wait for with and without a timeout, on the event     *)
(* queues of the preemptive kernel and the timers of vsf_eda_timer.c.         *)
(*                                                                            *)
(* What the code does with the scheduler locked is one step. The task of the  *)
(* kernel, which hands out VSF_EVT_TIMER, has the highest priority and may    *)
(* come between two steps, and so may interrupts that post events. Time is    *)
(* left out: a timer that is set may be due at any moment.                    *)
(* is_sync_got is set in one step, as if is_ready were not in the same byte.  *)
EXTENDS EvtqList

CONSTANTS
    MaxValue,      \* max_union.bits.max
    MaxOps         \* bound: calls in a behaviour

\* One priority: no other EDA comes in the middle of a handler.
ASSUME SyncAssumption ==
    /\ {"SYNC", "SYNC_CANCEL", "TIMER", "USER"} \subseteq Evts
    /\ \A x, y \in Edas : priority[x] = priority[y]
    /\ MaxValue \in Nat \ {0} /\ MaxOps \in Nat

VARIABLES
    manual_rst,    \* max_union.bits.manual_rst
    cur_value,     \* cur_union.bits.cur
    pending_list,
    is_sync_got,
    is_timed,
    st,            \* what each EDA does: idle, waiting, increasing, cancelling
    wakes,         \* the EDA it has yet to post an event to
    woken,         \* the event that ends the wait of each EDA, once it is out of the list
    units,         \* how often the value was increased less how often it was got
    refused,       \* the waits whose VSF_EVT_TIMER was refused for another event
    ops

sync    == <<cur_value, pending_list>>
ghosts  == <<woken, units, refused>>
svars   == <<manual_rst, sync, is_sync_got, is_timed, st, wakes, ghosts, ops>>
allvars == <<vars, svars>>

SyncInit ==
    /\ Init
    /\ manual_rst \in BOOLEAN /\ cur_value \in 0 .. MaxValue /\ pending_list = <<>>
    /\ is_sync_got = [e \in Edas |-> FALSE] /\ is_timed = [e \in Edas |-> FALSE]
    /\ st = [e \in Edas |-> "idle"] /\ wakes = [e \in Edas |-> None]
    /\ woken = [e \in Edas |-> None] /\ units = cur_value /\ refused = {}
    /\ ops = 0

Calls(e) == Runs(e) /\ st[e] = "idle" /\ ops < MaxOps /\ ops' = ops + 1

(* ----------------------- vsf_eda_sync_decrease ------------------------ *)

DecreaseNow(e) ==
    /\ Calls(e) /\ cur_value > 0 /\ pending_list = <<>>
    /\ cur_value' = IF manual_rst THEN cur_value ELSE cur_value - 1
    /\ units' = IF manual_rst THEN units ELSE units - 1
    /\ UNCHANGED <<kernel, pending_list, is_sync_got, is_timed, st, wakes, woken, refused>>

\* With a timeout the EDA is limited to one event.
DecreasePends(e, timed) ==
    /\ Calls(e) /\ ~(cur_value > 0 /\ pending_list = <<>>)
    /\ pending_list' = Append(pending_list, e)
    /\ st' = [st EXCEPT ![e] = "waiting"]
    /\ is_timed' = [is_timed EXCEPT ![e] = timed]
    /\ is_limitted' = [is_limitted EXCEPT ![e] = @ \/ timed]
    /\ refused' = refused \ {e}
    /\ UNCHANGED <<queues, prios, polls, cur_value, is_sync_got, wakes, woken, units>>

(* ----------------------- vsf_eda_sync_increase ------------------------ *)

\* The first that waits is taken out of the list; it has yet to be told.
Dequeue(e, evt_) ==
    LET first == Head(pending_list) IN
    /\ pending_list' = Tail(pending_list)
    /\ is_sync_got' = [is_sync_got EXCEPT ![first] = TRUE]
    /\ wakes' = [wakes EXCEPT ![e] = first]
    /\ woken' = [woken EXCEPT ![first] = evt_]

\* Mutant: one more unit is given away than there is.
HandOneKept(e, value) ==
    IF value > 0 /\ pending_list # <<>>
    THEN /\ Dequeue(e, "SYNC")
         /\ cur_value' = value
         /\ st' = [st EXCEPT ![e] = "increasing"]
    ELSE /\ cur_value' = value
         /\ st' = [st EXCEPT ![e] = "idle"]
         /\ UNCHANGED <<pending_list, is_sync_got, wakes, woken>>

\* One round of the loop.
HandOne(e, value) ==
    IF value > 0 /\ pending_list # <<>>
    THEN /\ Dequeue(e, "SYNC")
         /\ cur_value' = IF manual_rst THEN value ELSE value - 1
         /\ st' = [st EXCEPT ![e] = "increasing"]
    ELSE /\ cur_value' = value
         /\ st' = [st EXCEPT ![e] = "idle"]
         /\ UNCHANGED <<pending_list, is_sync_got, wakes, woken>>

Increase(e) ==
    /\ Calls(e) /\ cur_value < MaxValue
    /\ HandOne(e, cur_value + 1)
    /\ units' = units + 1
    /\ UNCHANGED <<kernel, is_timed, refused>>

\* Mutant: one round is all.
IncreaseAgainNever(e) ==
    /\ Runs(e) /\ st[e] = "increasing" /\ wakes[e] = None
    /\ st' = [st EXCEPT ![e] = "idle"]
    /\ UNCHANGED <<kernel, cur_value, pending_list, is_sync_got, wakes, woken>>
    /\ UNCHANGED <<is_timed, units, refused>>

IncreaseAgain(e) ==
    /\ Runs(e) /\ st[e] = "increasing" /\ wakes[e] = None
    /\ HandOne(e, cur_value)
    /\ UNCHANGED <<kernel, is_timed, units, refused>>

\* Mutant: the post is refused when the EDA has its VSF_EVT_TIMER already.
PostWakeUnforced(e) ==
    /\ Runs(e) /\ wakes[e] # None
    /\ Post(wakes[e], woken[wakes[e]], FALSE)
    /\ wakes' = [wakes EXCEPT ![e] = None]
    /\ UNCHANGED <<sync, is_sync_got, is_timed, st, ghosts>>

PostWake(e) ==
    /\ Runs(e) /\ wakes[e] # None
    /\ Post(wakes[e], woken[wakes[e]], TRUE)
    /\ wakes' = [wakes EXCEPT ![e] = None]
    /\ UNCHANGED <<sync, is_sync_got, is_timed, st, ghosts>>

(* ---------------- vsf_eda_sync_cancel, ..._force_reset ---------------- *)

CancelOne(e) ==
    IF pending_list # <<>>
    THEN Dequeue(e, "SYNC_CANCEL") /\ st' = [st EXCEPT ![e] = "cancelling"]
    ELSE st' = [st EXCEPT ![e] = "idle"] /\ UNCHANGED <<pending_list, is_sync_got, wakes, woken>>

Cancel(e) ==
    /\ Calls(e) /\ CancelOne(e)
    /\ UNCHANGED <<kernel, cur_value, is_timed, units, refused>>

CancelAgain(e) ==
    /\ Runs(e) /\ st[e] = "cancelling" /\ wakes[e] = None
    /\ CancelOne(e)
    /\ UNCHANGED <<kernel, cur_value, is_timed, units, refused>>

ForceReset(e) ==
    /\ Calls(e)
    /\ cur_value' = 0 /\ units' = units - cur_value
    /\ UNCHANGED <<kernel, pending_list, is_sync_got, is_timed, st, wakes, woken, refused>>

(* ---------------------- vsf_eda_sync_get_reason ----------------------- *)

Handled == evt' = [evt EXCEPT ![Top] = None]

WaitEnds(e) ==
    /\ st' = [st EXCEPT ![e] = "idle"]
    /\ is_limitted' = [is_limitted EXCEPT ![e] = FALSE]

\* A timeout is none when the EDA was told, now or in an earlier wait: nothing
\* resets is_sync_got. Mutants: it is not looked at; every timeout is late.
TimedOutUnchecked(e) ==
    /\ Runs(e) /\ st[e] = "waiting" /\ evt[Top] = "TIMER"
    /\ pending_list' = Unlink(pending_list, e) /\ WaitEnds(e)
    /\ Handled
    /\ UNCHANGED <<queues, prios, cur, active, cur_value, is_sync_got, is_timed, wakes, ghosts>>

TimedOutNever(e) ==
    /\ Runs(e) /\ st[e] = "waiting" /\ evt[Top] = "TIMER"
    /\ Handled
    /\ UNCHANGED <<pending_list, st, is_limitted>>
    /\ UNCHANGED <<queues, prios, cur, active, cur_value, is_sync_got, is_timed, wakes, ghosts>>

TimedOut(e) ==
    /\ Runs(e) /\ st[e] = "waiting" /\ evt[Top] = "TIMER"
    /\ IF is_sync_got[e]
       THEN UNCHANGED <<pending_list, st, is_limitted>>
       ELSE pending_list' = Unlink(pending_list, e) /\ WaitEnds(e)
    /\ Handled
    /\ UNCHANGED <<queues, prios, cur, active, cur_value, is_sync_got, is_timed, wakes, ghosts>>

\* The branch for any other event only asserts (vsf_eda_sync.c:134-136): the
\* handler of a waiter asks for the reason of these three.
Got(e) ==
    /\ Runs(e) /\ st[e] = "waiting" /\ evt[Top] \in {"SYNC", "SYNC_CANCEL"}
    /\ WaitEnds(e) /\ Handled
    /\ is_timed' = [is_timed EXCEPT ![e] = FALSE]
    /\ woken' = [woken EXCEPT ![e] = None]
    /\ units' = IF evt[Top] = "SYNC" /\ ~manual_rst THEN units - 1 ELSE units
    /\ UNCHANGED <<queues, prios, cur, active, sync, is_sync_got, wakes, refused>>

(* ----------------------------- everything ----------------------------- *)

\* VSF_EVT_TIMER of the kernel's task: one timer is due.
TimerDue(e) ==
    /\ is_timed[e]
    /\ is_timed' = [is_timed EXCEPT ![e] = FALSE]
    /\ Post(e, "TIMER", FALSE)
    /\ refused' = IF Accepts(e, FALSE) THEN refused ELSE refused \cup {e}
    /\ UNCHANGED <<sync, is_sync_got, st, wakes, woken, units>>

OpStep ==
    /\ \E e \in Edas : \/ DecreaseNow(e) \/ (\E timed \in BOOLEAN : DecreasePends(e, timed))
                       \/ Increase(e) \/ Cancel(e) \/ ForceReset(e)
    /\ UNCHANGED <<posts, sets, manual_rst>>

SyncStep ==
    /\ \E e \in Edas : \/ IncreaseAgain(e) \/ CancelAgain(e) \/ PostWake(e)
                       \/ TimedOut(e) \/ Got(e)
    /\ UNCHANGED <<posts, sets, manual_rst, ops>>

TimerStep(e) == TimerDue(e) /\ UNCHANGED <<posts, sets, manual_rst, ops>>

\* A handler returns when it has nothing more to do for the event.
MayReturn(e) ==
    /\ Runs(e) /\ st[e] \notin {"increasing", "cancelling"}
    /\ ~(st[e] = "waiting" /\ evt[Top] \in {"SYNC", "SYNC_CANCEL", "TIMER"})

KernelStep ==
    /\ \E q \in Prios :
          \/ Preempt(q)
          \/ PollHead(q)
          \/ (\E e \in Edas : MayReturn(e)) /\ HandlerDone(q)
    /\ UNCHANGED <<posts, sets, svars>>

\* An interrupt or a handler posts an event that is none of these.
UserPost ==
    /\ CountPost
    /\ \E e \in Edas : Post(e, "USER", FALSE)
    /\ UNCHANGED <<sets, svars>>

SyncNext == OpStep \/ SyncStep \/ KernelStep \/ UserPost \/ \E e \in Edas : TimerStep(e)

SyncSpec == SyncInit /\ [][SyncNext]_allvars

\* The processor goes on, and time does.
FairSyncSpec ==
    /\ SyncSpec
    /\ WF_allvars(SyncStep \/ KernelStep)
    /\ \A e \in Edas : WF_allvars(TimerStep(e))

(* ---------------------------- properties ------------------------------ *)

\* No unit of a semaphore is lost or given twice, also when the one that gets it
\* times out at the same time: what was increased and not yet got is in the value
\* or on its way to an EDA that waits.
UnitsConserved ==
    ~manual_rst => units = cur_value + Cardinality({e \in Edas : woken[e] = "SYNC"})

\* A wait that is over, one way or the other, leaves nothing behind for the next
\* one: no link in the list, no timer, no event; and a wait that is not over is in
\* the list once or has been told once.
Told(e) ==
    Cardinality({x \in Edas : wakes[x] = e})
        + Cardinality({i \in DOMAIN evt_list[e] : evt_list[e][i] \in {"SYNC", "SYNC_CANCEL"}})
        + Cardinality({q \in Prios : cur[q] = e /\ evt[q] \in {"SYNC", "SYNC_CANCEL"}})
Links(e) == Cardinality({i \in DOMAIN pending_list : pending_list[i] = e})

WaitsAreClean ==
    \A e \in Edas :
        /\ Told(e) = IF woken[e] # None THEN 1 ELSE 0
        /\ Links(e) = IF st[e] = "waiting" /\ woken[e] = None THEN 1 ELSE 0
        /\ st[e] # "waiting" => /\ ~is_timed[e] /\ woken[e] = None /\ ~is_limitted[e]
                                /\ ~Linked(evt_list[e], "TIMER")

\* Nobody waits for what is there: while the value is positive and an EDA is in
\* the list, one that increases is about to hand it over.
NobodyWaitsInVain ==
    (cur_value > 0 /\ pending_list # <<>>) => \E e \in Edas : st[e] = "increasing"

\* A wait with a timeout ends, unless the EDA was told in a wait before this one
\* (is_sync_got is set for good, and its VSF_EVT_TIMER is taken for a late one) or
\* another event was in its way when VSF_EVT_TIMER was posted.
TimedWaitEnds ==
    \A e \in Edas : (st[e] = "waiting" /\ is_timed[e] /\ ~is_sync_got[e])
                        ~> (st[e] # "waiting" \/ e \in refused)

\* An EDA that is told does end its wait.
ToldWaitEnds == \A e \in Edas : woken[e] # None ~> st[e] # "waiting"
=============================================================================
