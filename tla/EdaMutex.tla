------------------------------ MODULE EdaMutex ------------------------------
(* vsf_mutex_t, the vsf_sync_t with an owner (vsf_eda_sync.c), on the event   *)
(* queues of the preemptive kernel: EDAs of different priorities enter and    *)
(* leave one mutex while interrupts post events to them. Waits are without a  *)
(* timeout.                                                                   *)
(*                                                                            *)
(* What the code does with the scheduler locked is one step: no other EDA     *)
(* runs in between. Leaving takes several, for the lock is dropped before the *)
(* next owner is posted its VSF_EVT_SYNC.                                     *)
EXTENDS EvtqList

CONSTANTS
    MaxEnters,     \* bound: attempts to enter in a behaviour
    HoldsAcross    \* an owner may return from its handler and leave in a later one

ASSUME MutexAssumption ==
    /\ Evts = {"SYNC", "USER"}
    /\ MaxEnters \in Nat /\ HoldsAcross \in BOOLEAN

VARIABLES
    cur_value,     \* cur_union.bits.cur
    eda_owner,
    pending_list,
    st,            \* where each EDA is: idle, waiting, owns or leaving
    wakes,         \* the EDA it has yet to post VSF_EVT_SYNC to
    enters

mutex   == <<cur_value, eda_owner, pending_list>>
mvars   == <<mutex, st, wakes, enters>>
allvars == <<vars, mvars>>

MutexInit ==
    /\ Init
    /\ cur_value = 1 /\ eda_owner = None /\ pending_list = <<>>
    /\ st = [e \in Edas |-> "idle"] /\ wakes = [e \in Edas |-> None]
    /\ enters = 0

\* __vsf_eda_get_cur_priority()
ActualPriority(e) == IF new_priority[e] # None THEN new_priority[e] ELSE cur_priority[e]

\* e goes before the first that has a lower priority.
Inserted(list, e) ==
    LET lower == {i \in DOMAIN list : cur_priority[list[i]] < ActualPriority(e)}
        at    == IF lower = {} THEN Len(list) + 1 ELSE Min(lower)
    IN  SubSeq(list, 1, at - 1) \o <<e>> \o SubSeq(list, at, Len(list))

(* ------------------------ vsf_eda_sync_decrease ----------------------- *)

Free == cur_value > 0 /\ pending_list = <<>>

EnterAtOnce(e) ==
    /\ Runs(e) /\ st[e] = "idle" /\ Free
    /\ cur_value' = cur_value - 1
    /\ eda_owner' = e
    /\ st' = [st EXCEPT ![e] = "owns"]
    /\ UNCHANGED <<kernel, pending_list, wakes>>

\* The owner inherits the priority of a waiter that has a higher one.
Inherit(e) ==
    IF cur_priority[e] > cur_priority[eda_owner]
    THEN SetPriority(eda_owner, cur_priority[e])
    ELSE UNCHANGED kernel

EnterPends(e) ==
    /\ Runs(e) /\ st[e] = "idle" /\ ~Free
    /\ pending_list' = Inserted(pending_list, e)
    /\ Inherit(e)
    /\ st' = [st EXCEPT ![e] = "waiting"]
    /\ UNCHANGED <<cur_value, eda_owner, wakes>>

\* Mutant: any event ends the wait.
GetReasonUnchecked(e) ==
    /\ Runs(e) /\ st[e] = "waiting" /\ evt[Top] # None
    /\ is_limitted' = [is_limitted EXCEPT ![e] = FALSE]
    /\ evt' = [evt EXCEPT ![Top] = None]
    /\ st' = [st EXCEPT ![e] = "owns"]
    /\ UNCHANGED <<queues, prios, cur, active, mutex, wakes>>

\* VSF_EVT_SYNC reaches the handler of a waiter, which takes it.
GetReason(e) ==
    /\ Runs(e) /\ st[e] = "waiting" /\ evt[Top] = "SYNC"
    /\ is_limitted' = [is_limitted EXCEPT ![e] = FALSE]
    /\ evt' = [evt EXCEPT ![Top] = None]
    /\ st' = [st EXCEPT ![e] = "owns"]
    /\ UNCHANGED <<queues, prios, cur, active, mutex, wakes>>

(* ------------------------ vsf_eda_sync_increase ----------------------- *)

\* Mutants: the mutex is free although it has a next owner; the next owner is
\* not told.
HandOverKeepsCount(e, value) ==
    IF pending_list = <<>>
    THEN /\ cur_value' = value /\ eda_owner' = None
         /\ st' = [st EXCEPT ![e] = "idle"]
         /\ UNCHANGED <<pending_list, wakes>>
    ELSE /\ cur_value' = value
         /\ eda_owner' = Head(pending_list)
         /\ pending_list' = Tail(pending_list)
         /\ wakes' = [wakes EXCEPT ![e] = Head(pending_list)]
         /\ st' = [st EXCEPT ![e] = "leaving"]

HandOverSilent(e, value) ==
    IF pending_list = <<>>
    THEN /\ cur_value' = value /\ eda_owner' = None
         /\ st' = [st EXCEPT ![e] = "idle"]
         /\ UNCHANGED <<pending_list, wakes>>
    ELSE /\ cur_value' = value - 1
         /\ eda_owner' = Head(pending_list)
         /\ pending_list' = Tail(pending_list)
         /\ st' = [st EXCEPT ![e] = "idle"]
         /\ UNCHANGED wakes

\* One round of the loop: the mutex goes to the first that waits for it.
HandOver(e, value) ==
    IF pending_list = <<>>
    THEN /\ cur_value' = value /\ eda_owner' = None
         /\ st' = [st EXCEPT ![e] = "idle"]
         /\ UNCHANGED <<pending_list, wakes>>
    ELSE /\ cur_value' = value - 1
         /\ eda_owner' = Head(pending_list)
         /\ pending_list' = Tail(pending_list)
         /\ wakes' = [wakes EXCEPT ![e] = Head(pending_list)]
         /\ st' = [st EXCEPT ![e] = "leaving"]

\* The owner gives back the priority it inherited, and the mutex.
Leave(e) ==
    /\ Runs(e) /\ st[e] = "owns" /\ cur_value < 1
    /\ IF cur_priority[e] # priority[e]
       THEN SetPriority(e, priority[e])
       ELSE UNCHANGED kernel
    /\ HandOver(e, cur_value + 1)

PostSync(e) ==
    /\ Runs(e) /\ st[e] = "leaving" /\ wakes[e] # None
    /\ Post(wakes[e], "SYNC", TRUE)
    /\ wakes' = [wakes EXCEPT ![e] = None]
    /\ UNCHANGED <<mutex, st>>

\* The lock is taken again, and the count looked at again.
LeaveAgain(e) ==
    /\ Runs(e) /\ st[e] = "leaving" /\ wakes[e] = None
    /\ IF cur_value > 0 /\ pending_list # <<>>
       THEN HandOver(e, cur_value)
       ELSE st' = [st EXCEPT ![e] = "idle"] /\ UNCHANGED <<mutex, wakes>>
    /\ UNCHANGED kernel

(* ----------------------------- everything ----------------------------- *)

\* A handler returns when it is at the end of what the mutex has it do.
MayReturn(e) ==
    /\ Runs(e)
    /\ st[e] # "leaving"
    /\ ~(st[e] = "waiting" /\ evt[Top] = "SYNC")
    /\ HoldsAcross \/ st[e] # "owns"

Enters == enters < MaxEnters /\ enters' = enters + 1 /\ UNCHANGED <<posts, sets>>

MutexStep ==
    /\ \E e \in Edas : GetReason(e) \/ Leave(e) \/ PostSync(e) \/ LeaveAgain(e)
    /\ UNCHANGED <<posts, sets, enters>>

KernelStep ==
    /\ \E q \in Prios :
          \/ Preempt(q)
          \/ PollHead(q)
          \/ (\E e \in Edas : MayReturn(e)) /\ HandlerDone(q)
    /\ UNCHANGED <<posts, sets, mvars>>

\* An interrupt, or a handler, posts an event that is none of the mutex's.
UserPost ==
    /\ CountPost
    /\ \E e \in Edas : Post(e, "USER", FALSE)
    /\ UNCHANGED <<sets, mvars>>

MutexNext ==
    \/ \E e \in Edas : (EnterAtOnce(e) \/ EnterPends(e)) /\ Enters
    \/ MutexStep
    \/ KernelStep
    \/ UserPost

MutexSpec == MutexInit /\ [][MutexNext]_allvars

\* The processor goes on: what runs takes its next step or returns.
FairMutexSpec == MutexSpec /\ WF_allvars(MutexStep \/ KernelStep)

(* ---------------------------- properties ------------------------------ *)

\* An EDA that is in the mutex is its owner, however it got there, so no two are
\* in it, and the owner is known as long as the mutex is taken: the assertions of
\* vsf_eda_sync_increase_ex() and vsf_eda_sync_decrease_ex() hold, and neither
\* follows a NULL owner.
OneOwner ==
    /\ \A e \in Edas : st[e] = "owns" => eda_owner = e
    /\ cur_value = (IF eda_owner = None THEN 1 ELSE 0)
    /\ pending_list # <<>> => eda_owner # None

\* No waiter is forgotten between the lock that is dropped and the event that is
\* posted: it is in the list, or it owns the mutex and its VSF_EVT_SYNC has come,
\* is on its way or is about to be posted by the one that left.
NoWaiterForgotten ==
    \A e \in Edas : st[e] = "waiting" =>
        \/ Linked(pending_list, e) /\ eda_owner # e
        \/ /\ eda_owner = e
           /\ \/ Linked(evt_list[e], "SYNC")
              \/ \E q \in Prios : cur[q] = e /\ evt[q] = "SYNC"
              \/ \E x \in Edas : wakes[x] = e

\* An EDA that is neither waiting nor the owner is not woken: no VSF_EVT_SYNC is
\* left over for a wait that comes later.
NoStraySync ==
    \A e \in Edas : Linked(evt_list[e], "SYNC") => st[e] = "waiting" /\ eda_owner = e

\* An owner that returned from its handler keeps the mutex; an EDA is ready in a
\* queue that nobody activated.
Keeps(e)  == st[e] = "owns" /\ ~IsCurrent(e)
Forgotten == \E q \in Prios : rdy_list[q] # <<>> /\ ~pending[q] /\ ~Linked(active, q)

\* Everyone who waits for the mutex gets it, unless its owner keeps it for good or
\* a change of priority leaves an EDA in a queue that is not activated
\* (OpportunityToRun says how that happens).
WaitersGetIt ==
    \A e \in Edas : st[e] = "waiting" ~>
        (st[e] = "owns" \/ []((\E x \in Edas : Keeps(x)) \/ Forgotten))

\* "so the eda will always have an opportunity to run": an EDA that has an event
\* is dispatched to. Not so when its priority changes while it has more events: it
\* is moved to a queue that is not activated.
OpportunityToRun ==
    \A e \in Edas : (evt_list[e] # <<>> /\ ~IsCurrent(e)) ~> IsCurrent(e)
=============================================================================
