----------------------------- MODULE EdaDirect -----------------------------
(* Dispatch without event queues (vsf_eda.c), the kernel the firmware and the *)
(* bootloader are configured with: a post calls the handler of the EDA at     *)
(* once, in the context of the poster. An EDA that is being dispatched to has *)
(* room for one event, which is dispatched when its handler returns.          *)
(*                                                                            *)
(* The main loop runs at level 0, interrupts at the levels above. Calls nest: *)
(* `stack` holds what is under way, and only its last element runs. A         *)
(* hardware interrupt may come between any two steps. Nothing here disables   *)
(* interrupts. A refused post is an assertion, which the configuration of the *)
(* firmware compiles away. Timers are disabled, so no EDA is limited.         *)
EXTENDS Naturals, Sequences, FiniteSets, SequencesExt

CONSTANTS
    Edas,
    Levels,       \* the main loop, and the levels of interrupts
    MaxPosts,     \* bound: posts in a behaviour
    None

ASSUME DirectAssumption ==
    /\ IsFiniteSet(Edas) /\ None \notin Edas \cup Nat
    /\ Levels \subseteq Nat /\ 0 \in Levels
    /\ MaxPosts \in Nat

VARIABLES
    is_processing,
    evt_pending,       \* the event an EDA has room for; events are numbered
    is_evt_incoming,   \* an event is on its way: the EDA need not yield
    cur_eda,           \* __vsf_eda.cur.eda
    stack,             \* the posts under way
    nested,            \* the levels each EDA is posted to from by others' code
    posts,             \* how many events were posted
    yielded,           \* the EDAs that yielded and did not run since
    order,             \* the events dispatched to each EDA, in that order
    accepted,          \* the events a post to each EDA reported VSF_ERR_NONE for
    late               \* the EDAs whose event came after the last look at it

edas    == <<is_processing, evt_pending, is_evt_incoming>>
history == <<yielded, order, accepted, late>>
vars    == <<edas, cur_eda, stack, nested, posts, history>>

Events == 1 .. MaxPosts

\* Where a post is: before the pending event is written, in the handler for the
\* first time, before evt_pending is looked at, in the handler for the pending
\* event, before is_processing is reset.
Places == {"store", "first", "check", "second", "reset"}

Depth == Len(stack)
Top   == stack[Depth]
Level == IF stack = <<>> THEN 0 ELSE Top.level
Runs(e) == stack # <<>> /\ Top.at \in {"first", "second"} /\ Top.eda = e

Init ==
    /\ is_processing = [e \in Edas |-> FALSE]
    /\ evt_pending = [e \in Edas |-> None]
    /\ is_evt_incoming = [e \in Edas |-> FALSE]
    /\ cur_eda = None /\ stack = <<>>
    /\ nested \in [Edas -> SUBSET Levels]
    /\ posts = 0 /\ yielded = {} /\ late = {}
    /\ order = [e \in Edas |-> <<>>] /\ accepted = [e \in Edas |-> {}]

(* ------------------------------ dispatch ------------------------------ *)

\* __vsf_evtq_post_do(): the EDA is the current one, with one before it that is
\* put back when the handler returns.
Dispatch(e, v, place, level, below) ==
    /\ stack' = Append(below, [eda |-> e, evt |-> v, at |-> place, level |-> level,
                               old |-> cur_eda])
    /\ cur_eda' = e
    /\ is_evt_incoming' = [is_evt_incoming EXCEPT ![e] = FALSE]
    /\ order' = [order EXCEPT ![e] = Append(@, v)]

At(place) == [stack EXCEPT ![Depth].at = place]

\* Mutant: the EDA that was current is not put back.
RestoredNever == None

Restored == Top.old

HandlerReturns ==
    /\ stack # <<>> /\ Top.at \in {"first", "second"}
    /\ stack' = At(IF Top.at = "first" THEN "check" ELSE "reset")
    /\ cur_eda' = Restored
    /\ UNCHANGED <<edas, nested, posts, history>>

\* Mutants: the pending event is not looked at; it is dispatched unlooked at;
\* is_processing is reset first.
PendingUnchecked ==
    LET e == Top.eda IN
    /\ stack # <<>> /\ Top.at = "check"
    /\ Dispatch(e, evt_pending[e], "second", Top.level, Front(stack))
    /\ evt_pending' = [evt_pending EXCEPT ![e] = None]
    /\ late' = late \ {e} /\ yielded' = yielded \ {e}
    /\ UNCHANGED <<is_processing, nested, posts, accepted>>

PendingNever ==
    /\ stack # <<>> /\ Top.at = "check"
    /\ stack' = At("reset")
    /\ UNCHANGED <<edas, cur_eda, late, order, yielded>>
    /\ UNCHANGED <<nested, posts, accepted>>

PendingAfterReset ==
    LET e == Top.eda IN
    /\ stack # <<>> /\ Top.at = "check"
    /\ IF is_processing[e]
       THEN /\ is_processing' = [is_processing EXCEPT ![e] = FALSE]
            /\ UNCHANGED <<evt_pending, is_evt_incoming, stack, cur_eda, late, order, yielded>>
       ELSE IF evt_pending[e] = None
       THEN stack' = At("reset") /\ UNCHANGED <<edas, cur_eda, late, order, yielded>>
       ELSE /\ Dispatch(e, evt_pending[e], "second", Top.level, Front(stack))
            /\ evt_pending' = [evt_pending EXCEPT ![e] = None]
            /\ late' = late \ {e} /\ yielded' = yielded \ {e}
            /\ UNCHANGED is_processing
    /\ UNCHANGED <<nested, posts, accepted>>

\* After the first event the pending one, if there is one, is dispatched.
Pending ==
    LET e == Top.eda IN
    /\ stack # <<>> /\ Top.at = "check"
    /\ IF evt_pending[e] = None
       THEN stack' = At("reset") /\ UNCHANGED <<edas, cur_eda, late, order, yielded>>
       ELSE /\ Dispatch(e, evt_pending[e], "second", Top.level, Front(stack))
            /\ evt_pending' = [evt_pending EXCEPT ![e] = None]
            /\ late' = late \ {e} /\ yielded' = yielded \ {e}
            /\ UNCHANGED is_processing
    /\ UNCHANGED <<nested, posts, accepted>>

\* Mutant: evt_pending is reset with is_processing.
ProcessedDropsPending ==
    /\ stack # <<>> /\ Top.at = "reset"
    /\ is_processing' = [is_processing EXCEPT ![Top.eda] = FALSE]
    /\ evt_pending' = [evt_pending EXCEPT ![Top.eda] = None]
    /\ stack' = Front(stack)
    /\ UNCHANGED <<is_evt_incoming, cur_eda, nested, posts, history>>

Processed ==
    /\ stack # <<>> /\ Top.at = "reset"
    /\ is_processing' = [is_processing EXCEPT ![Top.eda] = FALSE]
    /\ stack' = Front(stack)
    /\ UNCHANGED <<evt_pending, is_evt_incoming, cur_eda, nested, posts, history>>

(* ------------------------------- posting ------------------------------ *)

\* __vsf_evtq_post() by code that runs at a level. Between the look at
\* evt_pending and the write an interrupt may come.
Post(e, level) ==
    LET v == posts + 1
        Incoming == is_evt_incoming' = [is_evt_incoming EXCEPT ![e] = TRUE]
    IN
    /\ posts < MaxPosts /\ posts' = v
    /\ \/ /\ ~is_processing[e]
          /\ is_processing' = [is_processing EXCEPT ![e] = TRUE]
          /\ Dispatch(e, v, "first", level, stack)
          /\ accepted' = [accepted EXCEPT ![e] = @ \cup {v}]
       \/ /\ is_processing[e] /\ evt_pending[e] = None
          /\ stack' = Append(stack, [eda |-> e, evt |-> v, at |-> "store",
                                     level |-> level, old |-> cur_eda])
          /\ Incoming
          /\ UNCHANGED <<is_processing, cur_eda, order, accepted>>
       \/ /\ is_processing[e] /\ evt_pending[e] # None
          /\ Incoming
          /\ UNCHANGED <<is_processing, cur_eda, stack, order, accepted>>
    /\ UNCHANGED <<evt_pending, nested, late>>

\* The last dispatch of an EDA looked at evt_pending for the last time.
LookedLast(e) ==
    \E i \in DOMAIN stack : stack[i].eda = e /\ stack[i].at \in {"second", "reset"}

Stored ==
    LET e == Top.eda IN
    /\ stack # <<>> /\ Top.at = "store"
    /\ evt_pending' = [evt_pending EXCEPT ![e] = Top.evt]
    /\ accepted' = [accepted EXCEPT ![e] = @ \cup {Top.evt}]
    /\ late' = IF LookedLast(e) THEN late \cup {e} ELSE late \ {e}
    /\ stack' = Front(stack)
    /\ UNCHANGED <<is_processing, is_evt_incoming, cur_eda, nested, posts, yielded, order>>

\* The main loop, a handler or an interrupt posts; a handler to any EDA.
SomePost ==
    \E e \in Edas, level \in Levels :
        /\ \/ stack = <<>> /\ level = 0
           \/ level \in nested[e] /\ level > Level
           \/ level \in nested[e] /\ level = Level /\ \E x \in Edas : Runs(x)
        /\ Post(e, level)
        /\ yielded' = IF is_processing[e] THEN yielded ELSE yielded \ {e}

\* vsf_eda_yield(): a task asks to be run again, unless an event is coming.
Yield ==
    \E e \in Edas :
        /\ Runs(e) /\ Level \in nested[e] /\ e \notin yielded
        /\ IF is_evt_incoming[e]
           THEN UNCHANGED <<edas, cur_eda, stack, nested, posts, order, accepted, late>>
           ELSE Post(e, Level)
        /\ yielded' = yielded \cup {e}

CpuStep == HandlerReturns \/ Pending \/ Processed \/ Stored

Next == CpuStep \/ SomePost \/ Yield

Spec == Init /\ [][Next]_vars

\* The processor goes on, and handlers return.
FairSpec == Spec /\ WF_vars(CpuStep)

(* ---------------------------- properties ------------------------------ *)

\* The types of the state.
TypeOK ==
    /\ is_processing \in [Edas -> BOOLEAN]
    /\ evt_pending \in [Edas -> Events \cup {None}]
    /\ is_evt_incoming \in [Edas -> BOOLEAN]
    /\ cur_eda \in Edas \cup {None}
    /\ stack \in Seq([eda : Edas, evt : Events, at : Places, level : Levels,
                      old : Edas \cup {None}])
    /\ nested \in [Edas -> SUBSET Levels]
    /\ posts \in 0 .. MaxPosts
    /\ yielded \subseteq Edas /\ late \subseteq Edas
    /\ order \in [Edas -> Seq(Events)]
    /\ accepted \in [Edas -> SUBSET Events]

\* However posts from the main loop, from handlers and from interrupts nest, no
\* handler is entered while it runs: an EDA is dispatched to by one post at a time.
NoReentry ==
    \A i, j \in DOMAIN stack :
        (stack[i].at # "store" /\ stack[j].at # "store" /\ stack[i].eda = stack[j].eda) => i = j

\* vsf_eda_get_cur() is the EDA whose handler runs, in every handler and again in
\* those that were interrupted: waits and calls are made for that EDA.
CurIsRunning == \A e \in Edas : Runs(e) => cur_eda = e

\* An event that was accepted is dispatched or still there, for an EDA that code
\* at one level only posts to while it may be running. With two levels the later
\* post overwrites the one that came between its look and its write.
OneLevel(e) == \A a, b \in nested[e] : a = b

AcceptedKept ==
    \A e \in Edas : OneLevel(e) => accepted[e] \subseteq Range(order[e]) \cup {evt_pending[e]}

\* No event is dispatched twice, and none is overtaken by more than one later
\* event: what comes too late for the last look is next but one.
OvertakenByOne ==
    \A e \in Edas : \A i \in DOMAIN order[e] :
        /\ Cardinality({j \in 1 .. i - 1 : order[e][j] > order[e][i]}) <= 1
        /\ \A j \in 1 .. i - 1 : order[e][j] # order[e][i]

\* An event that comes before the last look is dispatched before the post that
\* the EDA is processing returns.
PendingIsDispatched ==
    \A e \in Edas : (evt_pending[e] # None /\ e \notin late) ~> evt_pending[e] = None

\* "yield and try it again (automatically)": a task that yields runs again. Not so
\* when it yields, or returns from a call, while its pending event is dispatched:
\* the event that it posts itself stays until somebody else posts one.
YieldRunsAgain == \A e \in Edas : e \in yielded ~> e \notin yielded
=============================================================================
