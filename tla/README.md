# A TLA+ model of vllink_lite and of the VSF kernel under it

vllink_lite is the firmware of a USB debug probe. The repository holds its
bootloader (a DFU device), the main program that starts its USB device, the HAL
drivers of two GigaDevice chips, and the framework everything is built on, VSF:
an event-driven kernel, services (streams, heap, pools), a USB stack and many
components the probe does not use.

The specifications here cover the parts where an error would cost most: the
bootloader, whose mistakes brick the probe; the kernel, on whose interleavings
everything else rests, in both of its configurations; the heap it takes its
frames from; and the ring through which interrupts, threads and USB endpoints
exchange bytes.

## 1. Inventory

Paths are relative to `src/source/`. "Hard" names the behaviours that are hard
to test.

| part | state | operations | hard | what makes it correct |
|---|---|---|---|---|
| DFU bootloader, `project_vllink_lite/vllink_lite_bootloader/{main,vsf_dfu}.c` | DFU state, block number, block size, address, one buffer, the firmware area | boot decision; DNLOAD, UPLOAD, GETSTATUS, CLRSTATUS, GETSTATE, ABORT, each in a setup, a data and a status stage; bus reset | power fails between two flash operations, answers get lost, hosts retry | programs only what is erased and only in its area; of an image that fits, what it counts as downloaded is stored; a download can always be finished |
| flash driver, `vsf_private/hal/driver/GigaDevice/*/common/flash.c` | the flash | erase pages, write words | torn pages and words | - |
| event queues on lists, `vsf/kernel/vsf_evtq_list.c` | a list of ready EDAs per priority, a list of events per EDA, priorities, deferred priorities | post, poll, set priority, terminate | interrupts post and polls of higher priority preempt anywhere; priorities change while lists are walked | every ready EDA is linked once, in the right list; handlers are not re-entered; events are dispatched |
| event queues on arrays, `vsf/kernel/vsf_evtq_array.c` | a ring of (EDA, event) per priority, a count of events per EDA | post, poll, terminate | the ring is read without a lock while interrupts post | nothing read is overwritten; an EDA that exits is terminated once, after its events |
| OS, `vsf/kernel/vsf_os.c` | the software interrupts and their priorities, the pool of event nodes | trigger, poll, raise | nesting | a raised interrupt gets its priority back |
| synchronisation objects, `vsf/kernel/__eda/vsf_eda_sync.c` | a count, a limit, a list of waiting EDAs, an owner | decrease (wait), increase (post), cancel, time out | the lock is dropped between the hand-over and the event; a time-out races with a hand-over; inheritance meets deferred priorities | mutual exclusion, no lost wake-up, no stray one, everyone gets it |
| EDA dispatch, `vsf/kernel/vsf_eda.c` | current EDA and event, frames, one pending event per EDA without event queues | dispatch, sub-call, return, terminate | posts nest without event queues: an interrupt posts while a handler runs, or between two lines of a post | handlers are not re-entered; an accepted event is not lost; the current EDA is the one that runs |
| timers, `vsf/kernel/__eda/vsf_eda_timer.c` | a list of EDAs by due time, a list of callback timers | set, cancel, expire | tick wrap; a timer that expires while it is cancelled | due timers fire once, in order |
| EDA queues, `vsf/kernel/__eda/vsf_eda_queue.c` | a bounded queue, who waits for room, who waits for data | send, receive, time out | both sides wait | both sides are woken |
| bitmap events, `vsf/kernel/__eda/vsf_eda_bmpevt.c` | a mask, a list of adapters | set, reset, poll, cancel | adapters act while the mask changes | who waits for bits that are set is woken |
| threads, tasks, `vsf/kernel/task/` | a stack or a frame per thread | wait for an event | - | - |
| memory stream, `vsf/service/vsfstream/mem_stream/` | a ring: positions, size of the data, a mark that a write is under way | read, write, take the buffer to write or read in place | an interrupt cuts into a call of the other side, or into the time a client works in the buffer | bytes come out as they went in |
| stream notification, `vsf/service/vsfstream/vsfstream.c` | who is told when it drains or fills, and whether he was | read, write, connect, thresholds | callbacks from both sides | nobody sleeps on a full or an empty ring for ever |
| fifo and block streams, `vsf/service/vsfstream/{fifo,block}_stream/` | two other rings | read, write | as the memory stream | as the memory stream |
| heap, `vsf/service/heap/vsf_heap.c` | the blocks of each region, a list of free ones | add, allocate (aligned), free, realloc, free a part | splits and merges at boundaries; a free is three critical sections | blocks never overlap; nothing is lost; free neighbours are one block |
| pool, `vsf/service/pool/vsf_pool.c` | a list of free blocks and of waiting EDAs | allocate, free, wait | a wait meets a free | nobody waits while a block is free |
| USB device core, `vsf/component/usb/device/vsf_usbd.c` | the transfers in progress, the control transfer | setup, data, status, reset, endpoint transfers | a second setup cuts the first off; endpoints on streams restart each other | a transfer is in the list once; it keeps its part of the stream; an endpoint that can go on does |
| USB device classes, `vsf/component/usb/device/class/` | a pair of streams (CDC), a command state (MSC) | class requests, connect | - | - |
| USB controller, `vsf/component/usb/driver/otg/dwcotg/` | registers, one transfer per endpoint | interrupts | - | - |
| serial port, `vsf_private/hal/.../usart.c` | a ring filled by DMA | read, write | overrun | - |
| everything else (host stack, UI, audio, file systems, network, other chips' HALs, boards) | | | | not built into this firmware |

How they interact: hardware interrupts post events to EDAs (`vsf_eda_post_evt`)
or, in the bootloader, run the USB device core, which calls
`vsf_usbd_notify_user()` for each stage of a control transfer. An event makes
its EDA ready in the queue of its priority and triggers the queue's software
interrupt, which polls the queue and calls handlers. Handlers post events, wait
on synchronisation objects (a handler returns and is called again with
`VSF_EVT_SYNC`), set timers and change priorities. Synchronisation objects keep
lists of EDAs and use the event queues to wake them; streams, queues and pools
are built on both.

## 2. Modules

```
FirmwareImage            what a download promises (abstract)
    ^ refinement
DfuHost                  a host that follows the protocol, faults, users
    v EXTENDS                                                  } DfuProofs
DfuBootloader            the device, and any host

Dlist                    the list calls that EvtqList and Heap extend
EvtqList                 event queues, nested polls, priorities <- EvtqListProofs
    ^ EXTENDS                                                      ^ EXTENDS
EdaMutex                 vsf_mutex_t with inheritance       <- EdaMutexProofs
EdaSync                  semaphores and events with timeouts <- EdaSyncProofs
EdaDirect                the kernel without event queues <- EdaDirectProofs
Heap                     blocks, aligned allocation, frees in three steps
                                                         <- HeapProofs

ByteFifo                 what a byte stream promises (abstract)
    ^ refinement
MemStream                the ring, two contexts          <- MemStreamProofs
UsbStream                the stream's notifications and two USB endpoints
                                                         <- UsbStreamProofs
MC...                    instances for TLC
```

### DfuBootloader

State as in `vsf_dfu.c` (`bState`, `block_idx`, `buffer_size`, `addr`,
`buffer`), the control transfer on endpoint 0 (`ctrl`: request, length, how much
of its data has come, and whether it was given the buffer), the firmware area
(`flash`, a function from addresses to bytes) and the place in
`usrapp_flash_erase_write()` (`prog`). After `main()` everything happens in the
USB interrupt, so a handler is atomic for the host; but a power failure can hit
it, so the flash routine takes one step per erased page and per written word,
and `PowerOff` leaves the page or word at hand `Torn`.

| action | code |
|---|---|
| `PowerOn` | `main()`: the key, the two words of the vector table |
| `OnReset` | `USB_ON_RESET` |
| `SetupDnload`, `SetupUpload`, `SetupOther` | `USB_ON_SETUP` |
| `DataOut`, `DataOutNull` | the data stage: `USB_ON_OUT`, and the receive routine of the controller when the request was refused a buffer |
| `StatusDnload`, `StatusGetStatusSync`, `StatusGetStatus`, `StatusToIdle`, `StatusRead` | `USB_ON_STATUS` |
| `EraseStep`, `WriteStep`, `WriteFault`, `BlockProgrammed` | `usrapp_flash_erase_write()`, `vsfhal_flash_*()` and the three assignments after it |

Data is abstract: bytes are members of `Data`, `Old` is a byte of the previous
firmware, `Erased` and `Torn` are what they say. Writing a word that is not
erased yields `Torn`. A store through the NULL buffer is undefined and modelled
as a choice: the device hangs, or nothing happens.

`Next` lets any host send any request at any time, with whole transfers; the
wValue of a block is free up to `MaxBlocks`. `ShortSpec` adds blocks shorter than
a transfer, and with them `WriteFault`: words at unaligned addresses.

### DfuHost, FirmwareImage

`DfuHost` composes the device with a host that aborts to idle, sends block
0, 1, ..., polls after each, sends the empty block and waits for the
manifestation. It is modelled from the requests the bootloader answers (the page
is not part of the repository). Answers are lost after the device acted
(`AnswerLost`), transfers are cut before (`TransferCut`), the bus is reset, power
fails, the user plugs the device in with or without the key. After a failure the
host repeats the transfer, repeats the block or starts over. When it repeats a
short last block that was already counted, the block is programmed again at an
address that is no word's, and the device hangs (`DeviceFault`) until it is
power-cycled. Byte `k` of the
image is the number `k`, so a byte at a wrong place is seen.

`FirmwareImage` is the promise. For an image that fits in the area: bytes are
counted only when they are stored (`Store`), what is counted is not touched,
completion is reported only when every byte of the image is stored (`Finish`), a
restart forgets the count. An image that is larger gets no more than that for the
bytes there is room for: those beyond the area are refused, and counted in steps of
their own that store nothing (`Refuse`), and completion is reported without them,
because the code ignores the refusal (section 4). `ImplementsPromise` shows that
every behaviour of `DfuHost` is one of it, with `counted <- addr` (cut to the
image) and `complete <- hpc = "done"`.

### EvtqList

The preemptive configuration of the kernel. A queue is polled in its own
software interrupt, so polls nest: `active` is the stack of polls in progress,
only its top runs, and `Preempt` pushes a pending queue whose priority exceeds
all that are active. What the code does with interrupts disabled is one step.

| action | code |
|---|---|
| `Post` (`Accepts`, `Enqueue`) | `__vsf_evtq_post()` |
| `SetPriority` (`Deferred`, `Moved`) | `__vsf_eda_set_priority()`, `__vsf_eda_update_priotiry()` |
| `Preempt` | `__vsf_os_evtq_swi_handler()` is entered |
| `PollHead` | the outer loop of `vsf_evtq_poll()`: head of the list or return |
| `HandlerDone` (`Requeued`, `Settle`, `Dispatch`) | from the return of a handler to the dispatch of the EDA that was next |

The dlist calls are in `Dlist`, which the heap extends too, with what they do to
nodes that are not linked: `Unlink` empties the list then, as
`__vsf_dlist_remove_imp()` does. Handlers are open: they post, set priorities of any EDA and limit
themselves to one event (`is_limitted`). Not modelled: the termination of
an EDA (`vsf_evtq_on_eda_fini`, `is_to_exit`), which also drops the lock in the
middle of the inner loop.

The flags of an EDA (`is_ready`, `is_new_prio`, `is_limitted`, `is_sync_got`,
`is_evt_incoming`) are bits of one byte (`vsf_eda.h:690-721`), and some are set
with interrupts enabled (`vsf_eda.c:945`) or with only the scheduler locked
(`vsf_eda_sync.c:205`, `320`). An interrupt that posts between the load and the
store of such a write sets `is_ready` (`vsf_evtq_list.c:195`) and has it undone. In
this module, and in the two built on it, each flag is a variable that is written in
one step, so no property here covers that; neither program of the repository is
configured with these queues.

### EdaMutex

`vsf_mutex_t` on these queues. A handler enters at once (`EnterAtOnce`) or is put
into the list by priority and lends its priority to the owner (`EnterPends`,
`Inherit`); the owner gives its priority back and hands the mutex to the first
waiter (`Leave`, `HandOver`), then, with the lock dropped, posts `VSF_EVT_SYNC`
(`PostSync`) and looks again (`LeaveAgain`). The waiter takes the event
(`GetReason`). Between any two of these steps other queues preempt.

### EdaSync

`vsf_sync_t` without an owner on the same queues: semaphores, events with manual
reset, for EDAs of one priority. What the code does with the scheduler locked is
one step; the kernel's task, which hands out `VSF_EVT_TIMER`, and interrupts that
post come between any two.

| action | code |
|---|---|
| `DecreaseNow`, `DecreasePends` | `vsf_eda_sync_decrease()`, `__vsf_eda_sync_pend()`, `__vsf_eda_set_timeout()` |
| `Increase`, `HandOne`, `PostWake`, `IncreaseAgain` | `vsf_eda_sync_increase()`: each round of its loop takes one waiter out of the list, drops the lock, tells him, and looks again |
| `Cancel`, `CancelOne`, `CancelAgain` | `vsf_eda_sync_cancel()`, the same with `VSF_EVT_SYNC_CANCEL` |
| `ForceReset` | `vsf_eda_sync_force_reset()` |
| `TimedOut`, `Got` | the two halves of `__vsf_eda_sync_get_reason()` |
| `TimerDue` | `VSF_EVT_TIMER` of the kernel's task: a timer ends, its post may be refused |

The last branch of `__vsf_eda_sync_get_reason()` (lines 134-136), for any other
event, only asserts: the handlers here ask for the reason of the three events
above, and no action reaches it.

Time is left out: a timer that is set may be due at any moment. `units`, `woken`
and `refused` are history: how many units there are to account for, which event
each EDA that was taken out of the list is owed, and whose `VSF_EVT_TIMER` was
refused.

### EdaDirect

The kernel without event queues, which both programs of the repository are
configured with. A post calls the handler at once, in the context of the poster;
an EDA that is being dispatched to has room for one event. `stack` holds the
posts under way, and each is at one of the places where an interrupt makes a
difference: before the pending event is written (`Stored`), in the handler, before
`evt_pending` is looked at (`Pending`), in the handler for the pending event,
before `is_processing` is reset (`Processed`). The main loop runs at level 0;
interrupts of a higher level come between any two steps, since nothing here
disables them. `nested`, chosen at the start, says from which levels an EDA is
posted to. Events are numbered in the order of the posts. `order` and `accepted`
are history, and so is `late`: the EDAs whose event was written after the last
look at it.

### Heap

Everything is in units of `VSF_HEAP_CFG_MCB_ALIGN`. `linear` holds the distances
to the next and the previous block that each mcb stores; a block is free when it
is in `freelist` (`Free`, which is `__vsf_dlist_is_in_imp()`). A malloc is one
critical section and one step: `Malloc` goes through the list (`Searched`) to
the first block that gives the size at the alignment (`Offset`, `Gives`), cuts off
what is before and after the buffer (`Allocated`, `Remainder`, `Cut`) and does to
the list what the code does on the way: a block that fits only until the buffer
is moved up goes to the head of the list, where the search goes on
(`GoesToHead`); two such blocks take turns there for ever, which is recorded in
`hung`. Sizes are positive: a malloc of nothing would give a block that is only
its mcb. A free is three steps (`MergeNext`, `MergePrev`, `AddFree`), and an
interrupt may allocate and free between them.

### MemStream, ByteFifo

The ring of `vsf_mem_stream.c`. One context writes, one reads. A call is as many
steps as it has places where an interrupt of the other side makes a difference:
it samples the length (`WriteBegin`, `ReadBegin`), marks (`WriteMark`), copies
(`WriteCopy`, `ReadCopy`), commits with interrupts disabled (`WriteCommit`,
`ReadRelease`), and takes its mark back (`WriteUnmark`). Either side may take a
pointer into the ring instead (`GetWbuf`, `GetWbufMark`, `GetRbuf`), work there
and call `write` or `read` without a buffer (`WriteFilled`, `ReadTaken`).

`use`, chosen at the start among `Uses`, says which side is the interrupt
(`Preempts`): its calls run to their end between any two steps of the other side,
which in turn waits for them. While a client works in the buffer both sides run;
`InPlace` says which sides may do that. The n-th byte written is the number n, so a byte that is lost, repeated or out of
order is seen.

`ByteFifo` is the promise: a bounded queue, to which a write adds the next bytes
and from which a read takes the first ones. `ImplementsFifo` maps its queue to
the bytes of the ring from `rpos` on, `data_size` of them: a commit is its `Put`,
a release its `Get`, and no other step may change what is there.

### UsbStream

`vsfstream.c` between two bulk endpoints of `vsf_usbd.c`, connected as
`vk_usbd_cdc_data_connect()` does: the OUT endpoint puts what the host sends into
the stream, the IN endpoint sends it back. Both ends on one stream is the
loopback that the class driver permits; each endpoint restarts the other through
the stream's events, which is what the module is about. Everything runs in the
device's one USB context, so a handler, with all the callbacks it leads to, is
one step: operators take a state and return the next one (`Write`, `OnWrite`,
`RxEvthandler`, ...), in the order of the code's calls.

| action | code |
|---|---|
| `Connect` (`ConnectRx`, `ConnectTx`) | `vk_usbd_cdc_data_connect()`, `vk_usbd_ep_send_stream()`, `vk_usbd_ep_recv_stream()` |
| `Packet` (`TxFinish`, `Recv`) | `USB_ON_OUT`, `__vk_usbd_stream_tx_on_trans_finish()`, `__vk_usbd_stream_tx_recv()` |
| `Sent` (`RxFinish`, `Send`) | `USB_ON_IN`, `__vk_usbd_stream_rx_on_trans_finish()` |
| `OnWrite`, `OnRead` | `vsf_stream_on_write()`, `vsf_stream_on_read()` |
| `Offer` | the host has a packet and repeats it until it is taken |

The controller is one that hands over packets (no `USB_DC_FEATURE_TRANSFER`).
Bytes are left out; positions and counts are kept. The thresholds are 0, as they
are unless somebody sets them; a port's transfers have no end (`total_size` 0).

## 3. Runs

| run | shows | bounds |
|---|---|---|
| `dfu_any_host` | any host: only erased words are programmed (`ProgramsOnlyErased`), nothing outside the area (`StaysInArea`), the address follows the block number (`AddrFollowsBlocks`) | pages of 2 transfers, an area of 2 pages, sessions up to 5 blocks, so that one goes past the end of the area; one data byte, since no property looks at its value |
| `dfu_download` | a host that follows the protocol: what is counted of an image that fits, and the part of a larger one there is room for, is stored (`DownloadedIsProgrammed`), host and device agree on the block (`BlocksAgree`), refinement (`ImplementsPromise`), and the download ends, with an image that fits stored, once faults stop (`EventuallyDone`) | transfers of 2 packets and 2 words, an area of 4 blocks in 2 pages; images of 3 blocks with a short last one, of the 4 blocks that fill the area, and of 5 blocks; 3 faults: two in one session and one in the next |
| `evtq` | `ReadyIsLinked`, `ReadyHasEvents`, `NoReentry`, `RaisedForHandler`, and, as long as no priority has changed, `EventsAreDispatched` | 2 priorities, one EDA at the lower and two at the higher, 4 posts with 3 nodes, 3 changes of priority |
| `mutex` | `OneOwner`, `NoWaiterForgotten`, `NoStraySync`, `WaitersGetIt` | 3 EDAs of 3 priorities, 4 attempts to enter, 4 other events |
| `mutex_run` | a violation, section 4 | two EDAs at the lower of 2 priorities, one at the higher, owners that leave before their handler returns |
| `waits` | `UnitsConserved`, `WaitsAreClean`, `NobodyWaitsInVain`, `TimedWaitEnds`, `ToldWaitEnds` | 3 EDAs, values up to 2, with and without manual reset, 4 calls, 3 other events |
| `direct` | `NoReentry`, `CurIsRunning`, `AcceptedKept`, `OvertakenByOne`, `PendingIsDispatched` | 2 EDAs, the main loop and 2 levels of interrupts, 4 posts |
| `direct_yield` | a violation, section 4 | the same, 3 posts |
| `heap` | `BuffersAreApart`, `NothingLost`, `Coalesced`, `FramesReturn` | mcbs of 3 units, a region of 24 units and one of 9, sizes 1 and 4, alignments 1, 2 and 8, 3 buffers in use, the main loop and one interrupt |
| `stream` | `InOrder`, `ImplementsFifo`, for two uses: an interrupt reads, copying or in place, and cuts into a write anywhere; two contexts that do not preempt each other both work in the buffer | a ring of 3 bytes, 7 bytes written, reads and writes of 0 to 4 bytes |
| `stream_writer` | a violation, section 4 | the same |
| `usb_stream` | `TransfersHoldTheirPart`, `NobodyIsUntold`, `PacketsAreTaken`, `BytesAreSent` | packets of 4 bytes; a ring of 3 packets with full packets only, the same ring with packets of 1 to 4 bytes, and a ring of 9 bytes with packets of 0 to 4; behaviours of any length |

A ring of three bytes wraps in the middle of a copy, at its end and not at all;
seven bytes go round it twice and leave one over; a count of four asks for more
than it holds. The heap's larger region holds three blocks and what is cut off before
and after them; an alignment of 8 leaves a rest before the buffer that is too
small, just large enough and larger; the regions' bases are one even, one odd.
Four posts are one that is processed, one that is pending, one that is refused or
overwrites it, and one that comes after the last look.

Three EDAs are enough for an owner, the waiter it lends to and the one that
interferes; a fourth only repeats the part of one of them. Two faults are enough
to lose the answer of a retry; the third hits the session that follows.

Deadlock is checked for the bootloader. In the kernel's runs and the heap's it is
not: the system rests when all events are dispatched and the bounds are used up,
and a malloc that never ends stops the heap (section 4). Nor is it in
`usb_stream`, where the endpoints really stop (section 4). A stream's reader can
always ask, so its runs check it.

Where a run has a type invariant, the mutants show what it is for: an address
that runs backwards, a deferred priority taken although there is none.

### Fairness

* `DfuHost`: weak fairness of the host's own steps, of the device's steps and of
  time-outs: USB interrupts are served, transfers end or time out. Weak fairness
  of power-on and of the user's power cycle: the device is not left unplugged.
  Strong fairness only of a power-on with the key held, which is what a user who
  wants an update does; without the key a half-written image may be started
  (section 5). Faults are bounded and not fair.
* `EvtqList`, `EdaMutex`, `EdaDirect`: weak fairness of the processor as a whole
  (`CpuStep`, `MutexStep \/ KernelStep`): what runs takes its next step or returns,
  pending software interrupts are taken when the hardware's priorities allow it.
  No fairness of interrupts, of posts, of yields or of enters.
* `EdaSync`: the same, and weak fairness of each EDA's timer: time goes on, and
  the kernel's task has the highest priority.
* `UsbStream`: weak fairness of `Connect`, `Sent` and `Packet`: the host opens the
  port, reads what is there and repeats a packet until it is taken. None of
  `Offer`: the host need not send anything.

## 4. Disagreements found

* **`mutex_run`.** `vsf_evtq_poll()` puts an EDA with more events back into its
  list, "so the eda will always have an opportunity to run"
  (`vsf_evtq_list.c:292-293`). If its priority was changed meanwhile, it is moved
  to the queue of the new priority, and that queue is not activated
  (`vsf_evtq_list.c:310`). In the run this locks a mutex up although nobody
  misuses it: an EDA of the lower priority goes to wait for the mutex; before its
  handler returns, the owner, of higher priority, leaves, hands it the mutex and
  posts `VSF_EVT_SYNC`, comes back and waits, and lends it its priority. When the
  handler returns, the new owner is moved, with its event, to the higher queue,
  whose software interrupt is not pending. It never runs again unless something
  else is posted to that queue, and nobody gets the mutex. `WaitersGetIt` allows
  for it (`Forgotten`), and for an owner that keeps the mutex (`Keeps`).
* **`direct_yield`.** Without event queues a post looks at the pending event once
  (`vsf_eda.c:305`, an `if`), not until there is none. An event that comes while
  the pending one is being dispatched stays until the next post to the EDA.
  For an interrupt's event that is a delay (`OvertakenByOne` says how much order
  it costs, `PendingIsDispatched` which events are not delayed); for a task that
  yields it is the end: "yield and try it again (automatically)", "we should
  yield to let the sub-task run" (`vsf_eda.c:717-722`).
* **`stream_writer`.** A read decides that the ring is empty, and that
  both positions may go back to 0 (`vsf_mem_stream.c:203-207`), by the length it
  sampled at its beginning (line 181). If an interrupt wrote in between, its bytes
  are counted in `data_size` and are not where the next read looks. `is_writing`
  helps only against a write that has not ended. The note on line 31 reads "By
  default, the driver tries to make all APIs interrupt-safe". The OUT endpoint
  of a USB device is such a writer (`vsf_usbd.c:959-983`).
  `get_wbuf` has a similar gap: it takes the position (lines 123-125) before it
  says that it writes (line 129), and an interrupt that empties the ring between
  the two moves the position. No run shows it; `InOrder` fails in the same way
  when `Uses` is `ReaderPreemptsWbuf` of `MCMemStream`.

What the properties allow for, because the code does it and no text of the
repository says otherwise:

* *Images that are too large.* `usrapp_flash_erase_write()` refuses a block that is
  not inside the firmware area and returns 0 (`main.c:51-53`); the status stage of
  GETSTATUS ignores it, moves address and block number on and goes to
  `dfuDNLOAD_IDLE` (`vsf_dfu.c:353-358`). No error state is ever entered, although
  `DFU_errADDRESS` is defined for it (line 25): a host that sends an image larger
  than the area is told that every block was taken and that the download is
  complete, with the bytes beyond the area stored nowhere. `dfu_download` has such an
  image, of 19 bytes for an area of 16, and `EventuallyDone` says of it that completion
  is reported. So what is counted is not what is stored, and `DownloadedIsProgrammed`,
  `ImplementsPromise` and `EventuallyDone` are stated in full for images that fit and,
  of one that does not, only for the bytes inside the area.
* *Download.* A last block that is no number of words and whose answer was lost is
  programmed again behind itself: `StatusDnload` takes the repeated block although
  its data went nowhere, and the next GETSTATUS stores the old one at an unaligned
  address. The user has to start over; `EventuallyDone` says it works then.
* *Waits.* `is_sync_got` is set when a waiter is told and never reset
  (`vsf_eda_sync.c:205`), so from then on the EDA takes each of its timeouts for a
  late one and waits on without one. And a `VSF_EVT_TIMER` is refused, and not
  posted again, when the limited EDA has another event at that moment
  (`vsf_evtq_list.c:186`). `TimedWaitEnds` names both.
* *USB streams.* An OUT endpoint that stands still is told of room once. If that
  is less than a packet it does nothing, `data_notified` stays set, and it is not
  told of more; it needs short packets, or a ring that is not a number of
  packets. An IN endpoint that is told by an empty packet finds nothing to send
  and is not told of the bytes that follow. `PacketsAreTaken` and `BytesAreSent`
  show that these are the only ways to stop.
* *Posts without queues.* Two levels of interrupts that post to one EDA may both
  find room and one overwrites the other; `AcceptedKept` is about EDAs that code
  at one level posts to.
* *Heap.* Two free neighbours are left when an interrupt frees one of them in the
  middle of a free of the other (`Coalesced` excludes it with `raced`), and a
  search for an alignment above that of an mcb may never end.
* *Mutex.* A waiter compares its priority with the owner's `cur_priority`
  (`vsf_eda_sync.c:292`) and not with the one the owner has been lent but has not
  taken yet, so a lower waiter that comes second takes the higher one's loan
  back. For the same reason waiters may stand in the list in another order than
  that of their priorities: an EDA that left a mutex in the handler that inherited
  it waits for the next one with a priority it no longer has.

## 5. Proofs

`DfuProofs` proves, for every size of page, word, transfer and area
that divide as the code's do (`SizesAssumption`), every bound on the session and
every set of bytes:

* `TypeCorrect`: `Spec => []TypeOK`
* `AddrFollowsBlocksAlways`, `ProgramsOnlyErasedAlways`, `StaysInAreaAlways`: the
  three safety properties of the run `dfu_any_host`;
* `NoUnalignedWord`: `Spec => [](addr % WRITE_OP = 0)`, so that `WriteFault` is no
  step of `Spec`;
* `StaysInAreaShort`: `ShortSpec => []StaysInArea`, for a host that also sends
  blocks shorter than a transfer, anywhere. Then the address follows no block
  number and loses its alignment, and the only invariant left (`ShortInv`) is
  about the block at hand: the bounds check passed, a page is erased only from
  its start, and the words that are written are those of the block, rounded up.

None of the first five is inductive. The inductive invariant `IInv` adds `SessionInv` (the
address is the block number times the transfer size; a downloaded block is a
whole transfer) and `FlashInv`: while the flash routine runs, the block fits and
`prog` stands at a multiple of the operation's size in it; and, when the address
is not at the start of a page and the page is in the area, the page is erased
from the address on (from the next word on while it writes). The last part is
why a session that goes on in the middle of a page finds it erased: it can only
have got there by programming the blocks before, the first of which erased it,
and everything that resets the address resets it to 0, the start of a page. The
proof is one lemma per step that touches the flash (`EraseStepInv`,
`WriteStepInv`, `StatusGetStatusSyncInv`), one for those that start over
(`RestartInv`) and one for those that leave both alone (`QuietInv`), over a few
lemmas on multiples.

Its second part is about the host, for images of any size, larger than the area or
not, and any number of faults (`ImageAssumption`): `HostDownloadedIsProgrammed`, `HostBlocksAgree`,
`HostStaysInArea` and `HostImplementsPromise`, the refinement of `FirmwareImage`. The
invariant of the first part does not carry over: an image's last block may be
short, and a host that did not see it counted sends it again, after which the
address is no block's any more. `HostInv` therefore has the address follow the
blocks only inside the image and be past it afterwards (`AddrInv`), which is enough,
since nothing inside the image is written from there. `DeviceInv` adds that the
buffer holds the block the device is at (`BufferInv`) and how far the flash routine
is, as far as it is inside the image (`ProgInv`); it does not mention what the host
is doing. `PlaceInv`, `ReachedInv` and `TransferInv` do: which block the host is at in each
of its states, that the device is at the same one or one further (what a lost
answer leaves behind, and what makes a retry a repetition), and what the transfer in
progress may still report. The refinement then has one lemma for each kind of step
there is in the abstract: bytes that get stored and counted (`StoreStep`), a restart
(`RestartStep`), the report that all is there (`FinishStep`), and nothing (`StutterStep`).
For an image that is too large, `StoreStep` also gives the steps of `Refuse`:
`AddrStopsAtEnd` says that the address comes to the end of the area exactly before it
goes beyond, since a block is all inside or all beyond, so that what a step counts is
either all stored or all refused. `HeldBelow` turns the invariant's part about the
flash (`ProgrammedBelow`: what is below the address and in the area is there) into
the promise's. That a completed download stays stored
while the device goes on and is unplugged is `DoneInv`, which rests on `DoneSteps`.
What `HostDownloadedIsProgrammed` and `HostImplementsPromise` say of an image that is
too large is only what section 4 leaves of it.

`MemStreamProofs` proves, for every size of the buffer and whatever is written and
read, when all uses of streams are safe (`Safe`: no side preempts the
other; or the reader does, and the writer does not work in place):

* `TypeCorrect`: `Spec => []TypeOK`
* `InOrderAlways`: `Spec => []InOrder`
* `RingImplementsFifo`: `Spec => ImplementsFifo`, the refinement of `ByteFifo`.

That assumption is not for convenience: the two gaps of section 4 are what
happens without it. The inductive invariant says which byte is at which position
(`RingOK`: the `data_size` bytes from `rpos` on are those that follow the ones
released, and `wpos` is where they end), what a read's locals still say about the
ring (`ReaderOK`: it releases no more than is there, and if nothing was to be
left, nothing will be left: this is what a writer that preempts breaks), and what
a write's do (`WriterOK`: there is room for what it has, its bytes are at `wpos`,
and from then on it is marked). One lemma for the steps of each side; `FilledOld`
and `FilledNew` say that copying into a ring touches the new bytes only; for the
refinement, `ContentsAre` gives the queue in closed form and `Effects` reduces
every step to a commit, a release or a stutter.

`EdaDirectProofs` proves, for any number of EDAs, of levels of interrupts and of
posts (`DirectAssumption`):

* `TypeCorrect`: `Spec => []TypeOK`
* `NoReentryAlways`: `Spec => []NoReentry`
* `CurIsRunningAlways`: `Spec => []CurIsRunning`

The inductive invariant speaks of the whole stack of posts: each EDA is
dispatched to by at most one of them (`Once`) and has `is_processing` set while it
is, so that a new dispatch is always of another EDA; and each post saved, in its
`old`, the EDA that was current in what it came upon (`Olds`), so that putting it
back makes the handler below find itself current. Three lemmas say what the
stack's operations do to these: what runs moves on (`PlaceChanged`), a post is
added (`PostBegins`), and one ends (`PostEnds`).

Two more theorems say what becomes of events: `AcceptedKeptAlways` (from one level
of interrupts no accepted event is lost) and `OvertakenByOneAlways` (an event is
overtaken by no more than one). Their invariant, `DeliveryInv`, adds that the levels
of the stack rise (`LevelsRise`), that an EDA is marked as processed only while it is
dispatched to, which lets the room for its event be looked at only from above that
dispatch (`Backed`), and what a post that looked at `evt_pending` and has not written it
yet still knows (`StoreOK`): that its event comes after all that were handled, and, if its EDA is
posted to from its level only, that the room is still empty. Per EDA, `EventsOK`
says in which order events were handled and which is still to come; `FreshDispatched`,
`PendingDispatched`, `EventStored` and `EventsStay` say what the dispatch of a new
event and of a pending one, a write and the rest do to it.

`EvtqListProofs` proves, for any number of EDAs, of priorities and of event nodes
(`EvtqAssumption`), `Spec => []TypeOK` (`TypeCorrect`) and the four safety
properties of the run `evtq`: `ReadyIsLinkedAlways`, `ReadyHasEventsAlways`,
`NoReentryAlways`, `RaisedForHandlerAlways`. The inductive invariant `KInv` says of
the lists, without counting, what `ReadyIsLinked` counts (`Lists`: no list repeats a
node, and it links exactly the EDAs that are ready at its priority), and adds
`Polls` (what a queue dispatches to is ready, at the queue's priority, and the
queue is being polled, once) and `Deferrals` (a change of priority waits only while
its EDA is dispatched to). `Polls` is needed because a handler that returns is
unlinked from the list of its current priority and the next of *that* list is taken
before it is moved (`NextLinked`); `Deferrals` because a change that waited for an
EDA nobody dispatches to would never be settled, and every later one would wait
behind it. `Unlinked`, `Appended` and `LinksOnce` say what the list calls do;
`ListsEnqueued`, `ListsMoved` and `ListsRequeued` what a post, a change of priority
and the end of a handler do to all lists at once. `AppendedEvent`, `TakenEvent` and
`Dispatched` say what a post and a dispatch do to one EDA's events; the two modules
that build on this one follow events with them.

`EdaMutexProofs` builds on it, for any number of EDAs and priorities
(`MutexAssumption`):

* `OneOwnerAlways`: `MutexSpec => []OneOwner`
* `NoStraySyncAlways`: `MutexSpec => []NoStraySync`
* `NoReentryUnderMutex`: `MutexSpec => [](NoReentry /\ ReadyIsLinked)`, since the
  mutex does to the queues only what `KInv` survives
* `NoWaiterForgottenWithNodes`:
  `MutexSpec /\ [](NodesUsed < NodeCnt) => []NoWaiterForgotten`

The condition of the last is what the code needs: a post without a node is refused
(`vsf_evtq_list.c:172`), forced or not, the error is only asserted on
(`vsf_eda_sync.c:218-219`), and the new owner is never told. The inductive invariant `MInv` follows each `VSF_EVT_SYNC`
from the EDA that owes it (`Owed`) over the list of its EDA (`Listed`) to the
handler (`InHand`): there is one, in one of the three places, and only for an EDA
that waits and owns the mutex (`Woken`). That there is one is what makes
`NoStraySync` inductive: a second would be left when the first is taken.
`WaiterInserted` says what the insertion by priority does to the list,
`SyncDispatched` what a dispatch does to the events.

`EdaSyncProofs` builds on it too, for any number of EDAs and of units, with and without
manual reset, for EDAs of one priority (`SyncAssumption`: no handler comes in the
middle of another, as the model has it):

* `UnitsConservedAlways`: `SyncSpec => []UnitsConserved`
* `NobodyWaitsInVainAlways`: `SyncSpec => []NobodyWaitsInVain`
* `WaitsAreCleanWithNodes`: `SyncSpec /\ [](NodesUsed < NodeCnt) => []WaitsAreClean`

The condition of the last is the mutex's, and needed for the same reason: a wake-up
for which there is no node is lost. The inductive invariant `SInv` says who is in
`pending_list` (`Waiters`: exactly those that wait and have been told nothing), who has
yet to tell whom (`Tellers`), and where the events of a wait are (`Events`): what an EDA
was told is owed, or in its list, or in the hand of its handler, in one of the
three; and a `VSF_EVT_TIMER` may be with it, but before it (`TimerFirst`), because the
timer ends only a wait that is still on and its event is refused when the list is not
empty. That order is why a time-out that meets a hand-over leaves nothing behind: the
handler of the `VSF_EVT_TIMER` finds that it was told and waits on for the event that
follows. `Complete`, that the event has not been dropped, is carried along only
while there are nodes; the rest of `SInv` holds without. `Given` counts the units on their way.

`HeapProofs` proves, for any regions that do not overlap, any size of the mcb, any
sizes and alignments of buffers and any number of them (`HeapAssumption`), the four
safety properties of the run `heap`: `BuffersAreApartAlways`, `NothingLostAlways`,
`CoalescedAlways` and `FramesReturnAlways`. The inductive invariant `HeapInv` says that
the blocks make up the regions without gaps (`Tiled`: each is larger than its mcb and
lies in a region, no two overlap, each reaches the next or the mcb that ends the
region, and each knows the way back), that each has one owner (`OneOwner`: it is
linked in the list once, or in use by one buffer, or being freed by one context),
and that buffers fit their blocks (`BuffersFit`). `CutTiled`, `JoinedTiled` and
`AddedTiled`, the core of the module, say what cutting a block in two, joining two
and adding a region do to `Tiled`; a malloc is up to two cuts (`TwoCuts`), of which the
rests join the list (`PartsListed`, `GivenInv`), a free up to two joins (`JoinFrees`).
`BlocksCounted` counts them, for the part of `BuffersAreApart` that says that no block
is free and in use at once. Where a
condition is used by name only, as `CanCut` and `IsCut` are, it is so that the provers can
cite it.

`Coalesced` needs one more invariant, `CoalescedInv`, which holds as long as no interrupt
used the heap in the middle of a free (`raced`): one of the two contexts is not freeing,
no two free blocks are neighbours, and a block that is being freed is no neighbour of a
free one on the sides it has looked at. An interrupt that frees the neighbour in the
middle breaks just that (section 4).

`UsbStreamProofs` proves, for every packet size, every ring and whatever packets a host
may send (`UsbStreamAssumption`), `UsbTransfersHoldTheirPart` and `UsbNobodyIsUntold`, the
two safety properties of the run `usb_stream`. The inductive invariant is about a
state as the operators take and return it (`StateInv`): the ring's positions are
inside it (`RingOK`), a transfer from the host holds the place the ring writes at next,
marked, with room for a packet (`OutHolds`), one to the host holds bytes from where the
ring reads next (`InHolds`), and each side that is ready and has no transfer, though it
could have one, was told (`WriterTold`, `ReaderTold`). The mark is what `OutHolds` is
inductive by: without it a read that empties the ring would start it over and move
the place away from under the transfer. Since a handler with all its callbacks is one step,
the proof has one lemma per operator, in the order they call each other, and each
says which parts of `StateInv` its caller may count on.

Every invariant of the passing runs is so stated by a theorem, and both refinements.
Only model-checked are the eight properties of the form "eventually"
(`EventuallyDone`, `EventsAreDispatched`, `WaitersGetIt`, `TimedWaitEnds`, `ToldWaitEnds`,
`PendingIsDispatched`, `PacketsAreTaken`, `BytesAreSent`), since liveness under fairness
is beyond the prover, and the violations of section 4, which are single behaviours. What is assumed of constants is in the `ASSUME`s that are
named above, and in two hypotheses: `Safe` for the ring, and event nodes that do not run out for
`NoWaiterForgotten` and `WaitsAreClean`. No module declares a RECURSIVE operator, and no
result rests on induction over data.

## 6. What is not modelled, and the plan

Left out on purpose: constant descriptors and standard requests of the
bootloader; that `main()` does not start half-written images (it does, when the
words at 0 and 4 are plausible: the boot decision looks at nothing else); hosts
that send short blocks in the middle of an image (pages after one are not erased
any more); register-level drivers; the components the firmware does not build.

What could follow, in this order:

1. Termination in `EvtqList` and the event queues on arrays (`EvtqArray`), a
   configuration neither program uses.
2. Mutexes with a timeout, and semaphores with waiters of several priorities: the
   removal of an EDA that is no longer in the list (`vsf_eda_sync.c:122`).
3. Callback timers and due times across the wrap of the tick; EDA queues, bitmap
   events: disabled in both programs.
4. Frames and sub-calls on `EdaDirect` and `Heap`.
5. The list of transfers of the USB device core under setup packets and bus
   resets, with `UsbStream` on top; disconnection of streams; the other rings.
6. `realloc` and `partial_free` of the heap; the pool.

The repository is mostly other things: vendor headers and drivers of chips that
are not on the board, a DSP library, a USB host stack, file systems, user
interfaces. They have no state of this firmware, and the share of all source
lines that the modules model is accordingly small.

Proofs that could follow: the facts about steps that the liveness properties rest on
(`Complete`, that who was told has an event on its way, is one of them);
`EdaSync` for several priorities, once item 2 models them; `Tiled` under item 6, whose
cuts and joins are those of `CutTiled` and `JoinedTiled`.
