------------------------------ MODULE DfuHost ------------------------------
(* A firmware download: the bootloader and a DFU host that follows the        *)
(* protocol (the WebDFU page the README of the repository points to), over a  *)
(* bus that loses answers and a device that may be reset or lose power.       *)
(*                                                                            *)
(* The host aborts to idle, sends block 0, 1, ... of the image, polls the     *)
(* status after each until the device is back in dfuDNLOAD_IDLE, sends the    *)
(* empty block and polls until the device manifests. When a transfer fails it *)
(* sends it again, sends the block again, or gives up and starts over.        *)
EXTENDS DfuBootloader

CONSTANTS
    ImageLens,   \* the sizes images may have
    MaxFaults    \* bound: faults the bus, the user and the host cause

ASSUME ImageAssumption ==
    /\ ImageLens \subseteq Nat \ {0}
    /\ \A len \in ImageLens : 0 .. len - 1 \subseteq Data  \* byte k is named k
    /\ MaxFaults \in Nat

VARIABLES
    imageLen,  \* the size of the image
    hpc,      \* what the host sends next, or waits for
    n,        \* the block it is at
    wait,     \* a transfer is in progress
    view,     \* the state the GETSTATUS in progress answers
    faults    \* how many faults have happened

hvars   == <<imageLen, hpc, n, wait, view, faults>>
allvars == <<vars, hvars>>

\* The blocks of the image: all are full but the last.
NBlocks == (imageLen + TRANSFER_SIZE - 1) \div TRANSFER_SIZE
BlockLen(b) == Smaller(TRANSFER_SIZE, imageLen - b * TRANSFER_SIZE)
Block(b) == [i \in 0 .. TRANSFER_SIZE - 1 |->
               IF i < BlockLen(b) THEN b * TRANSFER_SIZE + i ELSE Torn]

HostInit ==
    /\ Init
    /\ imageLen \in ImageLens
    /\ hpc = "idle" /\ n = 0 /\ wait = FALSE /\ view = "appIDLE" /\ faults = 0

GoTo(pc, block) == hpc' = pc /\ n' = block /\ wait' = FALSE /\ UNCHANGED imageLen

Fault == faults < MaxFaults /\ faults' = faults + 1

(* ------------------------- transfers started -------------------------- *)

Sends == wait' = TRUE /\ UNCHANGED <<imageLen, hpc, n, faults>>

\* A reset device is enumerated before the host talks to it.
SendAbort ==
    /\ hpc = "idle" /\ ~wait /\ bState # "appIDLE"
    /\ SetupOther("ABORT")
    /\ Sends /\ UNCHANGED view

SendBlock ==
    /\ hpc = "dnload" /\ ~wait
    /\ SetupDnload(n, BlockLen(n))
    /\ Sends /\ UNCHANGED view

SendEmpty ==
    /\ hpc = "final" /\ ~wait
    /\ SetupDnload(n, 0)
    /\ Sends /\ UNCHANGED view

\* The answer to a GETSTATUS is sent before its status stage acts.
SendPoll ==
    /\ hpc \in {"poll", "manifest"} /\ ~wait
    /\ SetupOther("GETSTATUS")
    /\ view' = bState
    /\ Sends

SendData ==
    /\ wait
    /\ \/ DataOut(Block(n))
       \/ DataOutNull
    /\ UNCHANGED hvars

(* ------------------------- transfers ended ---------------------------- *)

\* Where a transfer that succeeds takes the host.
Succeeds ==
    \/ hpc = "idle" /\ GoTo("dnload", 0)
    \/ hpc = "dnload" /\ GoTo("poll", n)
    \/ /\ hpc = "poll" /\ view = "dfuDNLOAD_IDLE"
       /\ IF n + 1 < NBlocks THEN GoTo("dnload", n + 1) ELSE GoTo("final", n + 1)
    \/ hpc = "poll" /\ view = "dfuDNLOAD_SYNC" /\ GoTo("poll", n)
    \/ hpc = "poll" /\ view \notin {"dfuDNLOAD_IDLE", "dfuDNLOAD_SYNC"} /\ GoTo("idle", 0)
    \/ hpc = "final" /\ GoTo("manifest", n)
    \/ hpc = "manifest" /\ view = "dfuMANIFEST" /\ GoTo("done", n)
    \/ hpc = "manifest" /\ view = "dfuMANIFEST_SYNC" /\ GoTo("manifest", n)
    \/ hpc = "manifest" /\ view \notin {"dfuMANIFEST", "dfuMANIFEST_SYNC"} /\ GoTo("idle", 0)

\* Where a transfer that fails takes it: send it again, send the block again,
\* or start over.
Fails ==
    \/ GoTo(hpc, n)
    \/ hpc = "poll" /\ GoTo("dnload", n)
    \/ GoTo("idle", 0)

TransferDone == wait /\ StatusNext /\ Succeeds /\ UNCHANGED <<view, faults>>

\* The device took the transfer and the host never learns.
AnswerLost == wait /\ StatusNext /\ Fails /\ Fault /\ UNCHANGED view

\* The transfer is cut off before its status stage.
TransferCut == wait /\ Fails /\ Fault /\ UNCHANGED <<vars, view>>

\* A data stage that no short packet ends never gets to the status stage.
Refused == ctrl.req = "DNLOAD" /\ ctrl.got = ctrl.wLength /\ ~DataComplete
RefusedTimeout == wait /\ Refused /\ GoTo("idle", 0) /\ UNCHANGED <<vars, view, faults>>

(* ----------------------- device, user and bus ------------------------- *)

DeviceStep == FlashNext /\ UNCHANGED hvars

\* The last block of an image may be short and leaves addr unaligned; when it is
\* sent again, its status stage programs what is in the buffer once more.
DeviceFault == WriteFault /\ UNCHANGED hvars

\* The host resets the device after it was plugged in.
Enumerate ==
    /\ bState = "appIDLE" /\ OnReset
    /\ GoTo("idle", 0) /\ UNCHANGED <<view, faults>>

BusReset ==
    /\ bState # "appIDLE" /\ OnReset
    /\ Fault /\ GoTo("idle", 0) /\ UNCHANGED view

\* The user plugs the device in, with or without holding the key.
UserPowerOn(key) == PowerOn(key) /\ UNCHANGED hvars

\* Whoever watches a device that went away gives up.
Unplugged == IF hpc = "done" THEN UNCHANGED <<imageLen, hpc, n, wait>> ELSE GoTo("idle", 0)

PowerLoss == mode = "dfu" /\ PowerOff /\ Fault /\ Unplugged /\ UNCHANGED view

\* The user power-cycles a device that is not in the bootloader or is done.
PowerCycle ==
    /\ mode \in {"app", "hung"} \/ hpc = "done"
    /\ PowerOff
    /\ Unplugged /\ UNCHANGED <<view, faults>>

\* The user downloads the image once more.
Again == /\ hpc = "done" /\ Fault /\ GoTo("idle", 0) /\ UNCHANGED <<vars, view>>

HostNext ==
    \/ SendAbort \/ SendBlock \/ SendEmpty \/ SendPoll \/ SendData
    \/ TransferDone \/ AnswerLost \/ TransferCut \/ RefusedTimeout
    \/ DeviceStep \/ DeviceFault
    \/ Enumerate \/ BusReset
    \/ \E key \in BOOLEAN : UserPowerOn(key)
    \/ PowerLoss \/ PowerCycle
    \/ Again

HostSpec == HostInit /\ [][HostNext]_allvars

\* The bus delivers, the device runs, a timeout expires, and a user who wants
\* the update holds the key at some power-on.
Fairness ==
    /\ WF_allvars(SendAbort \/ SendBlock \/ SendEmpty \/ SendPoll)
    /\ WF_allvars(SendData)
    /\ WF_allvars(TransferDone)
    /\ WF_allvars(RefusedTimeout)
    /\ WF_allvars(DeviceStep \/ DeviceFault)
    /\ WF_allvars(Enumerate)
    /\ WF_allvars(hpc # "done" /\ PowerCycle)
    /\ WF_allvars(\E key \in BOOLEAN : UserPowerOn(key))
    /\ SF_allvars(UserPowerOn(TRUE))

FairHostSpec == HostSpec /\ Fairness

(* ---------------------------- properties ------------------------------ *)

Image == 0 .. imageLen - 1

TooLarge == imageLen > AREA_SIZE

\* Byte k is in the flash, which those beyond the firmware area never are.
Stored(k) == k \in Addrs /\ flash[k] = k

\* The device counts byte k as downloaded, or has reported that all is.
Counted(k) == k < addr \/ hpc = "done"

\* An image that fits in the area: what the device counts as downloaded is in the
\* flash, byte for byte, after any resets, retries, repeated blocks and power
\* failures, also of an earlier download, and when completion is reported all of
\* it is. An image that does not: only the bytes there is room for are. The
\* others are refused (main.c:51-53) and counted all the same (vsf_dfu.c:353), up to
\* a report of completion without them, so nothing is claimed of them.
DownloadedIsProgrammed ==
    /\ ~TooLarge => \A k \in Image : Counted(k) => Stored(k)
    /\ TooLarge  => \A k \in Image \cap Addrs : Counted(k) => Stored(k)

\* The host never waits for a block the device did not yet reach, and is never
\* refused a block it has not yet delivered: the device is at the host's block,
\* or past it when an answer was lost.
BlocksAgree ==
    /\ hpc \in {"poll", "final", "manifest"} => block_idx >= n
    /\ (hpc = "dnload" /\ n > 0) => block_idx >= n
    /\ (hpc = "dnload" /\ n \in 1 .. NBlocks - 2) => block_idx <= n + 1
    /\ (hpc = "poll" /\ n + 1 < NBlocks) => block_idx <= n + 1

\* A download, with every retry, refusal and power failure, is a download as
\* FirmwareImage promises it: of an image that fits, what is counted is stored and
\* stays untouched and what is complete is stored; of a larger one, the bytes that
\* there is room for.
Promise == INSTANCE FirmwareImage WITH
    AreaSize <- AREA_SIZE,
    size     <- imageLen,
    stored   <- flash,
    counted  <- IF hpc = "done" THEN imageLen ELSE Smaller(addr, imageLen),
    complete <- (hpc = "done")

ImplementsPromise == Promise!ASpec

\* Once faults stop, a user who holds the key gets through the download, whatever
\* state the faults left the device in, and has the image in it if it fits.
EventuallyDone == <>(hpc = "done" /\ (TooLarge \/ \A k \in Image : Stored(k)))
=============================================================================
