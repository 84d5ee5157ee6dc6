--------------------------- MODULE DfuBootloader ---------------------------
(* The bootloader of vllink_lite: the boot decision of main(), the DFU class  *)
(* handlers of vsf_usbd_notify_user() and the flash routine behind them, on a *)
(* device that may lose power between any two flash operations.               *)
(*                                                                            *)
(* Everything the bootloader does after main() it does in the USB interrupt,  *)
(* so a handler is atomic with respect to the host, but a power failure can   *)
(* hit it: the flash routine is one step per erased page and per written word.*)
(* Sizes and addresses are bytes, relative to FIRMWARE_AREA_ADDR.             *)
EXTENDS Integers

CONSTANTS
    ERASE_OP,        \* vsfhal_flash_opsize(FLASH_ERASE), 1024
    WRITE_OP,        \* vsfhal_flash_opsize(FLASH_WRITE), 4
    TRANSFER_SIZE,   \* VSF_DFU_CFG_TRANSFER_SIZE, 256
    EP0_SIZE,        \* APP_CFG_USBD_EP0_SIZE, 64
    AREA_SIZE,       \* FIRMWARE_AREA_SIZE_MAX
    VECTOR_SIZE,     \* the stack pointer and the entry main() reads, 8
    MaxBlocks,       \* bound: a session of the model downloads at most this
    Data,            \* the bytes a host may send
    Old,             \* a byte of the firmware that was there before
    Erased,          \* an erased byte
    Torn             \* a byte whose value is unknown

ASSUME SizesAssumption ==
    /\ ERASE_OP \in Nat \ {0} /\ WRITE_OP \in Nat \ {0}
    /\ TRANSFER_SIZE \in Nat \ {0} /\ EP0_SIZE \in Nat \ {0}
    /\ AREA_SIZE \in Nat \ {0} /\ VECTOR_SIZE \in Nat \ {0}
    /\ TRANSFER_SIZE % WRITE_OP = 0
    /\ TRANSFER_SIZE % EP0_SIZE = 0
    /\ ERASE_OP % TRANSFER_SIZE = 0
    /\ AREA_SIZE % ERASE_OP = 0
    /\ VECTOR_SIZE <= AREA_SIZE

\* block_idx is a uint16_t, addr a uint32_t: neither wraps in a bounded session.
ASSUME BlocksAssumption == MaxBlocks \in Nat \ {0} /\ MaxBlocks < 65535

ASSUME CellsAssumption ==
    /\ Old # Erased /\ Old # Torn /\ Erased # Torn
    /\ {Old, Erased, Torn} \cap Data = {}

Cells == Data \cup {Old, Erased, Torn}
Addrs == 0 .. AREA_SIZE - 1

States == {"appIDLE", "dfuIDLE", "dfuDNLOAD_SYNC", "dfuDNLOAD_IDLE",
           "dfuMANIFEST_SYNC", "dfuMANIFEST"}

Requests == {"DNLOAD", "UPLOAD", "GETSTATUS", "CLRSTATUS", "GETSTATE", "ABORT"}

VARIABLES
    mode,         \* "off", "app", "dfu" or "hung"
    bState,       \* __usbd_dfu_status.bState
    block_idx,    \* __usbd_dfu_block_idx
    buffer_size,  \* __usbd_dfu_buffer_size
    addr,         \* __usbd_dfu_addr
    buffer,       \* __usbd_dfu_buffer
    ctrl,         \* the control transfer in progress on endpoint 0
    flash,        \* the firmware area
    prog          \* where usrapp_flash_erase_write() is

ram  == <<bState, block_idx, buffer_size, addr, buffer>>
vars == <<mode, bState, block_idx, buffer_size, addr, buffer, ctrl, flash, prog>>

NoCtrl == [req |-> "none", wLength |-> 0, matched |-> FALSE, got |-> 0]
NoProg == [pc |-> "none", off |-> 0]

Larger(a, b)  == IF a >= b THEN a ELSE b
Smaller(a, b) == IF a <= b THEN a ELSE b

Ready == mode = "dfu" /\ prog = NoProg

(* ------------------------------- flash -------------------------------- *)

\* The size the DFU handler passes to usrapp_flash_erase_write().
ProgSize == Smaller(buffer_size, TRANSFER_SIZE)

\* Mutants: the size is left out of the check; the last byte of the area is.
InBoundsNoSize(a, size) == a <= AREA_SIZE
InBoundsStrict(a, size) == a + size < AREA_SIZE

\* The bounds check of usrapp_flash_erase_write().
InBounds(a, size) == a + size <= AREA_SIZE

\* The bounds check of usrapp_flash_read().
ReadInBounds(a, size) == a + size <= AREA_SIZE

\* Mutant: only the first page is erased.
StartsPageOnce(a) == a = 0

\* A write that starts a page erases it first.
StartsPage(a) == a % ERASE_OP = 0

\* The bytes the erase or the write at hand touches.
EraseSpan == {k \in Addrs : addr + prog.off <= k /\ k < addr + prog.off + ERASE_OP}
WriteSpan == {k \in Addrs : addr + prog.off <= k /\ k < addr + prog.off + WRITE_OP}

\* A word can be programmed only where the flash is erased.
Programmed(k) == IF flash[k] = Erased THEN buffer[k - addr] ELSE Torn

\* Mutants: the address goes backwards; the block is not counted.
BlockProgrammedBackwards ==
    /\ addr' = addr - buffer_size
    /\ block_idx' = block_idx + 1
    /\ bState' = "dfuDNLOAD_IDLE"
    /\ prog' = NoProg
    /\ UNCHANGED <<buffer_size, buffer>>

BlockProgrammedUncounted ==
    /\ addr' = addr + buffer_size
    /\ bState' = "dfuDNLOAD_IDLE"
    /\ prog' = NoProg
    /\ UNCHANGED <<block_idx, buffer_size, buffer>>

\* What follows usrapp_flash_erase_write() in the GETSTATUS handler; its
\* result is ignored.
BlockProgrammed ==
    /\ addr' = addr + buffer_size
    /\ block_idx' = block_idx + 1
    /\ bState' = "dfuDNLOAD_IDLE"
    /\ prog' = NoProg
    /\ UNCHANGED <<buffer_size, buffer>>

\* One page of vsfhal_flash_erase(): the loop runs to max(erase_op, size).
EraseStep ==
    /\ mode = "dfu" /\ prog.pc = "erase"
    /\ flash' = [k \in Addrs |-> IF k \in EraseSpan THEN Erased ELSE flash[k]]
    /\ prog' = IF prog.off + ERASE_OP < Larger(ERASE_OP, ProgSize)
               THEN [prog EXCEPT !.off = @ + ERASE_OP]
               ELSE [pc |-> "write", off |-> 0]
    /\ UNCHANGED <<mode, ram, ctrl>>

\* One word of vsfhal_flash_write(): the loop runs to max(write_op, size).
WriteStep ==
    /\ mode = "dfu" /\ prog.pc = "write" /\ addr % WRITE_OP = 0
    /\ flash' = [k \in Addrs |-> IF k \in WriteSpan THEN Programmed(k) ELSE flash[k]]
    /\ IF prog.off + WRITE_OP < Larger(WRITE_OP, ProgSize)
       THEN /\ prog' = [prog EXCEPT !.off = @ + WRITE_OP]
            /\ UNCHANGED ram
       ELSE BlockProgrammed
    /\ UNCHANGED <<mode, ctrl>>

\* A word store the flash controller cannot take, at an unaligned address,
\* faults in the interrupt handler.
WriteFault ==
    /\ mode = "dfu" /\ prog.pc = "write" /\ addr % WRITE_OP # 0
    /\ mode' = "hung"
    /\ UNCHANGED <<ram, ctrl, flash, prog>>

(* ------------------------------- power -------------------------------- *)

\* main() jumps to the firmware when its first words look like a vector table.
\* The old firmware's do, an erased word's do not, any other word's may.
VectorOld    == \A k \in 0 .. VECTOR_SIZE - 1 : flash[k] = Old
VectorBlank  == \E k \in 0 .. VECTOR_SIZE - 1 : flash[k] = Erased
JumpsToApp(jump) == (VectorOld => jump) /\ (VectorBlank => ~jump)

RamCleared ==
    /\ bState' = "appIDLE" /\ block_idx' = 0 /\ addr' = 0 /\ buffer_size' = 0
    /\ buffer' = [i \in 0 .. TRANSFER_SIZE - 1 |-> Torn]
    /\ ctrl' = NoCtrl /\ prog' = NoProg

PowerOn(key) ==
    /\ mode = "off"
    /\ \E jump \in BOOLEAN : /\ JumpsToApp(jump)
                             /\ mode' = IF ~key /\ jump THEN "app" ELSE "dfu"
    /\ RamCleared
    /\ UNCHANGED flash

\* Losing power during an erase or a write leaves what it touched undefined.
PowerOff ==
    /\ mode # "off"
    /\ mode' = "off"
    /\ RamCleared
    /\ \/ UNCHANGED flash
       \/ /\ mode = "dfu" /\ prog.pc = "erase"
          /\ flash' = [k \in Addrs |-> IF k \in EraseSpan THEN Torn ELSE flash[k]]
       \/ /\ mode = "dfu" /\ prog.pc = "write"
          /\ flash' = [k \in Addrs |-> IF k \in WriteSpan THEN Torn ELSE flash[k]]

(* -------------------------- USB_ON_RESET ------------------------------ *)

OnReset ==
    /\ Ready
    /\ bState' = "dfuIDLE" /\ block_idx' = 0 /\ addr' = 0
    /\ ctrl' = NoCtrl
    /\ UNCHANGED <<mode, buffer_size, buffer, flash, prog>>

(* -------------------------- USB_ON_SETUP ------------------------------ *)

NewCtrl(req, wLength, matched) ==
    [req |-> req, wLength |-> wLength, matched |-> matched, got |-> 0]

\* Mutants: block 0 forgets to reset the address, or the expected number.
SessionAddrKept(wValue)  == addr
SessionBlockKept(wValue) == block_idx

\* Block 0 starts a session over.
SessionAddr(wValue)  == IF wValue = 0 THEN 0 ELSE addr
SessionBlock(wValue) == IF wValue = 0 THEN 0 ELSE block_idx

\* Block 0 starts over; any other block must carry the expected number to be
\* given the buffer, and is otherwise received through a NULL one.
SetupDnload(wValue, wLength) ==
    /\ Ready
    /\ block_idx' = SessionBlock(wValue)
    /\ addr'   = SessionAddr(wValue)
    /\ bState' = IF wValue = 0 THEN "dfuIDLE" ELSE bState
    /\ ctrl'   = NewCtrl("DNLOAD", wLength, wValue = SessionBlock(wValue))
    /\ UNCHANGED <<mode, buffer_size, buffer, flash, prog>>

\* UPLOAD reads the flash into the buffer DNLOAD receives into.
SetupUpload(wValue, wLength) ==
    LET base == wValue * TRANSFER_SIZE
        size == Smaller(wLength, TRANSFER_SIZE)
    IN  /\ Ready
        /\ buffer' = IF ReadInBounds(base, size)
                     THEN [i \in 0 .. TRANSFER_SIZE - 1 |->
                             IF i < size THEN flash[base + i] ELSE buffer[i]]
                     ELSE buffer
        /\ ctrl' = NewCtrl("UPLOAD", wLength, TRUE)
        /\ UNCHANGED <<mode, bState, block_idx, buffer_size, addr, flash, prog>>

SetupOther(req) ==
    /\ Ready
    /\ req \in {"GETSTATUS", "CLRSTATUS", "GETSTATE", "ABORT"}
    /\ ctrl' = NewCtrl(req, 0, TRUE)
    /\ UNCHANGED <<mode, ram, flash, prog>>

(* -------------------------- USB_ON_OUT -------------------------------- *)

\* A packet of the data stage of a DNLOAD that was given the buffer;
\* payload[i] is byte i of the block.
DataOut(payload) ==
    /\ Ready
    /\ ctrl.req = "DNLOAD" /\ ctrl.matched /\ ctrl.got < ctrl.wLength
    /\ buffer' = [i \in 0 .. TRANSFER_SIZE - 1 |->
                    IF ctrl.got <= i /\ i < Smaller(ctrl.got + EP0_SIZE, ctrl.wLength)
                    THEN payload[i] ELSE buffer[i]]
    /\ ctrl' = [ctrl EXCEPT !.got = Smaller(@ + EP0_SIZE, ctrl.wLength)]
    /\ UNCHANGED <<mode, bState, block_idx, buffer_size, addr, flash, prog>>

\* The same through the NULL buffer: undefined, the store either faults or
\* has no effect.
DataOutNull ==
    /\ Ready
    /\ ctrl.req = "DNLOAD" /\ ~ctrl.matched /\ ctrl.got < ctrl.wLength
    /\ \/ /\ mode' = "hung"
          /\ UNCHANGED ctrl
       \/ /\ ctrl' = [ctrl EXCEPT !.got = Smaller(@ + EP0_SIZE, ctrl.wLength)]
          /\ UNCHANGED mode
    /\ UNCHANGED <<ram, flash, prog>>

(* -------------------------- USB_ON_STATUS ----------------------------- *)

\* A data stage ends when all of wLength has come; without a buffer its byte
\* count underflows and only a short packet ends it.
DataComplete ==
    /\ ctrl.got = ctrl.wLength
    /\ ctrl.matched \/ ctrl.wLength = 0 \/ ctrl.wLength % EP0_SIZE # 0

StatusDnload ==
    /\ Ready /\ ctrl.req = "DNLOAD" /\ DataComplete
    /\ buffer_size' = ctrl.wLength
    /\ bState' = IF ctrl.wLength > 0 THEN "dfuDNLOAD_SYNC" ELSE "dfuMANIFEST_SYNC"
    /\ ctrl' = NoCtrl
    /\ UNCHANGED <<mode, block_idx, addr, buffer, flash, prog>>

\* The status stage of a GETSTATUS programs the block that was downloaded.
StatusGetStatusSync ==
    /\ Ready /\ ctrl.req = "GETSTATUS" /\ bState = "dfuDNLOAD_SYNC"
    /\ IF InBounds(addr, ProgSize)
       THEN /\ prog' = [pc |-> IF StartsPage(addr) THEN "erase" ELSE "write",
                        off |-> 0]
            /\ UNCHANGED ram
       ELSE BlockProgrammed
    /\ ctrl' = NoCtrl
    /\ UNCHANGED <<mode, flash>>

StatusGetStatus ==
    /\ Ready /\ ctrl.req = "GETSTATUS" /\ bState # "dfuDNLOAD_SYNC"
    /\ bState' = IF bState = "dfuMANIFEST_SYNC" THEN "dfuMANIFEST" ELSE bState
    /\ ctrl' = NoCtrl
    /\ UNCHANGED <<mode, block_idx, buffer_size, addr, buffer, flash, prog>>

StatusToIdle ==
    /\ Ready /\ ctrl.req \in {"CLRSTATUS", "ABORT"}
    /\ bState' = "dfuIDLE"
    /\ ctrl' = NoCtrl
    /\ UNCHANGED <<mode, block_idx, buffer_size, addr, buffer, flash, prog>>

StatusRead ==
    /\ Ready /\ ctrl.req \in {"UPLOAD", "GETSTATE"}
    /\ ctrl' = NoCtrl
    /\ UNCHANGED <<mode, ram, flash, prog>>

(* ---------------------- any host, any request ------------------------- *)

Init ==
    /\ mode = "off"
    /\ bState = "appIDLE" /\ block_idx = 0 /\ buffer_size = 0 /\ addr = 0
    /\ buffer = [i \in 0 .. TRANSFER_SIZE - 1 |-> Torn]
    /\ ctrl = NoCtrl /\ prog = NoProg
    /\ flash \in {[k \in Addrs |-> c] : c \in {Old, Erased}}

\* What the device does by itself, in the interrupt it is in.
FlashNext == EraseStep \/ WriteStep

\* The bound on a session: only block 0 is accepted once it is reached.
WithinSession(wValue) == wValue = 0 \/ (wValue <= MaxBlocks /\ block_idx < MaxBlocks)

\* Bound: the free host sends whole transfers, whose bytes are all equal.
SetupNext ==
    \/ \E w \in 0 .. MaxBlocks, len \in {0, TRANSFER_SIZE} :
          WithinSession(w) /\ SetupDnload(w, len)
    \/ \E w \in 0 .. MaxBlocks : SetupUpload(w, TRANSFER_SIZE)
    \/ \E req \in Requests : SetupOther(req)

DataNext ==
    \/ \E b \in Data : DataOut([i \in 0 .. TRANSFER_SIZE - 1 |-> b])
    \/ DataOutNull

StatusNext == StatusDnload \/ StatusGetStatusSync \/ StatusGetStatus
              \/ StatusToIdle \/ StatusRead

Next ==
    \/ \E key \in BOOLEAN : PowerOn(key)
    \/ PowerOff
    \/ OnReset
    \/ SetupNext
    \/ DataNext
    \/ StatusNext
    \/ FlashNext

Spec == Init /\ [][Next]_vars

\* A host that also sends blocks shorter than a transfer, anywhere. The address
\* then follows no block number, words that are not erased are programmed, and a
\* word may be unaligned, which it never is under Spec (NoUnalignedWord).
ShortSetup ==
    \E w \in 0 .. MaxBlocks, len \in 1 .. TRANSFER_SIZE - 1 :
        WithinSession(w) /\ SetupDnload(w, len)

ShortNext == Next \/ ShortSetup \/ WriteFault
ShortSpec == Init /\ [][ShortNext]_vars

(* ---------------------------- properties ------------------------------ *)

\* The types of the bootloader's state.
TypeOK ==
    /\ mode \in {"off", "app", "dfu", "hung"}
    /\ bState \in States
    /\ block_idx \in Nat /\ buffer_size \in Nat /\ addr \in Nat
    /\ buffer \in [0 .. TRANSFER_SIZE - 1 -> Cells]
    /\ ctrl \in [req : Requests \cup {"none"}, wLength : Nat,
                 matched : BOOLEAN, got : Nat]
    /\ flash \in [Addrs -> Cells]
    /\ prog \in [pc : {"none", "erase", "write"}, off : Nat]

\* Whatever requests a host makes, in any order, as long as its blocks are whole
\* transfers, no word is ever programmed over one that is not erased: although
\* only a block that starts a page erases it, a session that was reset, aborted,
\* restarted or cut off by a power failure never comes back to a page in the
\* middle.
ProgramsOnlyErased ==
    prog.pc = "write" => \A k \in WriteSpan : flash[k] = Erased

\* Whatever requests a host makes, in any order, nothing outside the firmware
\* area is erased or programmed, although the sizes are rounded up after the
\* bounds check. (A word at an unaligned address is not programmed: WriteFault.)
StaysInArea ==
    /\ prog.pc = "erase" => addr + prog.off + ERASE_OP <= AREA_SIZE
    /\ prog.pc = "write" /\ addr % WRITE_OP = 0 => addr + prog.off + WRITE_OP <= AREA_SIZE

\* The address and the block number of a session advance together: neither a
\* refused block, nor a repeated GETSTATUS, nor an upload makes them drift.
AddrFollowsBlocks == addr = block_idx * TRANSFER_SIZE
=============================================================================
