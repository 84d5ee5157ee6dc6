----------------------------- MODULE DfuProofs -----------------------------
(* Theorems about the bootloader with any host, and about a download by the   *)
(* host that follows the protocol, for every image, and for every page, word, *)
(* transfer and area size that SizesAssumption allows.                        *)
EXTENDS DfuHost, TLAPS

(* ------------------------- the device, any host ------------------------- *)

(* ---------------------------- arithmetic ------------------------------ *)

LEMMA MultipleOf ==
    ASSUME NEW a \in Nat, NEW E \in Nat \ {0}, a % E = 0
    PROVE  \E q \in Nat : a = q * E
  BY SMT

LEMMA MultipleMod ==
    ASSUME NEW q \in Nat, NEW E \in Nat \ {0}
    PROVE  (q * E) % E = 0
  BY SMT

LEMMA ZeroMultiple ==
    ASSUME NEW E \in Nat \ {0}
    PROVE  0 % E = 0
  BY SMT

LEMMA MultiplesApart ==
    ASSUME NEW a \in Nat, NEW b \in Nat, NEW E \in Nat \ {0}, a * E < b * E
    PROVE  (a + 1) * E <= b * E
  BY SMT

\* The next multiple of E after one is E further.
LEMMA NextMultiple ==
    ASSUME NEW a \in Nat, NEW E \in Nat \ {0}, a % E = 0
    PROVE  (a + E) % E = 0
<1>1. PICK q \in Nat : a = q * E
  BY MultipleOf
<1>2. a + E = (q + 1) * E
  BY <1>1, SMT
<1> QED
  BY <1>2, MultipleMod, q + 1 \in Nat

\* There is room for a whole E after a multiple of E below another one.
LEMMA RoomForAnother ==
    ASSUME NEW a \in Nat, NEW b \in Nat, NEW E \in Nat \ {0},
           a % E = 0, b % E = 0, a < b
    PROVE  a + E <= b
<1>1. PICK q \in Nat : a = q * E
  BY MultipleOf
<1>2. PICK r \in Nat : b = r * E
  BY MultipleOf
<1>3. (q + 1) * E <= r * E
  BY <1>1, <1>2, MultiplesApart
<1>4. (q + 1) * E = a + E
  BY <1>1, SMT
<1> QED
  BY <1>2, <1>3, <1>4

\* A multiple of a multiple.
LEMMA MultipleTrans ==
    ASSUME NEW a \in Nat, NEW E \in Nat \ {0}, NEW T \in Nat \ {0},
           a % E = 0, E % T = 0
    PROVE  a % T = 0
<1>1. PICK q \in Nat : a = q * E
  BY MultipleOf
<1>2. PICK r \in Nat : E = r * T
  BY MultipleOf
<1>3. a = (q * r) * T
  BY <1>1, <1>2, SMT
<1> QED
  BY <1>3, MultipleMod, q * r \in Nat

\* A page holds whole transfers.
LEMMA TransferInPage == TRANSFER_SIZE <= ERASE_OP
<1>1. 0 % TRANSFER_SIZE = 0
  BY ZeroMultiple, SizesAssumption
<1> QED
  BY <1>1, RoomForAnother, SizesAssumption

\* A transfer that does not start a page lies inside one.
LEMMA InsidePage ==
    ASSUME NEW i \in Nat, NEW a \in Nat, a = i * TRANSFER_SIZE, a % ERASE_OP # 0,
           NEW j \in a .. a + TRANSFER_SIZE - 1
    PROVE  j % ERASE_OP # 0
<1> SUFFICES ASSUME j % ERASE_OP = 0 PROVE FALSE
  OBVIOUS
<1>1. TRANSFER_SIZE \in Nat \ {0}
  BY SizesAssumption
<1>2. j \in Nat /\ a < j /\ j < a + TRANSFER_SIZE
  <2>1. j # a
    OBVIOUS
  <2> QED
    BY <1>1, <2>1
<1>3. j % TRANSFER_SIZE = 0
  BY <1>2, MultipleTrans, SizesAssumption
<1>4. a % TRANSFER_SIZE = 0
  BY <1>1, MultipleMod
<1>5. a + TRANSFER_SIZE <= j
  BY <1>1, <1>2, <1>3, <1>4, RoomForAnother
<1> QED
  BY <1>1, <1>2, <1>5

(* ----------------------- the inductive invariant ---------------------- *)

\* From byte a on, up to the next page boundary, the flash is erased. The page
\* a session is in was erased when the session entered it, so what is above
\* addr in it is still erased; a session that starts over is at a boundary.
FreshAbove(a) ==
    \A k \in Addrs : (a <= k /\ \A j \in a .. k : j % ERASE_OP # 0) => flash[k] = Erased

\* The download a session has reached.
SessionInv ==
    /\ AddrFollowsBlocks
    /\ ctrl.req = "DNLOAD" => ctrl.wLength \in {0, TRANSFER_SIZE}
    /\ bState = "dfuDNLOAD_SYNC" => buffer_size = TRANSFER_SIZE

\* Where the flash routine is, and what it finds.
FlashInv ==
    /\ prog.pc = "none"  => prog = NoProg /\ FreshAbove(addr)
    /\ prog.pc # "none"  => /\ bState = "dfuDNLOAD_SYNC" /\ mode = "dfu"
                            /\ addr + TRANSFER_SIZE <= AREA_SIZE
    /\ prog.pc = "erase" => prog.off = 0 /\ addr % ERASE_OP = 0
    /\ prog.pc = "write" =>
          /\ prog.off % WRITE_OP = 0 /\ prog.off < TRANSFER_SIZE
          /\ \A k \in Addrs : (addr + prog.off <= k /\ k < addr + TRANSFER_SIZE)
                                  => flash[k] = Erased
          /\ FreshAbove(addr + TRANSFER_SIZE)

IInv == TypeOK /\ SessionInv /\ FlashInv

LEMMA FreshUse ==
    ASSUME NEW a \in Nat, FreshAbove(a), NEW k \in Addrs, a <= k,
           \A j \in a .. k : j % ERASE_OP # 0
    PROVE  flash[k] = Erased
  BY DEF FreshAbove

LEMMA FreshFromZero ==
    ASSUME NEW f
    PROVE  \A k \in Addrs : (0 <= k /\ \A j \in 0 .. k : j % ERASE_OP # 0) => f[k] = Erased
<1>1. 0 % ERASE_OP = 0
  BY ZeroMultiple, SizesAssumption
<1> QED
  BY <1>1, SizesAssumption DEF Addrs

LEMMA IInvInit == Init => IInv
<1> SUFFICES ASSUME Init PROVE IInv
  OBVIOUS
<1>1. TypeOK
  BY SizesAssumption DEF Init, TypeOK, States, NoCtrl, NoProg, Cells, Addrs, Requests
<1>2. SessionInv
  BY SizesAssumption DEF Init, SessionInv, AddrFollowsBlocks, NoCtrl
<1>3. FlashInv
  BY FreshFromZero DEF Init, FlashInv, FreshAbove, NoProg
<1> QED
  BY <1>1, <1>2, <1>3 DEF IInv

\* What the flash routine does keeps the invariant.
LEMMA EraseStepInv ==
    ASSUME IInv, EraseStep
    PROVE  IInv'
<1> USE SizesAssumption DEF IInv, TypeOK
<1>1. ProgSize = TRANSFER_SIZE /\ prog.off = 0 /\ addr % ERASE_OP = 0
  BY DEF EraseStep, FlashInv, SessionInv, ProgSize, Smaller
<1>2. prog' = [pc |-> "write", off |-> 0]
  BY <1>1, TransferInPage DEF EraseStep, Larger
<1>3. \A k \in Addrs : flash'[k] = IF addr <= k /\ k < addr + ERASE_OP THEN Erased ELSE flash[k]
  BY <1>1 DEF EraseStep, EraseSpan, Addrs
<1>4. TypeOK'
  BY <1>2 DEF EraseStep, ram, Cells
<1>5. SessionInv'
  BY DEF EraseStep, ram, SessionInv, AddrFollowsBlocks
<1>6. FlashInv'
  <2>1. FreshAbove(addr + TRANSFER_SIZE)'
    <3>0. SUFFICES ASSUME NEW k \in Addrs, addr + TRANSFER_SIZE <= k,
                          \A j \in addr + TRANSFER_SIZE .. k : j % ERASE_OP # 0
                   PROVE  flash'[k] = Erased
      BY DEF FreshAbove, EraseStep, ram
    <3>1. k < addr + ERASE_OP
      <4>1. (addr + ERASE_OP) % ERASE_OP = 0
        BY <1>1, NextMultiple
      <4>2. addr + ERASE_OP <= k => addr + ERASE_OP \in addr + TRANSFER_SIZE .. k
        BY TransferInPage DEF Addrs
      <4>3. ~(addr + ERASE_OP <= k)
        BY ONLY <3>0, <4>1, <4>2
      <4>4. addr \in Int /\ k \in Int /\ ERASE_OP \in Int
        BY DEF Addrs
      <4> QED
        BY ONLY <4>3, <4>4
    <3>2. addr <= k
      BY <3>0 DEF Addrs
    <3> QED
      BY ONLY <1>3, <3>1, <3>2
  <2>2. \A k \in Addrs : (addr <= k /\ k < addr + TRANSFER_SIZE) => flash'[k] = Erased
    BY <1>3, TransferInPage DEF Addrs
  <2>3. 0 % WRITE_OP = 0
    BY ZeroMultiple
  <2> QED
    BY <1>2, <2>1, <2>2, <2>3 DEF FlashInv, EraseStep, ram, FreshAbove, Addrs
<1> QED
  BY <1>4, <1>5, <1>6

LEMMA WriteStepInv ==
    ASSUME IInv, WriteStep
    PROVE  IInv'
<1> USE SizesAssumption DEF IInv, TypeOK
<1>0. /\ prog.pc = "write" /\ prog.off \in Nat /\ addr \in Nat
      /\ bState = "dfuDNLOAD_SYNC"
  BY DEF WriteStep, FlashInv
<1>1. /\ ProgSize = TRANSFER_SIZE /\ buffer_size = TRANSFER_SIZE
      /\ prog.pc = "write" /\ prog.off \in Nat /\ addr \in Nat
  BY <1>0 DEF SessionInv, ProgSize, Smaller
<1>2. prog.off + WRITE_OP <= TRANSFER_SIZE
  BY <1>1, RoomForAnother DEF FlashInv
<1>3. /\ \A k \in Addrs : (addr + prog.off + WRITE_OP <= k /\ k < addr + TRANSFER_SIZE)
                              => flash'[k] = Erased
      /\ \A k \in Addrs : addr + TRANSFER_SIZE <= k => flash'[k] = flash[k]
  <2>1. flash' = [k \in Addrs |-> IF k \in WriteSpan THEN Programmed(k) ELSE flash[k]]
    BY DEF WriteStep
  <2>2. \A k \in Addrs : (addr + prog.off <= k /\ k < addr + TRANSFER_SIZE)
                            => flash[k] = Erased
    BY <1>1 DEF FlashInv
  <2>3. \A k \in Addrs : addr + prog.off + WRITE_OP <= k
                            => k \notin WriteSpan /\ addr + prog.off <= k
    BY <1>1 DEF WriteSpan, Addrs
  <2>4. \A k \in Addrs : addr + TRANSFER_SIZE <= k => addr + prog.off + WRITE_OP <= k
    BY <1>1, <1>2 DEF Addrs
  <2> QED
    BY ONLY <2>1, <2>2, <2>3, <2>4
<1>4. flash' \in [Addrs -> Cells]
  <2>1. \A k \in WriteSpan : k - addr \in 0 .. TRANSFER_SIZE - 1
    BY <1>1, <1>2 DEF WriteSpan, Addrs
  <2>2. \A k \in WriteSpan : Programmed(k) \in Cells
    BY <2>1 DEF Programmed, Cells
  <2> QED
    BY <2>2 DEF WriteStep
<1>5. FreshAbove(addr + TRANSFER_SIZE) /\ addr + TRANSFER_SIZE <= AREA_SIZE
      /\ prog.off % WRITE_OP = 0 /\ mode = "dfu" /\ bState = "dfuDNLOAD_SYNC"
  BY <1>1 DEF FlashInv
<1>6. CASE prog.off + WRITE_OP < Larger(WRITE_OP, ProgSize)
  <2>1. /\ prog' = [pc |-> "write", off |-> prog.off + WRITE_OP]
        /\ prog.off + WRITE_OP < TRANSFER_SIZE
    BY <1>1, <1>2, <1>6 DEF WriteStep, Larger
  <2>2. (prog.off + WRITE_OP) % WRITE_OP = 0
    BY <1>1, <1>5, NextMultiple
  <2>3. UNCHANGED <<mode, ram, ctrl>>
    BY <1>6 DEF WriteStep
  <2>4. TypeOK'
    BY <1>4, <2>1, <2>3 DEF ram
  <2>5. SessionInv'
    BY <2>3 DEF ram, SessionInv, AddrFollowsBlocks
  <2>6. FreshAbove(addr + TRANSFER_SIZE)'
    BY <1>3, <1>5, <2>3 DEF FreshAbove, ram, Addrs
  <2>7. \A k \in Addrs : (addr' + prog'.off <= k /\ k < addr' + TRANSFER_SIZE)
                             => flash'[k] = Erased
    BY <1>1, <1>3, <2>1, <2>3 DEF ram, Addrs
  <2>8. FlashInv'
    BY <1>1, <1>5, <2>1, <2>2, <2>3, <2>6, <2>7 DEF FlashInv, ram
  <2> QED
    BY <2>4, <2>5, <2>8
<1>7. CASE ~(prog.off + WRITE_OP < Larger(WRITE_OP, ProgSize))
  <2>1. BlockProgrammed /\ UNCHANGED <<mode, ctrl>>
    BY <1>7 DEF WriteStep
  <2>2. TypeOK'
    BY <1>4, <2>1 DEF BlockProgrammed, NoProg, States
  <2>3. addr' = (block_idx + 1) * TRANSFER_SIZE
    BY <1>1, <2>1 DEF BlockProgrammed, SessionInv, AddrFollowsBlocks
  <2>4. SessionInv'
    BY <2>1, <2>3 DEF BlockProgrammed, SessionInv, AddrFollowsBlocks
  <2>5. FreshAbove(addr)'
    BY <1>1, <1>3, <1>5, <2>1 DEF FreshAbove, BlockProgrammed, Addrs
  <2>6. FlashInv'
    BY <2>1, <2>5 DEF FlashInv, BlockProgrammed, NoProg
  <2> QED
    BY <2>2, <2>4, <2>6
<1> QED
  BY <1>6, <1>7

\* The address is always that of a word.
LEMMA AddrIsAligned ==
    ASSUME IInv
    PROVE  addr % WRITE_OP = 0
<1>1. addr % TRANSFER_SIZE = 0 /\ addr \in Nat
  BY MultipleMod, SizesAssumption DEF IInv, TypeOK, SessionInv, AddrFollowsBlocks
<1> QED
  BY <1>1, MultipleTrans, SizesAssumption

\* A GETSTATUS after a download starts the flash routine, or skips it when the
\* block does not fit.
LEMMA StatusGetStatusSyncInv ==
    ASSUME IInv, StatusGetStatusSync
    PROVE  IInv'
<1> USE SizesAssumption DEF IInv, TypeOK
<1>1. /\ ProgSize = TRANSFER_SIZE /\ buffer_size = TRANSFER_SIZE
      /\ bState = "dfuDNLOAD_SYNC" /\ mode = "dfu" /\ addr \in Nat
      /\ addr = block_idx * TRANSFER_SIZE /\ block_idx \in Nat
      /\ FreshAbove(addr)
  BY DEF StatusGetStatusSync, FlashInv, SessionInv, ProgSize, Smaller, Ready,
         NoProg, AddrFollowsBlocks
<1>2. ctrl' = NoCtrl /\ UNCHANGED <<mode, flash>>
  BY DEF StatusGetStatusSync
<1>3. CASE InBounds(addr, ProgSize)
  <2>1. /\ prog' = [pc |-> IF addr % ERASE_OP = 0 THEN "erase" ELSE "write", off |-> 0]
        /\ UNCHANGED ram
        /\ addr + TRANSFER_SIZE <= AREA_SIZE
    BY <1>1, <1>3 DEF StatusGetStatusSync, InBounds, StartsPage
  <2>2. TypeOK' /\ SessionInv'
    BY <1>2, <2>1 DEF ram, NoCtrl, SessionInv, AddrFollowsBlocks
  <2>3. 0 % WRITE_OP = 0
    BY ZeroMultiple
  <2>4. ASSUME addr % ERASE_OP # 0
        PROVE  /\ \A k \in Addrs : (addr <= k /\ k < addr + TRANSFER_SIZE)
                                      => flash[k] = Erased
               /\ FreshAbove(addr + TRANSFER_SIZE)
    <3>1. \A j \in addr .. addr + TRANSFER_SIZE - 1 : j % ERASE_OP # 0
      BY <1>1, <2>4, InsidePage
    <3>2. ASSUME NEW k \in Addrs, addr <= k, k < addr + TRANSFER_SIZE
          PROVE  flash[k] = Erased
      <4>1. \A j \in addr .. k : j % ERASE_OP # 0
        <5>1. addr \in Int /\ k \in Int /\ TRANSFER_SIZE \in Int
          BY <1>1, <3>2 DEF Addrs
        <5>2. \A j \in addr .. k : j \in addr .. addr + TRANSFER_SIZE - 1
          BY ONLY <3>2, <5>1
        <5> QED
          BY ONLY <3>1, <5>2
      <4> QED
        BY ONLY <1>1, <3>2, <4>1, FreshUse
    <3>3. ASSUME NEW k \in Addrs, addr + TRANSFER_SIZE <= k,
                 \A j \in addr + TRANSFER_SIZE .. k : j % ERASE_OP # 0
          PROVE  flash[k] = Erased
      <4>1. \A j \in addr .. k : j \in addr .. addr + TRANSFER_SIZE - 1
                                 \/ j \in addr + TRANSFER_SIZE .. k
        BY <1>1, <3>3 DEF Addrs
      <4>2. \A j \in addr .. k : j % ERASE_OP # 0
        BY <3>1, <3>3, <4>1
      <4>3. k \in Addrs /\ addr <= k
        BY <1>1, <3>3 DEF Addrs
      <4> QED
        BY ONLY <1>1, <4>2, <4>3, FreshUse
    <3> QED
      BY <3>2, <3>3 DEF FreshAbove
  <2>5. UNCHANGED <<addr, bState, mode, flash>> /\ addr + 0 = addr
    BY <1>1, <1>2, <2>1 DEF ram
  <2>6. ASSUME addr % ERASE_OP = 0 PROVE FlashInv'
    BY <1>1, <2>1, <2>5, <2>6 DEF FlashInv
  <2>7. ASSUME addr % ERASE_OP # 0 PROVE FlashInv'
    <3>1. FreshAbove(addr + TRANSFER_SIZE)'
      BY <2>4, <2>5, <2>7 DEF FreshAbove
    <3> QED
      BY <1>1, <2>1, <2>3, <2>4, <2>5, <2>7, <3>1 DEF FlashInv
  <2> QED
    BY <2>2, <2>6, <2>7
<1>4. CASE ~InBounds(addr, ProgSize)
  <2>1. BlockProgrammed /\ addr + TRANSFER_SIZE > AREA_SIZE
    BY <1>1, <1>4 DEF StatusGetStatusSync, InBounds, StartsPage
  <2>2. TypeOK'
    BY <1>1, <1>2, <2>1 DEF BlockProgrammed, NoProg, NoCtrl, States
  <2>3. addr' = (block_idx + 1) * TRANSFER_SIZE
    BY <1>1, <2>1 DEF BlockProgrammed
  <2>4. SessionInv'
    BY <1>2, <2>1, <2>3 DEF BlockProgrammed, SessionInv, AddrFollowsBlocks, NoCtrl
  <2>5. FreshAbove(addr)'
    BY <1>1, <2>1 DEF FreshAbove, BlockProgrammed, Addrs
  <2>6. FlashInv'
    BY <2>1, <2>5 DEF FlashInv, BlockProgrammed, NoProg
  <2> QED
    BY <2>2, <2>4, <2>6
<1> QED
  BY <1>3, <1>4

\* A handler that leaves flash, addr and the flash routine alone.
LEMMA QuietInv ==
    ASSUME IInv, TypeOK', SessionInv', prog = NoProg, UNCHANGED <<addr, flash, prog>>
    PROVE  IInv'
<1>1. FreshAbove(addr)
  BY DEF IInv, FlashInv, NoProg
<1>2. FreshAbove(addr)'
  BY <1>1 DEF FreshAbove
<1>3. prog' = NoProg /\ prog'.pc = "none"
  BY DEF NoProg
<1>4. FlashInv'
  BY <1>2, <1>3 DEF FlashInv
<1> QED
  BY <1>4 DEF IInv

\* A handler that starts a session at address 0.
LEMMA RestartInv ==
    ASSUME IInv, TypeOK', SessionInv', addr' = 0, prog' = NoProg
    PROVE  IInv'
<1>1. \A k \in Addrs : (0 <= k /\ \A j \in 0 .. k : j % ERASE_OP # 0) => flash'[k] = Erased
  BY FreshFromZero
<1>2. FreshAbove(addr)'
  BY <1>1 DEF FreshAbove
<1>3. prog'.pc = "none"
  BY DEF NoProg
<1>4. FlashInv'
  BY <1>2, <1>3 DEF FlashInv
<1> QED
  BY <1>4 DEF IInv

CtrlType == [req : Requests \cup {"none"}, wLength : Nat, matched : BOOLEAN, got : Nat]

\* The byte count of a transfer can change to any number.
LEMMA GotType ==
    ASSUME NEW c \in CtrlType, NEW g \in Nat
    PROVE  [c EXCEPT !.got = g] \in CtrlType
  BY DEF CtrlType

\* Every step of a free host and its bootloader keeps the invariant.
LEMMA IInvNext == IInv /\ [Next]_vars => IInv'
<1> SUFFICES ASSUME IInv, [Next]_vars PROVE IInv'
  OBVIOUS
<1> USE SizesAssumption, BlocksAssumption
<1>1. TypeOK /\ SessionInv /\ FlashInv
  BY DEF IInv
<1>2. ASSUME NEW key \in BOOLEAN, PowerOn(key) PROVE IInv'
  <2>1. TypeOK'
    BY <1>1, <1>2 DEF PowerOn, RamCleared, TypeOK, States, NoCtrl, NoProg, Cells, Requests
  <2>2. SessionInv'
    BY <1>2 DEF PowerOn, RamCleared, SessionInv, AddrFollowsBlocks, NoCtrl
  <2> QED
    BY <1>2, <2>1, <2>2, RestartInv DEF PowerOn, RamCleared
<1>3. CASE PowerOff
  <2>0. flash \in [Addrs -> Cells] /\ Torn \in Cells
    BY <1>1 DEF TypeOK, Cells
  <2>1. flash' \in [Addrs -> Cells]
    <3>1. \/ flash' = flash
          \/ flash' = [k \in Addrs |-> IF k \in EraseSpan THEN Torn ELSE flash[k]]
          \/ flash' = [k \in Addrs |-> IF k \in WriteSpan THEN Torn ELSE flash[k]]
      BY <1>3 DEF PowerOff
    <3> QED
      BY ONLY <2>0, <3>1
  <2>2. TypeOK'
    BY <1>3, <2>1 DEF PowerOff, RamCleared, TypeOK, States, NoCtrl, NoProg, Cells, Requests
  <2>3. SessionInv'
    BY <1>3 DEF PowerOff, RamCleared, SessionInv, AddrFollowsBlocks, NoCtrl
  <2>4. addr' = 0 /\ prog' = NoProg
    BY <1>3 DEF PowerOff, RamCleared
  <2> QED
    BY ONLY IInv, <2>2, <2>3, <2>4, RestartInv
<1>4. CASE OnReset
  <2>1. TypeOK'
    BY <1>1, <1>4 DEF OnReset, TypeOK, States, NoCtrl, Requests
  <2>2. SessionInv'
    BY <1>4 DEF OnReset, SessionInv, AddrFollowsBlocks, NoCtrl
  <2> QED
    BY <1>4, <2>1, <2>2, RestartInv DEF OnReset, Ready
<1>5. ASSUME NEW w \in 0 .. MaxBlocks, NEW len \in {0, TRANSFER_SIZE}, SetupDnload(w, len)
      PROVE  IInv'
  <2>1. TypeOK'
    BY <1>1, <1>5 DEF SetupDnload, SessionAddr, SessionBlock, NewCtrl, TypeOK, States, Requests
  <2>2. SessionInv'
    BY <1>1, <1>5 DEF SetupDnload, SessionAddr, SessionBlock, NewCtrl, SessionInv, AddrFollowsBlocks
  <2>3. CASE w = 0
    BY <1>5, <2>1, <2>2, <2>3, RestartInv DEF SetupDnload, SessionAddr, SessionBlock, Ready
  <2>4. CASE w # 0
    BY <1>5, <2>1, <2>2, <2>4, QuietInv DEF SetupDnload, SessionAddr, SessionBlock, Ready
  <2> QED
    BY <2>3, <2>4
<1>6. ASSUME NEW w \in 0 .. MaxBlocks, SetupUpload(w, TRANSFER_SIZE)
      PROVE  IInv'
  <2>1. buffer' \in [0 .. TRANSFER_SIZE - 1 -> Cells]
    <3>1. w * TRANSFER_SIZE \in Nat
      OBVIOUS
    <3>2. ASSUME NEW i \in 0 .. TRANSFER_SIZE - 1, ReadInBounds(w * TRANSFER_SIZE, TRANSFER_SIZE)
          PROVE  w * TRANSFER_SIZE + i \in Addrs
      BY <3>1, <3>2 DEF ReadInBounds, Addrs
    <3>3. /\ buffer \in [0 .. TRANSFER_SIZE - 1 -> Cells]
          /\ flash \in [Addrs -> Cells]
      BY <1>1 DEF TypeOK
    <3>4. \/ buffer' = buffer
          \/ /\ ReadInBounds(w * TRANSFER_SIZE, TRANSFER_SIZE)
             /\ buffer' = [i \in 0 .. TRANSFER_SIZE - 1 |->
                             IF i < TRANSFER_SIZE THEN flash[w * TRANSFER_SIZE + i]
                                                  ELSE buffer[i]]
      BY <1>6 DEF SetupUpload, Smaller
    <3> QED
      BY ONLY <3>2, <3>3, <3>4
  <2>2. TypeOK'
    BY <1>1, <1>6, <2>1 DEF SetupUpload, NewCtrl, TypeOK, Requests
  <2>3. SessionInv'
    BY <1>1, <1>6 DEF SetupUpload, NewCtrl, SessionInv, AddrFollowsBlocks
  <2> QED
    BY <1>6, <2>2, <2>3, QuietInv DEF SetupUpload, Ready
<1>7. ASSUME NEW req \in Requests, SetupOther(req)
      PROVE  IInv'
  <2>1. TypeOK'
    BY <1>1, <1>7 DEF SetupOther, NewCtrl, TypeOK, ram, Requests
  <2>2. SessionInv'
    BY <1>1, <1>7 DEF SetupOther, NewCtrl, SessionInv, AddrFollowsBlocks, ram
  <2> QED
    BY <1>7, <2>1, <2>2, QuietInv DEF SetupOther, Ready, ram
<1>8. ASSUME NEW b \in Data, DataOut([i \in 0 .. TRANSFER_SIZE - 1 |-> b])
      PROVE  IInv'
  <2>0. /\ UNCHANGED <<mode, bState, block_idx, buffer_size, addr, flash, prog>>
        /\ prog = NoProg
    BY <1>8 DEF DataOut, Ready
  <2>1. buffer' \in [0 .. TRANSFER_SIZE - 1 -> Cells]
    <3> DEFINE Part(i) == ctrl.got <= i /\ i < Smaller(ctrl.got + EP0_SIZE, ctrl.wLength)
               payload == [i \in 0 .. TRANSFER_SIZE - 1 |-> b]
    <3>1. buffer' = [i \in 0 .. TRANSFER_SIZE - 1 |->
                       IF Part(i) THEN payload[i] ELSE buffer[i]]
      BY <1>8 DEF DataOut
    <3>2. b \in Cells /\ buffer \in [0 .. TRANSFER_SIZE - 1 -> Cells]
      BY <1>1, <1>8 DEF TypeOK, Cells
    <3> HIDE DEF Part
    <3> QED
      BY ONLY <3>1, <3>2
  <2>2. ctrl' = [ctrl EXCEPT !.got = Smaller(ctrl.got + EP0_SIZE, ctrl.wLength)]
    BY <1>8 DEF DataOut
  <2>3. TypeOK'
    <3>1. ctrl \in CtrlType /\ Smaller(ctrl.got + EP0_SIZE, ctrl.wLength) \in Nat
      BY <1>1 DEF TypeOK, CtrlType, Smaller
    <3>2. ctrl' \in CtrlType
      BY ONLY <2>2, <3>1, GotType
    <3> QED
      BY <1>1, <2>0, <2>1, <3>2 DEF TypeOK, CtrlType
  <2>4. SessionInv'
    BY <1>1, <2>0, <2>2 DEF SessionInv, AddrFollowsBlocks, TypeOK
  <2> QED
    BY ONLY IInv, <2>0, <2>3, <2>4, QuietInv
<1>9. CASE DataOutNull
  <2>0. /\ UNCHANGED <<bState, block_idx, buffer_size, addr, buffer, flash, prog>>
        /\ prog = NoProg
    BY <1>9 DEF DataOutNull, Ready, ram
  <2>1. /\ mode' = mode \/ mode' = "hung"
        /\ \/ ctrl' = ctrl
           \/ ctrl' = [ctrl EXCEPT !.got = Smaller(ctrl.got + EP0_SIZE, ctrl.wLength)]
    BY <1>9 DEF DataOutNull
  <2>2. TypeOK'
    <3>1. ctrl \in CtrlType /\ Smaller(ctrl.got + EP0_SIZE, ctrl.wLength) \in Nat
      BY <1>1 DEF TypeOK, CtrlType, Smaller
    <3>2. ctrl' \in CtrlType
      BY ONLY <2>1, <3>1, GotType
    <3> QED
      BY <1>1, <2>0, <2>1, <3>2 DEF TypeOK, CtrlType
  <2>3. SessionInv'
    BY <1>1, <2>0, <2>1 DEF SessionInv, AddrFollowsBlocks, TypeOK
  <2> QED
    BY ONLY IInv, <2>0, <2>2, <2>3, QuietInv
<1>10. CASE StatusDnload
  <2>1. TypeOK'
    BY <1>1, <1>10 DEF StatusDnload, TypeOK, States, NoCtrl
  <2>2. SessionInv'
    BY <1>1, <1>10 DEF StatusDnload, SessionInv, AddrFollowsBlocks, NoCtrl
  <2> QED
    BY <1>10, <2>1, <2>2, QuietInv DEF StatusDnload, Ready
<1>11. CASE StatusGetStatusSync
  BY <1>11, StatusGetStatusSyncInv
<1>12. CASE StatusGetStatus \/ StatusToIdle \/ StatusRead
  <2>0. /\ UNCHANGED <<mode, block_idx, buffer_size, addr, buffer, flash, prog>>
        /\ prog = NoProg /\ ctrl' = NoCtrl
        /\ bState' \in {bState, "dfuMANIFEST", "dfuIDLE"}
    BY <1>12 DEF StatusGetStatus, StatusToIdle, StatusRead, Ready, ram
  <2>1. TypeOK'
    BY <1>1, <2>0 DEF TypeOK, States, NoCtrl
  <2>2. SessionInv'
    BY <1>1, <2>0 DEF SessionInv, AddrFollowsBlocks, NoCtrl
  <2> QED
    BY ONLY IInv, <2>0, <2>1, <2>2, QuietInv
<1>13. CASE FlashNext
  BY <1>13, EraseStepInv, WriteStepInv DEF FlashNext
<1>14. CASE UNCHANGED vars
  <2>1. TypeOK' /\ SessionInv'
    BY <1>1, <1>14 DEF vars, TypeOK, SessionInv, AddrFollowsBlocks
  <2>2. /\ FreshAbove(addr)' = FreshAbove(addr)
        /\ FreshAbove(addr + TRANSFER_SIZE)' = FreshAbove(addr + TRANSFER_SIZE)
    BY <1>14 DEF vars, FreshAbove
  <2>3. FlashInv'
    BY <1>1, <1>14, <2>2 DEF vars, FlashInv
  <2> QED
    BY <2>1, <2>3 DEF IInv
<1> QED
  BY <1>2, <1>3, <1>4, <1>5, <1>6, <1>7, <1>8, <1>9, <1>10, <1>11, <1>12, <1>13, <1>14
     DEF Next, SetupNext, DataNext, StatusNext

THEOREM Invariance == Spec => []IInv
<1>1. Init => IInv
  BY IInvInit
<1>2. IInv /\ [Next]_vars => IInv'
  BY IInvNext
<1> QED
  BY <1>1, <1>2, PTL DEF Spec

(* ------------------------------ theorems ------------------------------ *)

\* The bootloader's state stays in its types, whatever a host asks for.
THEOREM TypeCorrect == Spec => []TypeOK
<1>1. IInv => TypeOK
  BY DEF IInv
<1> QED
  BY <1>1, Invariance, PTL

\* addr and block_idx advance together.
THEOREM AddrFollowsBlocksAlways == Spec => []AddrFollowsBlocks
<1>1. IInv => AddrFollowsBlocks
  BY DEF IInv, SessionInv
<1> QED
  BY <1>1, Invariance, PTL

\* Only erased words are programmed: the page a session is in was erased when
\* the session entered it.
THEOREM ProgramsOnlyErasedAlways == Spec => []ProgramsOnlyErased
<1>1. ASSUME IInv PROVE ProgramsOnlyErased
  <2>1. SUFFICES ASSUME prog.pc = "write", NEW k \in WriteSpan PROVE flash[k] = Erased
    BY DEF ProgramsOnlyErased
  <2>2. /\ prog.off \in Nat /\ addr \in Nat
        /\ prog.off < TRANSFER_SIZE /\ prog.off % WRITE_OP = 0
    BY <1>1, <2>1 DEF IInv, FlashInv, TypeOK
  <2>3. prog.off + WRITE_OP <= TRANSFER_SIZE
    BY <2>2, RoomForAnother, SizesAssumption
  <2>4. k \in Addrs /\ addr + prog.off <= k /\ k < addr + TRANSFER_SIZE
    BY <2>2, <2>3, SizesAssumption DEF WriteSpan, Addrs
  <2> QED
    BY <1>1, <2>1, <2>4 DEF IInv, FlashInv
<1> QED
  BY <1>1, Invariance, PTL

\* Nothing outside the firmware area is erased or programmed.
THEOREM StaysInAreaAlways == Spec => []StaysInArea
<1>1. ASSUME IInv PROVE StaysInArea
  <2>1. ASSUME prog.pc = "erase" PROVE addr + prog.off + ERASE_OP <= AREA_SIZE
    <3>1. /\ prog.off = 0 /\ addr % ERASE_OP = 0 /\ addr \in Nat
          /\ addr + TRANSFER_SIZE <= AREA_SIZE
      BY <1>1, <2>1 DEF IInv, FlashInv, TypeOK
    <3>2. addr + ERASE_OP <= AREA_SIZE
      <4>1. addr < AREA_SIZE
        BY <3>1, SizesAssumption
      <4> QED
        BY <3>1, <4>1, RoomForAnother, SizesAssumption
    <3> QED
      BY <3>1, <3>2, SizesAssumption
  <2>2. ASSUME prog.pc = "write" PROVE addr + prog.off + WRITE_OP <= AREA_SIZE
    <3>1. /\ prog.off \in Nat /\ addr \in Nat /\ addr + TRANSFER_SIZE <= AREA_SIZE
          /\ prog.off < TRANSFER_SIZE /\ prog.off % WRITE_OP = 0
      BY <1>1, <2>2 DEF IInv, FlashInv, TypeOK
    <3>2. prog.off + WRITE_OP <= TRANSFER_SIZE
      BY <3>1, RoomForAnother, SizesAssumption
    <3> QED
      BY <3>1, <3>2, SizesAssumption
  <2> QED
    BY <2>1, <2>2 DEF StaysInArea
<1> QED
  BY <1>1, Invariance, PTL

\* A host that sends whole transfers never makes vsfhal_flash_write() store a word
\* at an unaligned address: WriteFault is no step of Spec.
THEOREM NoUnalignedWord == Spec => [](addr % WRITE_OP = 0)
<1>1. IInv => addr % WRITE_OP = 0
  BY AddrIsAligned
<1> QED
  BY <1>1, Invariance, PTL

(* ------------------------ blocks of any size -------------------------- *)

\* The block at hand fits; it starts at a page when one is erased.
ShortInv ==
    /\ addr \in Nat /\ buffer_size \in Nat /\ ctrl \in CtrlType
    /\ prog \in [pc : {"none", "erase", "write"}, off : Nat]
    /\ bState = "dfuDNLOAD_SYNC" => buffer_size > 0
    /\ prog.pc # "none"  => bState = "dfuDNLOAD_SYNC" /\ addr + ProgSize <= AREA_SIZE
    /\ prog.pc = "erase" => prog.off = 0 /\ addr % ERASE_OP = 0
    /\ prog.pc = "write" => prog.off % WRITE_OP = 0 /\ prog.off < Larger(WRITE_OP, ProgSize)

LEMMA AreaHoldsWords == AREA_SIZE % WRITE_OP = 0
<1>1. ERASE_OP % WRITE_OP = 0 BY MultipleTrans, SizesAssumption
<1> QED BY <1>1, MultipleTrans, SizesAssumption

LEMMA NewCtrlType ==
    ASSUME NEW req \in Requests, NEW len \in Nat, NEW b \in BOOLEAN
    PROVE  NewCtrl(req, len, b) \in CtrlType
  BY DEF NewCtrl, CtrlType

LEMMA ShortInit == Init => ShortInv
  BY SizesAssumption DEF Init, ShortInv, NoCtrl, NoProg, CtrlType

\* A request that is set up leaves the block at hand alone.
LEMMA ShortSetupInv ==
    ASSUME ShortInv, ctrl' \in CtrlType, prog = NoProg, UNCHANGED <<buffer_size, prog>>,
           addr' \in {0, addr}, bState' # "dfuDNLOAD_SYNC" \/ bState' = bState
    PROVE  ShortInv'
  BY DEF ShortInv, NoProg

LEMMA ShortWriteStep == ASSUME ShortInv, WriteStep PROVE ShortInv'
<1> USE SizesAssumption DEF ShortInv
<1>1. /\ prog.pc = "write" /\ prog.off \in Nat /\ addr \in Nat /\ buffer_size \in Nat
      /\ prog.off % WRITE_OP = 0 /\ UNCHANGED <<mode, ctrl>>
  BY DEF WriteStep
<1>2. CASE prog.off + WRITE_OP < Larger(WRITE_OP, ProgSize)
  <2>1. prog' = [pc |-> "write", off |-> prog.off + WRITE_OP] /\ UNCHANGED ram
    BY <1>1, <1>2 DEF WriteStep
  <2>2. (prog.off + WRITE_OP) % WRITE_OP = 0 BY <1>1, NextMultiple
  <2>3. ProgSize' = ProgSize BY <2>1 DEF ram, ProgSize
  <2> QED BY <1>1, <1>2, <2>1, <2>2, <2>3 DEF ram
<1>3. CASE ~(prog.off + WRITE_OP < Larger(WRITE_OP, ProgSize))
  <2>1. BlockProgrammed BY <1>3 DEF WriteStep
  <2> QED BY <1>1, <2>1 DEF BlockProgrammed, NoProg
<1> QED BY <1>2, <1>3

LEMMA ShortEraseStep == ASSUME ShortInv, EraseStep PROVE ShortInv'
<1> USE SizesAssumption DEF ShortInv
<1>1. /\ prog.pc = "erase" /\ prog.off = 0 /\ UNCHANGED <<mode, ram, ctrl>>
      /\ addr \in Nat /\ buffer_size \in Nat /\ buffer_size > 0
  BY DEF EraseStep
<1>2. ProgSize \in Nat /\ ProgSize <= ERASE_OP /\ ProgSize' = ProgSize
  BY <1>1, TransferInPage DEF ProgSize, Smaller, ram
<1>3. ~(prog.off + ERASE_OP < Larger(ERASE_OP, ProgSize)) BY <1>1, <1>2 DEF Larger
<1>4. prog' = [pc |-> "write", off |-> 0] BY <1>1, <1>3 DEF EraseStep
<1>5. 0 % WRITE_OP = 0 /\ 0 < Larger(WRITE_OP, ProgSize) BY <1>2, ZeroMultiple DEF Larger
<1> QED BY <1>1, <1>2, <1>4, <1>5 DEF ram

LEMMA ShortGetStatusSync == ASSUME ShortInv, StatusGetStatusSync PROVE ShortInv'
<1> USE SizesAssumption DEF ShortInv
<1>1. /\ bState = "dfuDNLOAD_SYNC" /\ prog = NoProg /\ ctrl' = NoCtrl /\ UNCHANGED mode
      /\ addr \in Nat /\ buffer_size \in Nat /\ ctrl' \in CtrlType
  BY DEF StatusGetStatusSync, Ready, NoCtrl, CtrlType
<1>2. CASE InBounds(addr, ProgSize)
  <2>1. /\ prog' = [pc |-> IF addr % ERASE_OP = 0 THEN "erase" ELSE "write", off |-> 0]
        /\ UNCHANGED ram /\ addr + ProgSize <= AREA_SIZE
    BY <1>2 DEF StatusGetStatusSync, InBounds, StartsPage
  <2>2. ProgSize' = ProgSize /\ ProgSize \in Nat BY <1>1, <2>1 DEF ram, ProgSize, Smaller
  <2>3. 0 % WRITE_OP = 0 /\ 0 < Larger(WRITE_OP, ProgSize) BY <2>2, ZeroMultiple DEF Larger
  <2>4. addr' = addr /\ bState' = bState /\ buffer_size' = buffer_size
    BY <2>1 DEF ram
  <2>5. prog' \in [pc : {"none", "erase", "write"}, off : Nat]
    BY <2>1
  <2>6. prog'.pc = "erase" => prog'.off = 0 /\ addr' % ERASE_OP = 0
    BY <2>1, <2>4
  <2>7. prog'.off = 0 BY <2>1
  <2>8. Larger(WRITE_OP, ProgSize)' = Larger(WRITE_OP, ProgSize) BY <2>2 DEF Larger
  <2> QED BY <1>1, <2>1, <2>2, <2>3, <2>4, <2>5, <2>6, <2>7, <2>8
<1>3. CASE ~InBounds(addr, ProgSize)
  <2>1. BlockProgrammed BY <1>3 DEF StatusGetStatusSync
  <2> QED BY <1>1, <2>1 DEF BlockProgrammed, NoProg
<1> QED BY <1>2, <1>3

LEMMA ShortInvNext == ASSUME ShortInv, [ShortNext]_vars PROVE ShortInv'
<1> USE SizesAssumption, BlocksAssumption
<1>1. CASE (\E key \in BOOLEAN : PowerOn(key)) \/ PowerOff
  <2>1. RamCleared BY <1>1 DEF PowerOn, PowerOff
  <2>2. NoCtrl \in CtrlType BY DEF NoCtrl, CtrlType
  <2> QED BY <2>1, <2>2 DEF RamCleared, ShortInv, NoProg
<1>2. CASE OnReset
  <2>1. NoCtrl \in CtrlType BY DEF NoCtrl, CtrlType
  <2> QED BY <1>2, <2>1, ShortSetupInv DEF OnReset, Ready
<1>3. CASE \E w \in 0 .. MaxBlocks, len \in 0 .. TRANSFER_SIZE : SetupDnload(w, len)
  <2> PICK w \in 0 .. MaxBlocks, len \in 0 .. TRANSFER_SIZE : SetupDnload(w, len) BY <1>3
  <2>1. ctrl' \in CtrlType
    <3>1. /\ ctrl' = NewCtrl("DNLOAD", len, w = SessionBlock(w))
          /\ "DNLOAD" \in Requests /\ len \in Nat
      BY DEF SetupDnload, Requests
    <3>2. PICK b \in BOOLEAN : b = (w = SessionBlock(w))
      <4>1. CASE w = SessionBlock(w) BY ONLY <4>1, TRUE \in BOOLEAN, Zenon
      <4>2. CASE w # SessionBlock(w) BY ONLY <4>2, FALSE \in BOOLEAN, Zenon
      <4> QED BY ONLY <4>1, <4>2, Zenon
    <3>3. NewCtrl("DNLOAD", len, b) \in CtrlType BY ONLY <3>1, NewCtrlType
    <3> QED BY ONLY <3>1, <3>2, <3>3, Zenon
  <2> QED BY <2>1, ShortSetupInv DEF SetupDnload, Ready, SessionAddr
<1>4. CASE \E w \in 0 .. MaxBlocks : SetupUpload(w, TRANSFER_SIZE)
  <2>1. ctrl' \in CtrlType BY <1>4 DEF SetupUpload, NewCtrl, CtrlType, Requests
  <2> QED BY <1>4, <2>1, ShortSetupInv DEF SetupUpload, Ready
<1>5. CASE \E req \in Requests : SetupOther(req)
  <2>1. ctrl' \in CtrlType BY <1>5 DEF SetupOther, NewCtrl, CtrlType
  <2> QED BY <1>5, <2>1, ShortSetupInv DEF SetupOther, Ready, ram
<1>6. CASE DataNext
  <2>1. /\ prog = NoProg /\ UNCHANGED <<bState, buffer_size, addr, prog>>
        /\ \/ UNCHANGED ctrl
           \/ ctrl' = [ctrl EXCEPT !.got = Smaller(@ + EP0_SIZE, ctrl.wLength)]
    BY <1>6 DEF DataNext, DataOut, DataOutNull, Ready, ram
  <2>2. Smaller(ctrl.got + EP0_SIZE, ctrl.wLength) \in Nat
    BY DEF ShortInv, CtrlType, Smaller
  <2>3. ctrl' \in CtrlType BY <2>1, <2>2, GotType DEF ShortInv
  <2> QED BY <2>1, <2>3, ShortSetupInv
<1>7. CASE StatusDnload
  <2>1. ctrl' \in CtrlType BY <1>7 DEF StatusDnload, NoCtrl, CtrlType
  <2>2. /\ buffer_size' \in Nat /\ (bState' = "dfuDNLOAD_SYNC" => buffer_size' > 0)
        /\ prog = NoProg /\ UNCHANGED <<addr, prog>>
    BY <1>7 DEF StatusDnload, ShortInv, CtrlType, Ready
  <2> QED BY <2>1, <2>2 DEF ShortInv, NoProg
<1>8. CASE StatusGetStatus \/ StatusToIdle \/ StatusRead
  <2>1. NoCtrl \in CtrlType BY DEF NoCtrl, CtrlType
  <2>2. ctrl' = NoCtrl BY <1>8 DEF StatusGetStatus, StatusToIdle, StatusRead
  <2> QED BY <1>8, <2>1, <2>2, ShortSetupInv DEF StatusGetStatus, StatusToIdle, StatusRead, Ready, ram
<1>9. CASE StatusGetStatusSync BY <1>9, ShortGetStatusSync
<1>10. CASE EraseStep BY <1>10, ShortEraseStep
<1>11. CASE WriteStep BY <1>11, ShortWriteStep
<1>12. CASE WriteFault
  BY <1>12 DEF WriteFault, ShortInv, ram, ProgSize
<1>13. CASE UNCHANGED vars
  BY <1>13 DEF vars, ShortInv, ProgSize
<1>14. CASE SetupNext \/ ShortSetup
  <2>1. 0 \in 0 .. TRANSFER_SIZE /\ TRANSFER_SIZE \in 0 .. TRANSFER_SIZE
        /\ 1 .. TRANSFER_SIZE - 1 \subseteq 0 .. TRANSFER_SIZE
    OBVIOUS
  <2> QED BY <1>3, <1>4, <1>5, <1>14, <2>1 DEF SetupNext, ShortSetup
<1> QED
  BY <1>1, <1>2, <1>6, <1>7, <1>8, <1>9, <1>10, <1>11, <1>12, <1>13, <1>14
     DEF ShortNext, Next, StatusNext, FlashNext

\* Nothing outside the firmware area is erased or programmed either when the host
\* sends blocks of any size up to a transfer, although usrapp_flash_erase_write()
\* rounds what it erases and programs up after its bounds check.
THEOREM StaysInAreaShort == ShortSpec => []StaysInArea
<1>1. Init => ShortInv BY ShortInit
<1>2. ShortInv /\ [ShortNext]_vars => ShortInv' BY ShortInvNext
<1>3. ASSUME ShortInv PROVE StaysInArea
  <2> USE SizesAssumption
  <2>1. ASSUME prog.pc = "erase" PROVE addr + prog.off + ERASE_OP <= AREA_SIZE
    <3>1. addr \in Nat /\ addr < AREA_SIZE /\ addr % ERASE_OP = 0 /\ prog.off = 0
      BY <1>3, <2>1 DEF ShortInv, ProgSize, Smaller
    <3>2. addr + ERASE_OP <= AREA_SIZE BY <3>1, RoomForAnother
    <3> QED BY <3>1, <3>2
  <2>2. ASSUME prog.pc = "write", addr % WRITE_OP = 0
        PROVE  addr + prog.off + WRITE_OP <= AREA_SIZE
    <3>1. /\ addr \in Nat /\ prog.off \in Nat /\ prog.off % WRITE_OP = 0
          /\ prog.off < Larger(WRITE_OP, ProgSize) /\ addr + ProgSize <= AREA_SIZE
          /\ ProgSize \in Nat /\ ProgSize > 0
      BY <1>3, <2>2 DEF ShortInv, ProgSize, Smaller
    <3>2. (addr + prog.off) % WRITE_OP = 0
      <4>1. PICK q \in Nat : addr = q * WRITE_OP BY <2>2, <3>1, MultipleOf
      <4>2. PICK r \in Nat : prog.off = r * WRITE_OP BY <3>1, MultipleOf
      <4>3. addr + prog.off = (q + r) * WRITE_OP BY <4>1, <4>2, SMT
      <4> QED BY <4>3, MultipleMod, q + r \in Nat
    <3>3. addr + prog.off < AREA_SIZE
      <4>1. CASE prog.off < ProgSize BY <3>1, <4>1
      <4>2. CASE ~(prog.off < ProgSize)
        <5>1. prog.off < WRITE_OP BY <3>1, <4>2 DEF Larger
        <5>2. prog.off = 0
          <6>1. PICK r \in Nat : prog.off = r * WRITE_OP BY <3>1, MultipleOf
          <6>2. 0 * WRITE_OP = 0 /\ 1 * WRITE_OP = WRITE_OP OBVIOUS
          <6>3. r * WRITE_OP < 1 * WRITE_OP BY <5>1, <6>1, <6>2
          <6>4. r < 1
            <7>1. ASSUME 1 <= r PROVE FALSE
              <8>1. PICK d \in Nat : r = 1 + d BY <7>1
              <8>2. r * WRITE_OP = WRITE_OP + d * WRITE_OP BY <8>1, SMT
              <8>3. d * WRITE_OP \in Nat BY SMT
              <8> QED BY <6>2, <6>3, <8>2, <8>3
            <7> QED BY <7>1
          <6> QED BY <6>1, <6>2, <6>4
        <5> QED BY <3>1, <5>2
      <4> QED BY <4>1, <4>2
    <3>4. addr + prog.off \in Nat BY <3>1
    <3> QED BY <3>2, <3>3, <3>4, RoomForAnother, AreaHoldsWords
  <2> QED BY <2>1, <2>2 DEF StaysInArea
<1> QED BY <1>1, <1>2, <1>3, PTL DEF ShortSpec

(* ----------------------- the host that downloads ------------------------ *)

(* ------------------------- the image's blocks ------------------------- *)

LEMMA ImageLenIsPositive ==
    ASSUME imageLen \in ImageLens
    PROVE  imageLen \in Nat \ {0}
  BY ImageAssumption

\* The blocks cover the image, and the last one is not beyond it.
LEMMA BlocksCoverImage ==
    ASSUME NEW len \in Nat \ {0}, NEW T \in Nat \ {0}, NEW q, q = (len + T - 1) \div T
    PROVE  q \in Nat \ {0} /\ len <= q * T /\ (q - 1) * T < len
  BY SMT

LEMMA NBlocksFacts ==
    ASSUME imageLen \in ImageLens
    PROVE  /\ NBlocks \in Nat \ {0}
           /\ imageLen <= NBlocks * TRANSFER_SIZE
           /\ (NBlocks - 1) * TRANSFER_SIZE < imageLen
  BY BlocksCoverImage, ImageLenIsPositive, SizesAssumption DEF NBlocks

LEMMA ProductOrder ==
    ASSUME NEW a \in Nat, NEW b \in Nat, NEW T \in Nat, a <= b
    PROVE  a * T <= b * T
  BY SMT

\* A block starts inside the image and is not empty, all but the last are full,
\* and the last ends where the image ends.
LEMMA BlockLenFacts ==
    ASSUME imageLen \in ImageLens, NEW b \in Nat, b < NBlocks
    PROVE  /\ b * TRANSFER_SIZE \in Nat /\ b * TRANSFER_SIZE < imageLen
           /\ BlockLen(b) \in Nat /\ 0 < BlockLen(b) /\ BlockLen(b) <= TRANSFER_SIZE
           /\ b * TRANSFER_SIZE + BlockLen(b) <= imageLen
           /\ b + 1 < NBlocks => BlockLen(b) = TRANSFER_SIZE
           /\ b + 1 = NBlocks => b * TRANSFER_SIZE + BlockLen(b) = imageLen
           /\ (b + 1) * TRANSFER_SIZE = b * TRANSFER_SIZE + TRANSFER_SIZE
<1> DEFINE s == b * TRANSFER_SIZE
<1>1. TRANSFER_SIZE \in Nat \ {0} /\ imageLen \in Nat \ {0}
  BY ImageLenIsPositive, SizesAssumption
<1>2. NBlocks \in Nat \ {0} /\ imageLen <= NBlocks * TRANSFER_SIZE
      /\ (NBlocks - 1) * TRANSFER_SIZE < imageLen
  BY NBlocksFacts
<1>3. s \in Nat /\ (b + 1) * TRANSFER_SIZE = s + TRANSFER_SIZE
  BY <1>1, SMT
<1>4. s <= (NBlocks - 1) * TRANSFER_SIZE
  BY <1>1, <1>2, ProductOrder, NBlocks - 1 \in Nat, b <= NBlocks - 1
<1>5. ASSUME b + 1 < NBlocks PROVE s + TRANSFER_SIZE < imageLen
  <2>1. b + 1 <= NBlocks - 1 /\ b + 1 \in Nat /\ NBlocks - 1 \in Nat
    BY <1>2, <1>5
  <2>2. (b + 1) * TRANSFER_SIZE <= (NBlocks - 1) * TRANSFER_SIZE
    BY <1>1, <2>1, ProductOrder
  <2>3. (NBlocks - 1) * TRANSFER_SIZE \in Int
    BY <1>1, <1>2
  <2> QED
    BY <1>1, <1>2, <1>3, <2>2, <2>3
<1>6. ASSUME b + 1 = NBlocks PROVE imageLen <= s + TRANSFER_SIZE
  BY <1>2, <1>3, <1>6
<1>7. BlockLen(b) = IF TRANSFER_SIZE <= imageLen - s THEN TRANSFER_SIZE ELSE imageLen - s
  BY DEF BlockLen, Smaller
<1>8. s < imageLen
  <2>1. (NBlocks - 1) * TRANSFER_SIZE \in Int
    BY <1>1, <1>2
  <2> QED
    BY <1>1, <1>2, <1>3, <1>4, <2>1
<1> HIDE DEF s
<1>9. /\ BlockLen(b) \in Nat /\ 0 < BlockLen(b) /\ BlockLen(b) <= TRANSFER_SIZE
      /\ s + BlockLen(b) <= imageLen
  BY <1>1, <1>3, <1>7, <1>8
<1>10. /\ b + 1 < NBlocks => BlockLen(b) = TRANSFER_SIZE
       /\ b + 1 = NBlocks => s + BlockLen(b) = imageLen
  BY <1>1, <1>3, <1>5, <1>6, <1>7, <1>8
<1> QED
  BY <1>3, <1>8, <1>9, <1>10 DEF s

(* ----------------------- the inductive invariant ---------------------- *)

HostTypeOK ==
    /\ hpc \in {"idle", "dnload", "poll", "final", "manifest", "done"}
    /\ n \in Nat /\ wait \in BOOLEAN /\ view \in States

\* addr is where the next block goes. Behind the last block, which may be short
\* and be programmed more than once, it is only known to be past the image.
AddrInv ==
    /\ block_idx < NBlocks => addr = block_idx * TRANSFER_SIZE
    /\ block_idx >= NBlocks => addr >= imageLen

\* The part of the image the firmware area has room for.
Fits(k) == k < imageLen /\ k < AREA_SIZE

\* What of it is below the address is in the flash.
ProgrammedBelow == \A k \in Addrs : (Fits(k) /\ k < addr) => flash[k] = k

\* A block that waits to be programmed is the one the device is at.
HoldsBlock(buf, size, b) ==
    /\ size = BlockLen(b)
    /\ \A i \in 0 .. TRANSFER_SIZE - 1 : i < size => buf[i] = b * TRANSFER_SIZE + i

BufferInv ==
    bState = "dfuDNLOAD_SYNC" =>
        /\ buffer_size > 0
        /\ block_idx < NBlocks => HoldsBlock(buffer, buffer_size, block_idx)

\* Where the flash routine is. Inside the image, what is still to be programmed
\* in the page addr is in is erased.
WriteInv ==
    /\ prog.off % WRITE_OP = 0 /\ prog.off < ProgSize
    /\ addr < imageLen =>
         /\ \A k \in Addrs : (Fits(k) /\ k < addr + prog.off) => flash[k] = k
         /\ \A k \in Addrs : (addr + prog.off <= k /\ k < addr + TRANSFER_SIZE)
                                 => flash[k] = Erased
         /\ FreshAbove(addr + TRANSFER_SIZE)

ProgInv ==
    /\ prog.pc = "none"  => prog = NoProg /\ (addr < imageLen => FreshAbove(addr))
    /\ prog.pc # "none"  => bState = "dfuDNLOAD_SYNC" /\ addr + ProgSize <= AREA_SIZE
    /\ prog.pc = "erase" => prog.off = 0 /\ addr % ERASE_OP = 0
    /\ prog.pc = "write" => WriteInv

\* The device's part of the invariant: it relates the device to the image only,
\* whatever the host is doing.
DeviceInv ==
    /\ TypeOK /\ imageLen \in ImageLens
    /\ AddrInv /\ BufferInv /\ ProgInv /\ ProgrammedBelow

\* The block the host is at.
PlaceInv ==
    /\ hpc = "idle" => n = 0
    /\ hpc \in {"dnload", "poll"} => n < NBlocks
    /\ hpc \in {"final", "manifest", "done"} => n = NBlocks
    /\ mode = "off" => hpc \in {"idle", "done"} /\ ~wait

\* The device is at block b, or, at the end of the image, perhaps past it: the
\* last block may be short and then be counted again when it is sent again.
DeviceAt(b) == block_idx >= b /\ (n + 1 < NBlocks => block_idx = b)

ReachedInv ==
    /\ (hpc = "dnload" /\ n > 0) =>
          DeviceAt(n) \/ (bState # "dfuDNLOAD_SYNC" /\ DeviceAt(n + 1))
    /\ hpc = "poll" => \/ bState = "dfuDNLOAD_SYNC" /\ DeviceAt(n)
                       \/ bState = "dfuDNLOAD_IDLE" /\ DeviceAt(n + 1)
    /\ hpc \in {"final", "manifest"} => block_idx >= NBlocks
    /\ hpc \in {"final", "manifest", "done"} => bState # "dfuDNLOAD_SYNC"

\* The transfer in progress is the one the host is waiting for, and the buffer
\* has what came of its block.
TransferInv ==
    wait =>
        /\ hpc # "done" /\ prog = NoProg
        /\ hpc = "idle" => ctrl.req = "ABORT"
        /\ hpc = "dnload" => ctrl.req = "DNLOAD" /\ ctrl.wLength = BlockLen(n)
        /\ hpc = "final" => ctrl.req = "DNLOAD" /\ ctrl.wLength = 0
        /\ hpc \in {"poll", "manifest"} => ctrl.req = "GETSTATUS" /\ view = bState
        /\ hpc \in {"dnload", "final"} => (ctrl.matched <=> block_idx = n)
        /\ (hpc = "dnload" /\ ctrl.matched) =>
              \A i \in 0 .. TRANSFER_SIZE - 1 :
                  (i < ctrl.got /\ i < ctrl.wLength) => buffer[i] = n * TRANSFER_SIZE + i

HostInv == DeviceInv /\ HostTypeOK /\ PlaceInv /\ ReachedInv /\ TransferInv

(* ----------------------- steps of the device -------------------------- *)

\* The flash routine programs something, at most a transfer.
LEMMA ProgSizeFacts ==
    ASSUME DeviceInv, bState = "dfuDNLOAD_SYNC"
    PROVE  /\ ProgSize \in Nat /\ 0 < ProgSize /\ ProgSize <= TRANSFER_SIZE
           /\ block_idx < NBlocks =>
                 /\ ProgSize = BlockLen(block_idx) /\ ProgSize = buffer_size
                 /\ addr = block_idx * TRANSFER_SIZE
<1>1. buffer_size \in Nat /\ buffer_size > 0 /\ TRANSFER_SIZE \in Nat \ {0}
  BY SizesAssumption DEF DeviceInv, TypeOK, BufferInv
<1>2. ProgSize \in Nat /\ 0 < ProgSize /\ ProgSize <= TRANSFER_SIZE
      /\ (buffer_size <= TRANSFER_SIZE => ProgSize = buffer_size)
  BY <1>1 DEF ProgSize, Smaller
<1>3. ASSUME block_idx < NBlocks
      PROVE  /\ buffer_size = BlockLen(block_idx) /\ buffer_size <= TRANSFER_SIZE
             /\ addr = block_idx * TRANSFER_SIZE
  BY <1>3, BlockLenFacts DEF DeviceInv, TypeOK, BufferInv, HoldsBlock, AddrInv
<1> QED
  BY <1>2, <1>3

\* Below the end of the image, the device is at a block of the image.
LEMMA InsideImage ==
    ASSUME DeviceInv, addr < imageLen
    PROVE  block_idx < NBlocks /\ addr = block_idx * TRANSFER_SIZE /\ addr % WRITE_OP = 0
<1>1. block_idx \in Nat /\ addr \in Nat /\ NBlocks \in Nat /\ imageLen \in Nat
  BY NBlocksFacts, ImageLenIsPositive DEF DeviceInv, TypeOK
<1>2. block_idx < NBlocks
  BY <1>1 DEF DeviceInv, AddrInv
<1>3. addr = block_idx * TRANSFER_SIZE
  BY <1>2 DEF DeviceInv, AddrInv
<1>4. addr % TRANSFER_SIZE = 0
  BY <1>1, <1>3, MultipleMod, SizesAssumption
<1> QED
  BY <1>1, <1>2, <1>3, <1>4, MultipleTrans, SizesAssumption

LEMMA EraseStepDevice ==
    ASSUME DeviceInv, EraseStep, UNCHANGED imageLen
    PROVE  DeviceInv'
<1> USE SizesAssumption
<1>0. /\ TypeOK /\ addr \in Nat /\ prog.off = 0 /\ addr % ERASE_OP = 0
      /\ bState = "dfuDNLOAD_SYNC" /\ addr + ProgSize <= AREA_SIZE
      /\ imageLen \in Nat
  BY ImageLenIsPositive DEF DeviceInv, ProgInv, EraseStep, TypeOK
<1>1. ProgSize \in Nat /\ 0 < ProgSize /\ ProgSize <= TRANSFER_SIZE
  BY <1>0, ProgSizeFacts
<1>2. prog' = [pc |-> "write", off |-> 0]
  BY <1>0, <1>1, TransferInPage DEF EraseStep, Larger
<1>3. \A k \in Addrs : flash'[k] = IF addr <= k /\ k < addr + ERASE_OP THEN Erased ELSE flash[k]
  BY <1>0 DEF EraseStep, EraseSpan, Addrs
<1>4. UNCHANGED <<mode, bState, block_idx, buffer_size, addr, buffer, ctrl, imageLen>>
  BY DEF EraseStep, ram
<1>5. TypeOK'
  BY <1>0, <1>2, <1>4 DEF EraseStep, Cells, TypeOK
<1>6. AddrInv' /\ BufferInv' /\ ProgSize' = ProgSize
  BY <1>4 DEF DeviceInv, AddrInv, BufferInv, NBlocks, BlockLen, HoldsBlock, ProgSize
<1>7. ProgrammedBelow'
  BY <1>0, <1>3, <1>4 DEF DeviceInv, ProgrammedBelow, Fits, Addrs
<1>8. FreshAbove(addr + TRANSFER_SIZE)'
  <2>0. SUFFICES ASSUME NEW k \in Addrs, addr + TRANSFER_SIZE <= k,
                        \A j \in addr + TRANSFER_SIZE .. k : j % ERASE_OP # 0
                 PROVE  flash'[k] = Erased
    BY <1>4 DEF FreshAbove
  <2>1. (addr + ERASE_OP) % ERASE_OP = 0
    BY <1>0, NextMultiple
  <2>2. addr + ERASE_OP <= k => addr + ERASE_OP \in addr + TRANSFER_SIZE .. k
    BY <1>0, TransferInPage DEF Addrs
  <2>3. ~(addr + ERASE_OP <= k)
    BY ONLY <2>0, <2>1, <2>2
  <2>4. addr \in Int /\ k \in Int /\ ERASE_OP \in Int /\ TRANSFER_SIZE \in Nat
    BY <1>0 DEF Addrs
  <2>5. addr <= k /\ k < addr + ERASE_OP
    BY ONLY <2>0, <2>3, <2>4
  <2> QED
    BY ONLY <1>3, <2>0, <2>5
<1>9. \A k \in Addrs : (addr <= k /\ k < addr + TRANSFER_SIZE) => flash'[k] = Erased
  BY <1>0, <1>3, TransferInPage DEF Addrs
<1>10. addr < imageLen => \A k \in Addrs : (Fits(k) /\ k < addr) => flash'[k] = k
  BY <1>4, <1>7 DEF ProgrammedBelow, Fits
<1>11. 0 % WRITE_OP = 0 /\ addr + 0 = addr
  BY <1>0, ZeroMultiple
<1>12. prog'.off = 0 /\ prog'.pc = "write"
  BY <1>2
<1>13. WriteInv'
  BY <1>1, <1>4, <1>6, <1>8, <1>9, <1>10, <1>11, <1>12 DEF WriteInv, Fits
<1>14. ProgInv'
  BY <1>0, <1>4, <1>6, <1>12, <1>13 DEF ProgInv
<1> QED
  BY <1>4, <1>5, <1>6, <1>7, <1>14 DEF DeviceInv

\* The address after a block was counted: it follows the block number up to the
\* end of the image, and the bytes it passed are those of the block.
LEMMA CountedBlock ==
    ASSUME DeviceInv, bState = "dfuDNLOAD_SYNC"
    PROVE  /\ block_idx + 1 < NBlocks =>
                 /\ addr + buffer_size = (block_idx + 1) * TRANSFER_SIZE
                 /\ buffer_size = TRANSFER_SIZE /\ addr < imageLen
           /\ block_idx + 1 >= NBlocks => addr + buffer_size >= imageLen
           /\ addr < imageLen => buffer_size = ProgSize
<1>1. /\ block_idx \in Nat /\ addr \in Nat /\ buffer_size \in Nat /\ imageLen \in Nat
      /\ NBlocks \in Nat /\ imageLen \in ImageLens
  BY NBlocksFacts, ImageLenIsPositive DEF DeviceInv, TypeOK
<1>2. ASSUME block_idx < NBlocks
      PROVE  /\ addr = block_idx * TRANSFER_SIZE /\ ProgSize = BlockLen(block_idx)
             /\ ProgSize = buffer_size
  BY <1>2, ProgSizeFacts
<1>3. ASSUME block_idx + 1 < NBlocks
      PROVE  /\ addr + buffer_size = (block_idx + 1) * TRANSFER_SIZE
             /\ buffer_size = TRANSFER_SIZE /\ addr < imageLen
  <2>1. block_idx < NBlocks
    BY <1>1, <1>3
  <2> QED
    BY <1>1, <1>2, <1>3, <2>1, BlockLenFacts
<1>4. ASSUME block_idx + 1 >= NBlocks PROVE addr + buffer_size >= imageLen
  <2>1. CASE block_idx + 1 = NBlocks
    <3>1. block_idx < NBlocks
      BY <1>1, <2>1
    <3> QED
      BY <1>1, <1>2, <2>1, <3>1, BlockLenFacts
  <2>2. CASE block_idx >= NBlocks
    BY <1>1, <2>2 DEF DeviceInv, AddrInv
  <2> QED
    BY <1>1, <1>4, <2>1, <2>2
<1>5. addr < imageLen => buffer_size = ProgSize
  BY <1>2, InsideImage
<1> QED
  BY <1>3, <1>4, <1>5

\* The block is counted once its bytes are in the flash, and what follows them
\* in their page is erased.
LEMMA BlockProgrammedDevice ==
    ASSUME DeviceInv, bState = "dfuDNLOAD_SYNC", BlockProgrammed, UNCHANGED imageLen,
           TypeOK',
           \A k \in Addrs : (Fits(k) /\ k < addr + buffer_size) => flash'[k] = k,
           (addr < imageLen /\ buffer_size = TRANSFER_SIZE)
               => \A k \in Addrs : ( /\ addr + TRANSFER_SIZE <= k
                                    /\ \A j \in addr + TRANSFER_SIZE .. k : j % ERASE_OP # 0 )
                                  => flash'[k] = Erased
    PROVE  DeviceInv'
<1>1. /\ addr' = addr + buffer_size /\ block_idx' = block_idx + 1
      /\ bState' = "dfuDNLOAD_IDLE" /\ prog' = NoProg /\ prog'.pc = "none"
      /\ imageLen' = imageLen
  BY DEF BlockProgrammed, NoProg
<1>2. NBlocks' = NBlocks /\ NBlocks \in Nat /\ block_idx \in Nat
      /\ addr \in Nat /\ buffer_size \in Nat /\ imageLen \in Nat /\ TRANSFER_SIZE \in Nat
  BY <1>1, NBlocksFacts, ImageLenIsPositive, SizesAssumption DEF NBlocks, DeviceInv, TypeOK
<1>3. AddrInv'
  BY <1>1, <1>2, CountedBlock DEF AddrInv
<1>4. BufferInv'
  BY <1>1 DEF BufferInv
<1>5. ProgrammedBelow'
  BY <1>1 DEF ProgrammedBelow, Fits
<1>6. ASSUME addr' < imageLen' PROVE FreshAbove(addr)'
  <2>1. block_idx + 1 < NBlocks
    BY <1>1, <1>2, <1>6, CountedBlock
  <2>2. addr < imageLen /\ buffer_size = TRANSFER_SIZE
    BY <2>1, CountedBlock
  <2> QED
    BY <1>1, <2>2 DEF FreshAbove
<1>7. ProgInv'
  BY <1>1, <1>6 DEF ProgInv
<1> QED
  BY <1>1, <1>3, <1>4, <1>5, <1>7 DEF DeviceInv

LEMMA WriteStepDevice ==
    ASSUME DeviceInv, WriteStep, UNCHANGED imageLen
    PROVE  DeviceInv'
<1> USE SizesAssumption
<1>0. /\ TypeOK /\ addr \in Nat /\ prog.off \in Nat /\ imageLen \in Nat
      /\ prog.pc = "write" /\ bState = "dfuDNLOAD_SYNC" /\ WriteInv
      /\ addr + ProgSize <= AREA_SIZE /\ buffer_size \in Nat
  BY ImageLenIsPositive DEF DeviceInv, ProgInv, WriteStep, TypeOK
<1>1. ProgSize \in Nat /\ 0 < ProgSize /\ ProgSize <= TRANSFER_SIZE
  BY <1>0, ProgSizeFacts
<1>2. prog.off + WRITE_OP <= TRANSFER_SIZE
  <2>1. prog.off < TRANSFER_SIZE /\ prog.off % WRITE_OP = 0
    BY <1>0, <1>1 DEF WriteInv
  <2> QED
    BY <1>0, <2>1, RoomForAnother
<1>3. flash' = [k \in Addrs |-> IF k \in WriteSpan THEN Programmed(k) ELSE flash[k]]
  BY DEF WriteStep
<1>4. \A k \in Addrs : k \in WriteSpan <=> (addr + prog.off <= k /\ k < addr + prog.off + WRITE_OP)
  BY DEF WriteSpan
<1>5. \A k \in WriteSpan : k \in Addrs /\ k - addr \in 0 .. TRANSFER_SIZE - 1
  BY <1>0, <1>1, <1>2 DEF WriteSpan, Addrs
<1>6. flash' \in [Addrs -> Cells]
  <2>1. \A k \in WriteSpan : Programmed(k) \in Cells
    BY <1>0, <1>5 DEF Programmed, Cells, TypeOK
  <2> QED
    BY <1>0, <1>3, <2>1 DEF TypeOK
\* The bytes of the image the word covers are programmed with the block's.
<1>7. \A k \in Addrs : (Fits(k) /\ k < addr + prog.off + WRITE_OP
                          /\ (addr < imageLen => k < addr + buffer_size)) => flash'[k] = k
  <2> SUFFICES ASSUME NEW k \in Addrs, Fits(k), k < addr + prog.off + WRITE_OP,
                      addr < imageLen => k < addr + buffer_size
               PROVE  flash'[k] = k
    OBVIOUS
  <2>0. k \in Nat /\ k < imageLen /\ TRANSFER_SIZE \in Nat /\ WRITE_OP \in Nat
    BY DEF Addrs, Fits
  <2>1. CASE k \notin WriteSpan
    <3>1. k < addr + prog.off
      BY <1>0, <1>4, <2>0, <2>1
    <3>2. flash'[k] = flash[k]
      BY <1>3, <2>1
    <3>3. CASE addr < imageLen
      BY <1>0, <3>1, <3>2, <3>3 DEF WriteInv
    <3>4. CASE ~(addr < imageLen)
      <4>1. k < addr
        BY <1>0, <2>0, <3>4
      <4> QED
        BY <3>2, <4>1 DEF DeviceInv, ProgrammedBelow
    <3> QED
      BY <3>3, <3>4
  <2>2. CASE k \in WriteSpan
    <3>1. addr + prog.off <= k /\ addr < imageLen
      BY <1>0, <1>4, <2>0, <2>2
    <3>2. k < addr + TRANSFER_SIZE
      BY <1>0, <1>2, <2>0
    <3>3. flash[k] = Erased
      BY <1>0, <3>1, <3>2 DEF WriteInv
    <3>4. flash'[k] = buffer[k - addr]
      BY <1>3, <2>2, <3>3 DEF Programmed
    <3>5. block_idx < NBlocks /\ addr = block_idx * TRANSFER_SIZE
      BY <3>1, InsideImage
    <3>6. \A i \in 0 .. TRANSFER_SIZE - 1 : i < buffer_size => buffer[i] = addr + i
      BY <1>0, <3>5 DEF DeviceInv, BufferInv, HoldsBlock
    <3>7. k - addr \in 0 .. TRANSFER_SIZE - 1 /\ k - addr < buffer_size
      BY <1>0, <1>5, <2>0, <2>2, <3>1
    <3>8. buffer[k - addr] = addr + (k - addr)
      BY <3>6, <3>7
    <3> QED
      BY <1>0, <2>0, <3>4, <3>8
  <2> QED
    BY <2>1, <2>2
<1>8. addr < imageLen =>
         /\ \A k \in Addrs : (addr + (prog.off + WRITE_OP) <= k /\ k < addr + TRANSFER_SIZE)
                                 => flash'[k] = Erased
         /\ \A k \in Addrs : ( /\ addr + TRANSFER_SIZE <= k
                               /\ \A j \in addr + TRANSFER_SIZE .. k : j % ERASE_OP # 0 )
                             => flash'[k] = Erased
  <2> SUFFICES ASSUME addr < imageLen
               PROVE  /\ \A k \in Addrs : (addr + (prog.off + WRITE_OP) <= k /\ k < addr + TRANSFER_SIZE)
                                             => flash'[k] = Erased
                      /\ \A k \in Addrs : ( /\ addr + TRANSFER_SIZE <= k
                                            /\ \A j \in addr + TRANSFER_SIZE .. k : j % ERASE_OP # 0 )
                                          => flash'[k] = Erased
    OBVIOUS
  <2>1. /\ \A k \in Addrs : (addr + prog.off <= k /\ k < addr + TRANSFER_SIZE) => flash[k] = Erased
        /\ FreshAbove(addr + TRANSFER_SIZE)
    BY <1>0 DEF WriteInv
  <2>2. \A k \in Addrs : addr + (prog.off + WRITE_OP) <= k
                             => flash'[k] = flash[k] /\ addr + prog.off <= k
    BY <1>0, <1>3, <1>4 DEF Addrs
  <2>3. \A k \in Addrs : addr + TRANSFER_SIZE <= k => addr + (prog.off + WRITE_OP) <= k
    BY <1>0, <1>2 DEF Addrs
  <2> QED
    BY <2>1, <2>2, <2>3 DEF FreshAbove
<1>9. CASE prog.off + WRITE_OP < Larger(WRITE_OP, ProgSize)
  <2>1. /\ prog' = [pc |-> "write", off |-> prog.off + WRITE_OP]
        /\ prog.off + WRITE_OP < ProgSize
    BY <1>0, <1>1, <1>9 DEF WriteStep, Larger, TypeOK
  <2>2. UNCHANGED <<mode, bState, block_idx, buffer_size, addr, buffer, ctrl, imageLen>>
    BY <1>9 DEF WriteStep, ram
  <2>3. (prog.off + WRITE_OP) % WRITE_OP = 0
    BY <1>0, NextMultiple DEF WriteInv
  <2>4. TypeOK'
    BY <1>0, <1>6, <2>1, <2>2 DEF TypeOK
  <2>5. AddrInv' /\ BufferInv' /\ ProgSize' = ProgSize
    BY <2>2 DEF DeviceInv, AddrInv, BufferInv, NBlocks, BlockLen, HoldsBlock, ProgSize
  <2>6. prog'.off = prog.off + WRITE_OP /\ prog'.pc = "write"
    BY <2>1
  <2>7. ASSUME addr < imageLen
        PROVE  \A k \in Addrs : (Fits(k) /\ k < addr + (prog.off + WRITE_OP)) => flash'[k] = k
    <3>1. buffer_size = ProgSize
      BY <1>0, <2>7, CountedBlock
    <3>2. \A k \in Addrs : k < addr + (prog.off + WRITE_OP)
              => k < addr + prog.off + WRITE_OP /\ k < addr + buffer_size
      BY <1>0, <1>1, <2>1, <3>1 DEF Addrs
    <3> QED
      BY <1>7, <3>2
  <2>8. WriteInv'
    BY <1>8, <2>1, <2>2, <2>3, <2>5, <2>6, <2>7 DEF WriteInv, Fits, FreshAbove
  <2>9. ProgInv'
    BY <1>0, <2>2, <2>5, <2>6, <2>8 DEF ProgInv
  <2>10. ProgrammedBelow'
    <3>1. \A k \in Addrs : k < addr => k \notin WriteSpan
      BY <1>0, <1>4 DEF Addrs
    <3> QED
      BY <1>3, <2>2, <3>1 DEF DeviceInv, ProgrammedBelow, Fits
  <2> QED
    BY <2>2, <2>4, <2>5, <2>9, <2>10 DEF DeviceInv
<1>10. CASE ~(prog.off + WRITE_OP < Larger(WRITE_OP, ProgSize))
  <2>1. BlockProgrammed /\ UNCHANGED <<mode, ctrl>>
    BY <1>10 DEF WriteStep
  <2>2. TypeOK'
    BY <1>0, <1>6, <2>1 DEF BlockProgrammed, NoProg, States, TypeOK
  <2>3. \A k \in Addrs : (Fits(k) /\ k < addr + buffer_size) => flash'[k] = k
    <3> SUFFICES ASSUME NEW k \in Addrs, Fits(k), k < addr + buffer_size
                 PROVE  flash'[k] = k
      OBVIOUS
    <3>0. k \in Nat /\ k < imageLen
      BY DEF Fits, Addrs
    <3>1. CASE addr < imageLen
      <4>1. buffer_size = ProgSize /\ ProgSize <= prog.off + WRITE_OP
        BY <1>0, <1>1, <1>10, <3>1, CountedBlock DEF Larger
      <4>2. k < addr + prog.off + WRITE_OP
        BY <1>0, <3>0, <4>1
      <4> QED
        BY <1>7, <4>2
    <3>2. CASE ~(addr < imageLen)
      <4>1. k < addr + prog.off + WRITE_OP
        BY <1>0, <3>0, <3>2
      <4> QED
        BY <1>7, <3>2, <4>1
    <3> QED
      BY <3>1, <3>2
  <2> QED
    BY <1>0, <1>8, <2>1, <2>2, <2>3, BlockProgrammedDevice
<1> QED
  BY <1>9, <1>10

\* In a page the flash routine is inside of, what the transfer at a and the rest
\* of the page take is still erased.
LEMMA FreshInsidePage ==
    ASSUME NEW i \in Nat, NEW a \in Nat, a = i * TRANSFER_SIZE, a % ERASE_OP # 0,
           FreshAbove(a)
    PROVE  /\ \A k \in Addrs : (a <= k /\ k < a + TRANSFER_SIZE) => flash[k] = Erased
           /\ FreshAbove(a + TRANSFER_SIZE)
<1> USE SizesAssumption
<1>1. \A j \in a .. a + TRANSFER_SIZE - 1 : j % ERASE_OP # 0
  BY InsidePage
<1>2. ASSUME NEW k \in Addrs, a <= k, k < a + TRANSFER_SIZE
      PROVE  flash[k] = Erased
  <2>1. a \in Int /\ k \in Int /\ TRANSFER_SIZE \in Int
    BY DEF Addrs
  <2>2. \A j \in a .. k : j \in a .. a + TRANSFER_SIZE - 1
    BY ONLY <1>2, <2>1
  <2>3. \A j \in a .. k : j % ERASE_OP # 0
    BY ONLY <1>1, <2>2
  <2> QED
    BY <1>2, <2>3, FreshUse
<1>3. ASSUME NEW k \in Addrs, a + TRANSFER_SIZE <= k,
             \A j \in a + TRANSFER_SIZE .. k : j % ERASE_OP # 0
      PROVE  flash[k] = Erased
  <2>1. \A j \in a .. k : j \in a .. a + TRANSFER_SIZE - 1 \/ j \in a + TRANSFER_SIZE .. k
    BY <1>3 DEF Addrs
  <2>2. \A j \in a .. k : j % ERASE_OP # 0
    BY <1>1, <1>3, <2>1
  <2>3. k \in Addrs /\ a <= k
    BY <1>3 DEF Addrs
  <2> QED
    BY <2>2, <2>3, FreshUse
<1> QED
  BY <1>2, <1>3 DEF FreshAbove

\* There is no room for the block only where the image has nothing left that fits.
LEMMA NoRoom ==
    ASSUME DeviceInv, bState = "dfuDNLOAD_SYNC", ~InBounds(addr, ProgSize)
    PROVE  \A k \in Addrs : Fits(k) => k < addr
<1>1. /\ addr \in Nat /\ imageLen \in Nat /\ block_idx \in Nat
      /\ AREA_SIZE \in Nat /\ TRANSFER_SIZE \in Nat \ {0}
  BY ImageLenIsPositive, SizesAssumption DEF DeviceInv, TypeOK
<1>2. ProgSize \in Nat /\ ProgSize <= TRANSFER_SIZE
  BY ProgSizeFacts
<1>3. addr + ProgSize > AREA_SIZE
  BY <1>1, <1>2 DEF InBounds
<1>4. CASE addr < imageLen
  <2>1. addr % TRANSFER_SIZE = 0
    BY <1>1, <1>4, InsideImage, MultipleMod
  <2>2. AREA_SIZE % TRANSFER_SIZE = 0
    BY MultipleTrans, SizesAssumption
  <2>3. addr < AREA_SIZE => addr + TRANSFER_SIZE <= AREA_SIZE
    BY <1>1, <2>1, <2>2, RoomForAnother
  <2>4. AREA_SIZE <= addr
    BY <1>1, <1>2, <1>3, <2>3
  <2> QED
    BY <1>1, <2>4 DEF Addrs
<1>5. CASE ~(addr < imageLen)
  BY <1>1, <1>5 DEF Fits, Addrs
<1> QED
  BY <1>4, <1>5

LEMMA StatusGetStatusSyncDevice ==
    ASSUME DeviceInv, StatusGetStatusSync, UNCHANGED imageLen
    PROVE  DeviceInv'
<1> USE SizesAssumption
<1>0. /\ TypeOK /\ addr \in Nat /\ imageLen \in Nat /\ block_idx \in Nat
      /\ prog = NoProg /\ prog.pc = "none" /\ bState = "dfuDNLOAD_SYNC"
      /\ addr < imageLen => FreshAbove(addr)
      /\ ctrl' = NoCtrl /\ UNCHANGED <<mode, flash, imageLen>>
  BY ImageLenIsPositive DEF DeviceInv, ProgInv, StatusGetStatusSync, TypeOK, Ready, NoProg
<1>1. ProgSize \in Nat /\ 0 < ProgSize /\ ProgSize <= TRANSFER_SIZE
  BY <1>0, ProgSizeFacts
<1>2. CASE InBounds(addr, ProgSize)
  <2>1. /\ prog' = [pc |-> IF addr % ERASE_OP = 0 THEN "erase" ELSE "write", off |-> 0]
        /\ UNCHANGED <<bState, block_idx, buffer_size, addr, buffer>>
        /\ addr + ProgSize <= AREA_SIZE
    BY <1>2 DEF StatusGetStatusSync, InBounds, StartsPage, ram
  <2>2. TypeOK'
    BY <1>0, <2>1 DEF TypeOK, NoCtrl
  <2>3. AddrInv' /\ BufferInv' /\ ProgSize' = ProgSize /\ ProgrammedBelow'
    BY <1>0, <2>1 DEF DeviceInv, AddrInv, BufferInv, NBlocks, BlockLen, HoldsBlock, ProgSize,
                      ProgrammedBelow, Fits
  <2>4. 0 % WRITE_OP = 0 /\ addr + 0 = addr
    BY <1>0, ZeroMultiple
  <2>5. ASSUME addr % ERASE_OP # 0 PROVE WriteInv'
    <3>1. ASSUME addr < imageLen
          PROVE  /\ \A k \in Addrs : (addr <= k /\ k < addr + TRANSFER_SIZE) => flash[k] = Erased
                 /\ FreshAbove(addr + TRANSFER_SIZE)
      BY <1>0, <2>5, <3>1, InsideImage, FreshInsidePage
    <3>2. \A k \in Addrs : (Fits(k) /\ k < addr) => flash[k] = k
      BY DEF DeviceInv, ProgrammedBelow
    <3> QED
      BY <1>0, <1>1, <2>1, <2>3, <2>4, <3>1, <3>2 DEF WriteInv, FreshAbove, Fits
  <2>6. ProgInv'
    BY <1>0, <2>1, <2>3, <2>5 DEF ProgInv
  <2> QED
    BY <1>0, <2>2, <2>3, <2>6 DEF DeviceInv
<1>3. CASE ~InBounds(addr, ProgSize)
  <2>1. BlockProgrammed
    BY <1>3 DEF StatusGetStatusSync
  <2>2. TypeOK'
    BY <1>0, <2>1 DEF BlockProgrammed, NoProg, NoCtrl, States, TypeOK
  <2>3. \A k \in Addrs : Fits(k) => k < addr
    BY <1>0, <1>3, NoRoom
  <2>4. \A k \in Addrs : (Fits(k) /\ k < addr + buffer_size) => flash'[k] = k
    BY <1>0, <2>3 DEF DeviceInv, ProgrammedBelow
  <2>5. (addr < imageLen /\ buffer_size = TRANSFER_SIZE)
           => \A k \in Addrs : ~(addr + TRANSFER_SIZE <= k)
    BY <1>0, <1>1, <1>3, CountedBlock DEF InBounds, Addrs
  <2> QED
    BY <1>0, <2>1, <2>2, <2>4, <2>5, BlockProgrammedDevice
<1> QED
  BY <1>2, <1>3

\* A handler that leaves the session, the flash and the flash routine alone.
LEMMA QuietDevice ==
    ASSUME DeviceInv, TypeOK', BufferInv', prog = NoProg,
           UNCHANGED <<imageLen, addr, block_idx, flash, prog>>
    PROVE  DeviceInv'
<1>1. prog.pc = "none" /\ prog'.pc = "none" /\ prog' = NoProg
  BY DEF NoProg
<1>2. AddrInv' /\ ProgrammedBelow'
  BY DEF DeviceInv, AddrInv, NBlocks, ProgrammedBelow, Fits
<1>3. ProgInv'
  BY <1>1 DEF DeviceInv, ProgInv, FreshAbove
<1> QED
  BY <1>2, <1>3 DEF DeviceInv

\* A handler that starts a session at block 0.
LEMMA RestartDevice ==
    ASSUME DeviceInv, TypeOK', addr' = 0, block_idx' = 0, prog' = NoProg,
           bState' # "dfuDNLOAD_SYNC", UNCHANGED imageLen
    PROVE  DeviceInv'
<1>1. prog'.pc = "none"
  BY DEF NoProg
<1>2. NBlocks' = NBlocks /\ NBlocks \in Nat \ {0}
  BY NBlocksFacts DEF NBlocks, DeviceInv
<1>3. AddrInv'
  BY <1>2, SizesAssumption DEF AddrInv
<1>4. ProgrammedBelow'
  BY SizesAssumption DEF ProgrammedBelow, Addrs
<1>5. FreshAbove(addr)'
  BY FreshFromZero DEF FreshAbove
<1>6. ProgInv'
  BY <1>1, <1>5 DEF ProgInv
<1>7. BufferInv'
  BY DEF BufferInv
<1> QED
  BY <1>3, <1>4, <1>6, <1>7 DEF DeviceInv

(* ------------------------- steps of the host -------------------------- *)

\* The handlers keep the types, whatever the host sends.
LEMMA SetupTypes ==
    ASSUME TypeOK, NEW w \in Nat, NEW len \in Nat,
           SetupDnload(w, len) \/ (\E req \in Requests : SetupOther(req))
    PROVE  TypeOK'
<1>1. CASE SetupDnload(w, len)
  <2>1. /\ block_idx' \in Nat /\ addr' \in Nat /\ bState' \in States
        /\ UNCHANGED <<mode, buffer_size, buffer, flash, prog>>
    BY <1>1 DEF SetupDnload, TypeOK, SessionBlock, SessionAddr, States
  <2>2. ctrl' \in CtrlType
    BY <1>1 DEF SetupDnload, NewCtrl, CtrlType, Requests
  <2> QED
    BY <2>1, <2>2 DEF TypeOK, CtrlType
<1>2. ASSUME NEW req \in Requests, SetupOther(req) PROVE TypeOK'
  <2>1. ctrl' \in CtrlType
    BY <1>2 DEF SetupOther, NewCtrl, CtrlType
  <2> QED
    BY <1>2, <2>1 DEF SetupOther, TypeOK, CtrlType, ram
<1> QED
  BY <1>1, <1>2

LEMMA DataTypes ==
    ASSUME TypeOK,
           \/ DataOutNull
           \/ \E payload \in [0 .. TRANSFER_SIZE - 1 -> Cells] : DataOut(payload)
    PROVE  TypeOK'
<1>1. EP0_SIZE \in Nat
  BY SizesAssumption
<1>2. CASE DataOutNull
  <2>1. Smaller(ctrl.got + EP0_SIZE, ctrl.wLength) \in Nat
    BY <1>1 DEF TypeOK, Smaller
  <2>2. ctrl' \in CtrlType /\ mode' \in {"off", "app", "dfu", "hung"}
    BY <1>2, <2>1, GotType DEF DataOutNull, TypeOK, CtrlType
  <2> QED
    BY <1>2, <2>2 DEF DataOutNull, TypeOK, ram, CtrlType
<1>3. ASSUME NEW payload \in [0 .. TRANSFER_SIZE - 1 -> Cells], DataOut(payload)
      PROVE  TypeOK'
  <2>1. Smaller(ctrl.got + EP0_SIZE, ctrl.wLength) \in Nat
    BY <1>1 DEF TypeOK, Smaller
  <2>2. ctrl' \in CtrlType
    BY <1>3, <2>1, GotType DEF DataOut, TypeOK, CtrlType
  <2>3. buffer' \in [0 .. TRANSFER_SIZE - 1 -> Cells]
    BY <1>3 DEF DataOut, TypeOK
  <2> QED
    BY <1>3, <2>2, <2>3 DEF DataOut, TypeOK, CtrlType
<1> QED
  BY <1>2, <1>3

LEMMA QuietStatusTypes ==
    ASSUME TypeOK, StatusDnload \/ StatusGetStatus \/ StatusToIdle \/ StatusRead
    PROVE  TypeOK'
<1>1. /\ bState' \in States /\ buffer_size' \in Nat /\ ctrl' = NoCtrl
      /\ UNCHANGED <<mode, block_idx, addr, buffer, flash, prog>>
  BY DEF TypeOK, StatusDnload, StatusGetStatus, StatusToIdle, StatusRead, ram, States
<1> QED
  BY <1>1 DEF TypeOK, NoCtrl

LEMMA PowerTypes ==
    ASSUME TypeOK, OnReset \/ PowerOff \/ (\E key \in BOOLEAN : PowerOn(key)) \/ WriteFault
    PROVE  TypeOK'
<1>1. Torn \in Cells /\ flash \in [Addrs -> Cells]
  BY DEF Cells, TypeOK
<1>2. CASE OnReset
  BY <1>2 DEF OnReset, TypeOK, States, NoCtrl, Requests
<1>3. CASE WriteFault
  BY <1>3 DEF WriteFault, TypeOK, ram
<1>4. ASSUME RamCleared, mode' \in {"off", "app", "dfu", "hung"}, flash' \in [Addrs -> Cells]
      PROVE  TypeOK'
  BY <1>1, <1>4 DEF RamCleared, TypeOK, States, NoCtrl, NoProg, Requests
<1>5. CASE PowerOff
  <2>1. flash' \in [Addrs -> Cells]
    BY <1>1, <1>5 DEF PowerOff
  <2> QED
    BY <1>4, <1>5, <2>1 DEF PowerOff
<1>6. ASSUME NEW key \in BOOLEAN, PowerOn(key) PROVE TypeOK'
  BY <1>1, <1>4, <1>6 DEF PowerOn
<1> QED
  BY <1>2, <1>3, <1>5, <1>6

\* Where a reset or a power failure leaves the device and the host.
LEMMA ResetDevice ==
    ASSUME DeviceInv, UNCHANGED imageLen,
           OnReset \/ PowerOff \/ (\E key \in BOOLEAN : PowerOn(key))
    PROVE  DeviceInv'
<1>1. /\ TypeOK' /\ addr' = 0 /\ block_idx' = 0 /\ prog' = NoProg
      /\ bState' # "dfuDNLOAD_SYNC"
  BY PowerTypes DEF DeviceInv, OnReset, PowerOff, PowerOn, RamCleared, Ready
<1> QED
  BY <1>1, RestartDevice

LEMMA HostAtIdle ==
    ASSUME DeviceInv', UNCHANGED imageLen, HostTypeOK,
           hpc' = "idle", n' = 0, wait' = FALSE, view' = view
    PROVE  HostInv'
  BY DEF HostInv, HostTypeOK, PlaceInv, ReachedInv, TransferInv

\* What a status stage does to the device.
LEMMA StatusDevice ==
    ASSUME HostInv, wait, StatusNext, UNCHANGED imageLen
    PROVE  DeviceInv'
<1>1. DeviceInv /\ TypeOK /\ prog = NoProg /\ imageLen \in ImageLens
  BY DEF HostInv, DeviceInv, TransferInv
<1>2. CASE StatusGetStatusSync
  BY <1>1, <1>2, StatusGetStatusSyncDevice
<1>3. CASE StatusGetStatus \/ StatusToIdle \/ StatusRead
  <2>1. TypeOK'
    BY <1>1, <1>3, QuietStatusTypes
  <2>2. /\ bState' = "dfuDNLOAD_SYNC" => bState = "dfuDNLOAD_SYNC"
        /\ UNCHANGED <<addr, block_idx, flash, prog, buffer, buffer_size>>
    BY <1>3 DEF StatusGetStatus, StatusToIdle, StatusRead, ram
  <2>3. BufferInv'
    BY <1>1, <2>2 DEF DeviceInv, BufferInv, HoldsBlock, NBlocks, BlockLen
  <2> QED
    BY <1>1, <2>1, <2>2, <2>3, QuietDevice
<1>4. CASE StatusDnload
  <2>1. TypeOK' /\ UNCHANGED <<addr, block_idx, flash, prog, buffer>>
    BY <1>1, <1>4, QuietStatusTypes DEF StatusDnload
  <2>2. ASSUME ctrl.wLength > 0, block_idx < NBlocks
        PROVE  HoldsBlock(buffer, ctrl.wLength, block_idx)
    <3>1. ctrl.req = "DNLOAD" /\ hpc \in {"dnload", "final"}
      BY <1>4 DEF StatusDnload, HostInv, TransferInv, HostTypeOK
    <3>2. hpc = "dnload" /\ ctrl.wLength = BlockLen(n) /\ (ctrl.matched <=> block_idx = n)
          /\ n \in Nat /\ n < NBlocks
      BY <1>1, <2>2, <3>1, 0 \in Nat DEF HostInv, TransferInv, HostTypeOK, PlaceInv
    <3>3. ctrl.matched
      <4> SUFFICES ASSUME ~ctrl.matched PROVE FALSE
        OBVIOUS
      <4>0. block_idx \in Nat /\ NBlocks \in Nat
        BY <1>1, NBlocksFacts DEF TypeOK
      <4>1. ctrl.wLength % EP0_SIZE # 0
        BY <1>4, <2>2, <4>0 DEF StatusDnload, DataComplete
      <4>2. n + 1 = NBlocks
        <5>1. CASE n + 1 < NBlocks
          BY <1>1, <3>2, <4>1, <5>1, BlockLenFacts, SizesAssumption
        <5> QED
          BY <3>2, <4>0, <5>1
      <4>3. n > 0 => block_idx >= n
        BY <3>2, <4>0 DEF HostInv, ReachedInv, DeviceAt
      <4>4. block_idx # n
        BY <3>2
      <4>5. n = 0 => block_idx = 0
        BY <2>2, <4>0, <4>2
      <4> QED
        BY <2>2, <3>2, <4>0, <4>2, <4>3, <4>4, <4>5
    <3>4. /\ ctrl.got = ctrl.wLength
          /\ \A i \in 0 .. TRANSFER_SIZE - 1 :
                (i < ctrl.got /\ i < ctrl.wLength) => buffer[i] = n * TRANSFER_SIZE + i
      BY <1>4, <3>2, <3>3 DEF HostInv, TransferInv, StatusDnload, DataComplete
    <3> QED
      BY <3>2, <3>3, <3>4 DEF HoldsBlock
  <2>3. BufferInv'
    <3>1. /\ buffer_size' = ctrl.wLength
          /\ bState' = "dfuDNLOAD_SYNC" => ctrl.wLength > 0
          /\ NBlocks' = NBlocks
      BY <1>4 DEF StatusDnload, NBlocks
    <3> QED
      BY <2>1, <2>2, <3>1 DEF BufferInv, HoldsBlock, BlockLen
  <2> QED
    BY <1>1, <2>1, <2>3, QuietDevice
<1> QED
  BY <1>2, <1>3, <1>4 DEF StatusNext

LEMMA HostInvInit == HostInit => HostInv
<1> SUFFICES ASSUME HostInit PROVE HostInv
  OBVIOUS
<1>1. TypeOK /\ imageLen \in ImageLens
  BY IInvInit DEF HostInit, IInv
<1>2. NBlocks \in Nat \ {0} /\ imageLen \in Nat
  BY <1>1, NBlocksFacts, ImageLenIsPositive
<1>3. AddrInv /\ BufferInv
  BY <1>2, SizesAssumption DEF HostInit, Init, AddrInv, BufferInv
<1>4. FreshAbove(addr)
  BY FreshFromZero DEF FreshAbove, HostInit, Init
<1>5. ProgInv /\ ProgrammedBelow
  BY <1>4 DEF HostInit, Init, ProgInv, NoProg, ProgrammedBelow, Addrs
<1>6. HostTypeOK /\ PlaceInv /\ ReachedInv /\ TransferInv
  BY <1>2 DEF HostInit, HostTypeOK, PlaceInv, ReachedInv, TransferInv, States, Init
<1> QED
  BY <1>1, <1>3, <1>5, <1>6 DEF HostInv, DeviceInv

\* A transfer is started.
LEMMA SendAbortInv ==
    ASSUME HostInv, SendAbort
    PROVE  HostInv'
<1>1. /\ UNCHANGED <<mode, bState, block_idx, buffer_size, addr, buffer, flash, prog>>
      /\ UNCHANGED <<imageLen, hpc, n, view>> /\ wait' = TRUE
      /\ hpc = "idle" /\ ctrl'.req = "ABORT" /\ prog = NoProg /\ mode = "dfu"
  BY DEF SendAbort, SetupOther, Sends, Ready, ram, NewCtrl
<1>2. DeviceInv'
  <2>1. TypeOK'
    BY SetupTypes, 0 \in Nat DEF HostInv, DeviceInv, SendAbort, Requests
  <2>2. BufferInv'
    BY <1>1 DEF HostInv, DeviceInv, BufferInv, HoldsBlock, NBlocks, BlockLen
  <2> QED
    BY <1>1, <2>1, <2>2, QuietDevice DEF HostInv
<1> QED
  BY <1>1, <1>2 DEF HostInv, HostTypeOK, PlaceInv, ReachedInv, TransferInv, NBlocks

LEMMA SendPollInv ==
    ASSUME HostInv, SendPoll
    PROVE  HostInv'
<1>1. /\ UNCHANGED <<mode, bState, block_idx, buffer_size, addr, buffer, flash, prog>>
      /\ UNCHANGED <<imageLen, hpc, n>> /\ wait' = TRUE /\ view' = bState
      /\ hpc \in {"poll", "manifest"} /\ ctrl'.req = "GETSTATUS" /\ prog = NoProg
      /\ mode = "dfu"
  BY DEF SendPoll, SetupOther, Sends, Ready, ram, NewCtrl
<1>2. DeviceInv'
  <2>1. TypeOK'
    BY SetupTypes, 0 \in Nat DEF HostInv, DeviceInv, SendPoll, Requests
  <2>2. BufferInv'
    BY <1>1 DEF HostInv, DeviceInv, BufferInv, HoldsBlock, NBlocks, BlockLen
  <2> QED
    BY <1>1, <2>1, <2>2, QuietDevice DEF HostInv
<1>3. view' \in States
  BY <1>1 DEF HostInv, DeviceInv, TypeOK
<1> QED
  BY <1>1, <1>2, <1>3 DEF HostInv, HostTypeOK, PlaceInv, ReachedInv, DeviceAt, TransferInv, NBlocks

LEMMA SendBlockInv ==
    ASSUME HostInv, SendBlock
    PROVE  HostInv'
<1>0. /\ n \in Nat /\ n < NBlocks /\ BlockLen(n) \in Nat /\ BlockLen(n) > 0
      /\ NBlocks \in Nat
  BY BlockLenFacts, NBlocksFacts DEF HostInv, DeviceInv, HostTypeOK, PlaceInv, SendBlock
<1>1. /\ UNCHANGED <<mode, buffer_size, buffer, flash, prog, imageLen, hpc, n, view>>
      /\ wait' = TRUE /\ hpc = "dnload" /\ prog = NoProg /\ mode = "dfu"
      /\ NBlocks' = NBlocks /\ BlockLen(n)' = BlockLen(n)
  BY DEF SendBlock, SetupDnload, Sends, Ready, NBlocks, BlockLen
<1>2. /\ ctrl'.req = "DNLOAD" /\ ctrl'.wLength = BlockLen(n) /\ ctrl'.got = 0
      /\ ctrl'.matched = (block_idx' = n)
      /\ n = 0 => block_idx' = 0 /\ addr' = 0 /\ bState' = "dfuIDLE"
      /\ n > 0 => UNCHANGED <<block_idx, addr, bState>>
  BY <1>0 DEF SendBlock, SetupDnload, NewCtrl, SessionBlock, SessionAddr
<1>3. TypeOK'
  BY <1>0, SetupTypes DEF HostInv, DeviceInv, SendBlock
<1>4. DeviceInv'
  <2>1. CASE n = 0
    BY <1>1, <1>2, <1>3, <2>1, RestartDevice DEF HostInv
  <2>2. CASE n > 0
    <3>1. BufferInv'
      BY <1>1, <1>2, <2>2 DEF HostInv, DeviceInv, BufferInv, HoldsBlock, NBlocks, BlockLen
    <3> QED
      BY <1>1, <1>2, <1>3, <2>2, <3>1, QuietDevice DEF HostInv
  <2> QED
    BY <1>0, <2>1, <2>2
<1>5. HostTypeOK' /\ PlaceInv'
  BY <1>0, <1>1 DEF HostInv, HostTypeOK, PlaceInv
<1>6. ReachedInv'
  BY <1>0, <1>1, <1>2 DEF HostInv, ReachedInv, DeviceAt
<1>7. TransferInv'
  <2>1. \A i \in 0 .. TRANSFER_SIZE - 1 : ~(i < ctrl'.got)
    BY <1>2
  <2>2. /\ hpc' = "dnload" /\ prog' = NoProg /\ ctrl'.wLength = BlockLen(n)' /\ n' = n
        /\ ctrl'.req = "DNLOAD" /\ (ctrl'.matched <=> block_idx' = n')
    BY <1>1, <1>2
  <2> QED
    BY <2>1, <2>2 DEF TransferInv
<1> QED
  BY <1>4, <1>5, <1>6, <1>7 DEF HostInv

LEMMA SendEmptyInv ==
    ASSUME HostInv, SendEmpty
    PROVE  HostInv'
<1>0. n \in Nat /\ n > 0 /\ n = NBlocks
  BY NBlocksFacts DEF HostInv, DeviceInv, HostTypeOK, PlaceInv, SendEmpty
<1>1. /\ UNCHANGED <<mode, buffer_size, buffer, flash, prog, imageLen, hpc, n, view>>
      /\ UNCHANGED <<block_idx, addr, bState>>
      /\ wait' = TRUE /\ hpc = "final" /\ prog = NoProg /\ mode = "dfu"
      /\ ctrl'.req = "DNLOAD" /\ ctrl'.wLength = 0 /\ ctrl'.matched = (block_idx' = n)
  BY <1>0 DEF SendEmpty, SetupDnload, Sends, Ready, NewCtrl, SessionBlock, SessionAddr
<1>2. DeviceInv'
  <2>1. TypeOK'
    BY <1>0, SetupTypes, 0 \in Nat DEF HostInv, DeviceInv, SendEmpty
  <2>2. BufferInv'
    BY <1>1 DEF HostInv, DeviceInv, BufferInv, HoldsBlock, NBlocks, BlockLen
  <2> QED
    BY <1>1, <2>1, <2>2, QuietDevice DEF HostInv
<1> QED
  BY <1>1, <1>2 DEF HostInv, HostTypeOK, PlaceInv, ReachedInv, TransferInv, NBlocks

\* The packets of a block put that block into the buffer, also when the block
\* before it was the same and still waits to be programmed.
LEMMA SendDataInv ==
    ASSUME HostInv, SendData
    PROVE  HostInv'
<1>1. /\ UNCHANGED <<bState, block_idx, buffer_size, addr, flash, prog>>
      /\ UNCHANGED <<imageLen, hpc, n, view, wait>> /\ wait
      /\ prog = NoProg /\ mode = "dfu" /\ mode' # "off" /\ ctrl.req = "DNLOAD"
      /\ ctrl'.req = ctrl.req /\ ctrl'.wLength = ctrl.wLength /\ ctrl'.matched = ctrl.matched
  BY DEF SendData, DataOut, DataOutNull, hvars, Ready, ram, HostInv, DeviceInv, TypeOK
<1>2. /\ hpc \in {"dnload", "final"} /\ n \in Nat /\ block_idx \in Nat
      /\ NBlocks \in Nat /\ ctrl.got \in Nat /\ ctrl.wLength \in Nat
  BY <1>1, NBlocksFacts DEF HostInv, TransferInv, HostTypeOK, DeviceInv, TypeOK
<1>3. hpc = "final" => ctrl.wLength = 0
  BY <1>1 DEF HostInv, TransferInv
<1>4. HostTypeOK' /\ PlaceInv' /\ ReachedInv'
  BY <1>1, <1>2 DEF HostInv, HostTypeOK, PlaceInv, ReachedInv, DeviceAt, NBlocks
<1>5. ASSUME DataOutNull PROVE HostInv'
  <2>1. ~ctrl.matched /\ buffer' = buffer
    BY <1>5 DEF DataOutNull, ram
  <2>2. TypeOK'
    BY <1>5, DataTypes DEF HostInv, DeviceInv
  <2>3. BufferInv'
    BY <1>1, <2>1 DEF HostInv, DeviceInv, BufferInv, HoldsBlock, NBlocks, BlockLen
  <2>4. DeviceInv'
    BY <1>1, <2>2, <2>3, QuietDevice DEF HostInv
  <2>5. TransferInv'
    BY <1>1, <2>1 DEF HostInv, TransferInv, BlockLen
  <2> QED
    BY <1>4, <2>4, <2>5 DEF HostInv
<1>6. ASSUME DataOut(Block(n)) PROVE HostInv'
  <2>1. ctrl.matched /\ hpc = "dnload" /\ ctrl.got < ctrl.wLength
    BY <1>2, <1>3, <1>6 DEF DataOut
  <2>2. /\ block_idx = n /\ ctrl.wLength = BlockLen(n) /\ n < NBlocks
        /\ \A i \in 0 .. TRANSFER_SIZE - 1 :
               (i < ctrl.got /\ i < ctrl.wLength) => buffer[i] = n * TRANSFER_SIZE + i
    BY <1>1, <2>1 DEF HostInv, TransferInv, PlaceInv
  <2>3. /\ n * TRANSFER_SIZE \in Nat /\ BlockLen(n) \in Nat
        /\ n * TRANSFER_SIZE + BlockLen(n) <= imageLen
        /\ imageLen \in ImageLens /\ imageLen \in Nat
    BY <1>2, <2>2, BlockLenFacts, ImageLenIsPositive DEF HostInv, DeviceInv
  <2>4. Block(n) \in [0 .. TRANSFER_SIZE - 1 -> Cells]
    <3>1. ASSUME NEW i \in 0 .. TRANSFER_SIZE - 1, i < BlockLen(n)
          PROVE  n * TRANSFER_SIZE + i \in Cells
      <4>1. n * TRANSFER_SIZE + i \in 0 .. imageLen - 1
        BY <2>3, <3>1, SizesAssumption
      <4>2. 0 .. imageLen - 1 \subseteq Data
        BY <2>3, ImageAssumption
      <4> QED
        BY <4>1, <4>2 DEF Cells
    <3> QED
      BY <3>1 DEF Block, Cells
  <2>5. TypeOK'
    BY <1>6, <2>4, DataTypes DEF HostInv, DeviceInv
  <2>6. buffer' = [i \in 0 .. TRANSFER_SIZE - 1 |->
                     IF ctrl.got <= i /\ i < Smaller(ctrl.got + EP0_SIZE, ctrl.wLength)
                     THEN Block(n)[i] ELSE buffer[i]]
        /\ ctrl' = [ctrl EXCEPT !.got = Smaller(ctrl.got + EP0_SIZE, ctrl.wLength)]
    BY <1>6 DEF DataOut
  <2>7. /\ ctrl'.got = Smaller(ctrl.got + EP0_SIZE, ctrl.wLength)
        /\ Smaller(ctrl.got + EP0_SIZE, ctrl.wLength) \in Nat
        /\ Smaller(ctrl.got + EP0_SIZE, ctrl.wLength) <= ctrl.wLength
    BY <1>2, <2>6, SizesAssumption DEF Smaller, HostInv, DeviceInv, TypeOK
  <2>8. \A i \in 0 .. TRANSFER_SIZE - 1 : i < ctrl.wLength => Block(n)[i] = n * TRANSFER_SIZE + i
    BY <2>2 DEF Block
  <2>9. \A i \in 0 .. TRANSFER_SIZE - 1 :
           (i < ctrl'.got /\ i < ctrl.wLength) => buffer'[i] = n * TRANSFER_SIZE + i
    <3> SUFFICES ASSUME NEW i \in 0 .. TRANSFER_SIZE - 1, i < ctrl'.got, i < ctrl.wLength
                 PROVE  buffer'[i] = n * TRANSFER_SIZE + i
      OBVIOUS
    <3>1. CASE ctrl.got <= i
      BY <2>6, <2>7, <2>8, <3>1
    <3>2. CASE ~(ctrl.got <= i)
      <4>1. i < ctrl.got
        BY <1>2, <3>2, SizesAssumption
      <4> QED
        BY <2>2, <2>6, <3>2, <4>1
    <3> QED
      BY <3>1, <3>2
  <2>10. BufferInv'
    <3>1. ASSUME bState = "dfuDNLOAD_SYNC", NEW i \in 0 .. TRANSFER_SIZE - 1, i < buffer_size
          PROVE  buffer'[i] = n * TRANSFER_SIZE + i
      <4>1. /\ buffer_size = ctrl.wLength
            /\ buffer[i] = n * TRANSFER_SIZE + i
        BY <2>2, <3>1 DEF HostInv, DeviceInv, BufferInv, HoldsBlock
      <4> QED
        BY <2>6, <2>8, <3>1, <4>1
    <3> QED
      BY <1>1, <2>2, <3>1 DEF HostInv, DeviceInv, BufferInv, HoldsBlock, NBlocks, BlockLen
  <2>11. DeviceInv'
    BY <1>1, <2>5, <2>10, QuietDevice DEF HostInv
  <2>12. TransferInv'
    <3>1. /\ hpc' = "dnload" /\ prog' = NoProg /\ ctrl'.req = "DNLOAD"
          /\ ctrl'.wLength = BlockLen(n)' /\ ctrl'.matched /\ block_idx' = n'
      BY <1>1, <2>1, <2>2 DEF BlockLen
    <3>2. \A i \in 0 .. TRANSFER_SIZE - 1 :
              (i < ctrl'.got /\ i < ctrl'.wLength) => buffer'[i] = n' * TRANSFER_SIZE + i
      BY <1>1, <2>9
    <3> QED
      BY <3>1, <3>2 DEF TransferInv
  <2> QED
    BY <1>4, <2>11, <2>12 DEF HostInv
<1> QED
  BY <1>5, <1>6 DEF SendData

\* A block that is complete is the one the device is at, or the short last one.
LEMMA BlockIsTaken ==
    ASSUME HostInv, wait, hpc = "dnload", StatusDnload
    PROVE  DeviceAt(n) /\ ctrl.wLength > 0
<1>1. /\ n \in Nat /\ n < NBlocks /\ block_idx \in Nat /\ NBlocks \in Nat
      /\ imageLen \in ImageLens
  BY NBlocksFacts DEF HostInv, HostTypeOK, PlaceInv, DeviceInv, TypeOK
<1>2. ctrl.wLength = BlockLen(n) /\ (ctrl.matched <=> block_idx = n)
  BY DEF HostInv, TransferInv
<1>3. BlockLen(n) > 0 /\ (n + 1 < NBlocks => BlockLen(n) % EP0_SIZE = 0)
  BY <1>1, BlockLenFacts, SizesAssumption
<1>4. ctrl.matched \/ ctrl.wLength % EP0_SIZE # 0
  BY <1>1, <1>2, <1>3, BlockLenFacts DEF StatusDnload, DataComplete
<1>5. CASE ctrl.matched
  BY <1>1, <1>2, <1>3, <1>5, BlockLenFacts DEF DeviceAt
<1>6. CASE ~ctrl.matched
  <2>1. ~(n + 1 < NBlocks)
    BY <1>2, <1>3, <1>4, <1>6
  <2>2. n > 0 => block_idx >= n
    BY <1>1 DEF HostInv, ReachedInv, DeviceAt
  <2> QED
    BY <1>1, <1>2, <1>3, <2>1, <2>2, BlockLenFacts DEF DeviceAt
<1> QED
  BY <1>5, <1>6

\* What the status stages do to the session.
LEMMA StatusSession ==
    ASSUME HostInv, wait, StatusNext
    PROVE  /\ mode' = "dfu" /\ mode = "dfu"
           /\ hpc = "dnload" => bState' = "dfuDNLOAD_SYNC" /\ block_idx' = block_idx /\ DeviceAt(n)
           /\ hpc = "poll" =>
                 \/ bState' = bState /\ block_idx' = block_idx
                 \/ /\ bState = "dfuDNLOAD_SYNC" /\ bState' = "dfuDNLOAD_IDLE"
                    /\ block_idx' = block_idx + 1
           /\ (hpc = "poll" /\ bState # "dfuDNLOAD_SYNC") => bState' = bState /\ block_idx' = block_idx
           /\ hpc \in {"final", "manifest"} =>
                 bState' # "dfuDNLOAD_SYNC" /\ block_idx' = block_idx
<1>1. mode' = "dfu" /\ mode = "dfu"
  BY DEF StatusNext, StatusDnload, StatusGetStatusSync, StatusGetStatus, StatusToIdle,
         StatusRead, Ready
<1>2. ASSUME hpc = "dnload"
      PROVE  bState' = "dfuDNLOAD_SYNC" /\ block_idx' = block_idx /\ DeviceAt(n)
  <2>1. StatusDnload
    BY <1>2 DEF HostInv, TransferInv, StatusNext, StatusGetStatusSync, StatusGetStatus,
                StatusToIdle, StatusRead
  <2> QED
    BY <1>2, <2>1, BlockIsTaken DEF StatusDnload
<1>3. ASSUME hpc \in {"poll", "manifest"}
      PROVE  \/ bState = "dfuDNLOAD_SYNC" /\ UNCHANGED <<bState, block_idx>>
             \/ bState = "dfuDNLOAD_SYNC" /\ bState' = "dfuDNLOAD_IDLE" /\ block_idx' = block_idx + 1
             \/ /\ bState # "dfuDNLOAD_SYNC" /\ block_idx' = block_idx
                /\ bState' = IF bState = "dfuMANIFEST_SYNC" THEN "dfuMANIFEST" ELSE bState
  <2>1. StatusGetStatusSync \/ StatusGetStatus
    BY <1>3 DEF HostInv, TransferInv, StatusNext, StatusDnload, StatusToIdle, StatusRead
  <2>2. CASE StatusGetStatus
    BY <2>2 DEF StatusGetStatus
  <2>3. CASE StatusGetStatusSync
    BY <2>3 DEF StatusGetStatusSync, BlockProgrammed, ram
  <2> QED
    BY <2>1, <2>2, <2>3
<1>4. ASSUME hpc = "poll"
      PROVE  bState \in {"dfuDNLOAD_SYNC", "dfuDNLOAD_IDLE"}
  BY <1>4 DEF HostInv, ReachedInv
<1>5. ASSUME hpc = "final" PROVE bState' # "dfuDNLOAD_SYNC" /\ block_idx' = block_idx
  <2>1. StatusDnload /\ ctrl.wLength = 0
    BY <1>5 DEF HostInv, TransferInv, StatusNext, StatusGetStatusSync, StatusGetStatus,
                StatusToIdle, StatusRead
  <2> QED
    BY <2>1 DEF StatusDnload
<1>6. hpc = "manifest" => bState # "dfuDNLOAD_SYNC"
  BY DEF HostInv, ReachedInv
<1> QED
  BY <1>1, <1>2, <1>3, <1>4, <1>5, <1>6

\* The host's part of the invariant, once no transfer is in progress.
LEMMA HostAfter ==
    ASSUME DeviceInv', HostTypeOK', PlaceInv', ReachedInv', wait' = FALSE
    PROVE  HostInv'
  BY DEF HostInv, TransferInv

\* The transfer succeeds.
LEMMA TransferDoneInv ==
    ASSUME HostInv, TransferDone
    PROVE  HostInv'
<1>0. wait /\ StatusNext /\ Succeeds /\ UNCHANGED <<view, faults>> /\ wait' = FALSE
      /\ UNCHANGED imageLen
  BY DEF TransferDone, Succeeds, GoTo
<1>1. DeviceInv'
  BY <1>0, StatusDevice
<1>2. /\ NBlocks' = NBlocks /\ NBlocks \in Nat \ {0} /\ n \in Nat /\ block_idx \in Nat
      /\ view \in States /\ hpc # "done"
  BY <1>0, NBlocksFacts DEF HostInv, DeviceInv, HostTypeOK, TypeOK, NBlocks, TransferInv
<1>3. hpc' \in {"idle", "dnload", "poll", "final", "manifest", "done"} /\ n' \in Nat
  BY <1>0, <1>2 DEF Succeeds, GoTo
<1>4. HostTypeOK'
  BY <1>0, <1>2, <1>3 DEF HostTypeOK
<1>5. PlaceInv'
  BY <1>0, <1>2, StatusSession DEF Succeeds, GoTo, PlaceInv, HostInv
<1>6. hpc \in {"poll", "manifest"} => view = bState
  BY <1>0 DEF HostInv, TransferInv
<1>7. ReachedInv'
  <2>1. CASE hpc = "idle"
    BY <1>0, <1>2, <2>1 DEF Succeeds, GoTo, ReachedInv
  <2>2. CASE hpc = "dnload"
    <3>1. hpc' = "poll" /\ n' = n
      BY <1>0, <2>2 DEF Succeeds, GoTo
    <3> QED
      BY <1>0, <1>2, <2>2, <3>1, StatusSession DEF ReachedInv, DeviceAt
  <2>3. CASE hpc = "poll"
    <3>1. \/ bState = "dfuDNLOAD_SYNC" /\ DeviceAt(n)
          \/ bState = "dfuDNLOAD_IDLE" /\ DeviceAt(n + 1)
      BY <2>3 DEF HostInv, ReachedInv
    <3>2. CASE bState = "dfuDNLOAD_IDLE"
      <4>1. bState' = bState /\ block_idx' = block_idx /\ DeviceAt(n + 1)
        BY <1>0, <2>3, <3>1, <3>2, StatusSession
      <4>2. IF n + 1 < NBlocks THEN hpc' = "dnload" /\ n' = n + 1 ELSE hpc' = "final" /\ n' = n + 1
        BY <1>0, <1>6, <2>3, <3>2 DEF Succeeds, GoTo
      <4>3. n + 1 >= NBlocks => block_idx >= NBlocks
        BY <1>2, <4>1 DEF DeviceAt
      <4> QED
        BY <1>2, <3>2, <4>1, <4>2, <4>3 DEF ReachedInv, DeviceAt
    <3>3. CASE bState = "dfuDNLOAD_SYNC"
      <4>1. hpc' = "poll" /\ n' = n /\ DeviceAt(n)
        BY <1>0, <1>6, <2>3, <3>1, <3>3 DEF Succeeds, GoTo
      <4>2. \/ bState' = bState /\ block_idx' = block_idx
            \/ bState' = "dfuDNLOAD_IDLE" /\ block_idx' = block_idx + 1
        BY <1>0, <2>3, StatusSession
      <4> QED
        BY <1>2, <3>3, <4>1, <4>2 DEF ReachedInv, DeviceAt
    <3> QED
      BY <3>1, <3>2, <3>3
  <2>4. CASE hpc \in {"final", "manifest"}
    <3>1. block_idx >= NBlocks /\ bState' # "dfuDNLOAD_SYNC" /\ block_idx' = block_idx
      BY <1>0, <2>4, StatusSession DEF HostInv, ReachedInv
    <3>2. hpc' \in {"manifest", "done", "idle"}
      BY <1>0, <2>4 DEF Succeeds, GoTo
    <3> QED
      BY <1>2, <3>1, <3>2 DEF ReachedInv
  <2> QED
    BY <1>2, <2>1, <2>2, <2>3, <2>4 DEF HostInv, HostTypeOK
<1> QED
  BY <1>0, <1>1, <1>4, <1>5, <1>7, HostAfter

\* The transfer fails, before or after the device took it.
LEMMA FailsInv ==
    ASSUME HostInv, wait, Fails, view' = view, UNCHANGED imageLen,
           StatusNext \/ UNCHANGED vars
    PROVE  HostInv'
<1>1. wait' = FALSE /\ NBlocks' = NBlocks /\ NBlocks \in Nat \ {0} /\ n \in Nat
      /\ block_idx \in Nat /\ view \in States /\ hpc # "done" /\ imageLen \in ImageLens
      /\ hpc \in {"idle", "dnload", "poll", "final", "manifest"}
  BY NBlocksFacts DEF Fails, GoTo, HostInv, DeviceInv, HostTypeOK, TypeOK, NBlocks, TransferInv
<1>2. DeviceInv'
  <2>1. CASE StatusNext
    BY <2>1, StatusDevice
  <2>2. CASE UNCHANGED vars
    <3>1. UNCHANGED <<mode, bState, block_idx, buffer_size, addr, buffer, ctrl, flash, prog>>
      BY <2>2 DEF vars
    <3>2. TypeOK' /\ BufferInv'
      BY <3>1 DEF HostInv, DeviceInv, TypeOK, BufferInv, HoldsBlock, NBlocks, BlockLen
    <3> QED
      BY <3>1, <3>2, QuietDevice DEF HostInv, TransferInv
  <2> QED
    BY <2>1, <2>2
<1>3. \/ hpc' = hpc /\ n' = n
      \/ hpc = "poll" /\ hpc' = "dnload" /\ n' = n
      \/ hpc' = "idle" /\ n' = 0
  BY DEF Fails, GoTo
<1>4. mode = "dfu" => mode' = mode
  BY StatusSession DEF vars
<1>5. mode' = "off" => mode = "off"
  BY StatusSession DEF vars
<1>6. HostTypeOK' /\ PlaceInv'
  <2>1. HostTypeOK'
    <3>1. hpc' \in {"idle", "dnload", "poll", "final", "manifest", "done"}
      BY ONLY <1>1, <1>3
    <3>2. n' \in Nat /\ view' \in States
      BY <1>1, <1>3
    <3> QED
      BY <1>1, <3>1, <3>2 DEF HostTypeOK
  <2>2. mode' # "off"
    BY <1>5 DEF HostInv, PlaceInv
  <2>3. PlaceInv
    BY DEF HostInv
  <2> QED
    BY <1>1, <1>3, <2>1, <2>2, <2>3 DEF PlaceInv
<1>7. ReachedInv'
  <2>1. CASE UNCHANGED vars
    <3>1. UNCHANGED <<bState, block_idx>>
      BY <2>1 DEF vars
    <3> QED
      BY <1>1, <1>3, <3>1 DEF HostInv, ReachedInv, DeviceAt
  <2>2. CASE StatusNext
    <3>1. CASE hpc = "idle"
      BY <1>1, <1>3, <3>1 DEF ReachedInv
    <3>2. CASE hpc = "dnload"
      BY <1>1, <1>3, <2>2, <3>2, StatusSession DEF ReachedInv, DeviceAt
    <3>3. CASE hpc = "poll"
      <4>1. \/ bState = "dfuDNLOAD_SYNC" /\ DeviceAt(n)
            \/ bState = "dfuDNLOAD_IDLE" /\ DeviceAt(n + 1)
        BY <3>3 DEF HostInv, ReachedInv
      <4>2. /\ \/ bState' = bState /\ block_idx' = block_idx
               \/ bState' = "dfuDNLOAD_IDLE" /\ block_idx' = block_idx + 1
            /\ bState # "dfuDNLOAD_SYNC" => bState' = bState /\ block_idx' = block_idx
        BY <2>2, <3>3, StatusSession
      <4>3. \/ bState' = "dfuDNLOAD_SYNC" /\ block_idx' >= n /\ (n + 1 < NBlocks => block_idx' = n)
            \/ bState' = "dfuDNLOAD_IDLE" /\ block_idx' >= n + 1 /\ (n + 1 < NBlocks => block_idx' = n + 1)
        BY <1>1, <4>1, <4>2 DEF DeviceAt
      <4> QED
        BY <1>1, <1>3, <3>3, <4>3 DEF ReachedInv, DeviceAt
    <3>4. CASE hpc \in {"final", "manifest"}
      BY <1>1, <1>3, <2>2, <3>4, StatusSession DEF HostInv, ReachedInv
    <3> QED
      BY <1>1, <3>1, <3>2, <3>3, <3>4
  <2> QED
    BY <2>1, <2>2
<1> QED
  BY <1>1, <1>2, <1>6, <1>7, HostAfter

\* The device erases, programs, or counts the block the host is waiting for.
LEMMA DeviceStepInv ==
    ASSUME HostInv, DeviceStep \/ DeviceFault
    PROVE  HostInv'
<1>1. /\ UNCHANGED <<imageLen, hpc, n, wait, view>> /\ prog.pc # "none" /\ ~wait
      /\ bState = "dfuDNLOAD_SYNC" /\ mode # "off"
      /\ NBlocks' = NBlocks /\ NBlocks \in Nat \ {0} /\ n \in Nat /\ block_idx \in Nat
  BY NBlocksFacts
     DEF DeviceStep, DeviceFault, FlashNext, EraseStep, WriteStep, WriteFault, HostInv, DeviceInv,
         ProgInv, TransferInv, NoProg, hvars, HostTypeOK, TypeOK, NBlocks
<1>2. DeviceInv'
  <2>1. CASE DeviceStep
    BY <1>1, <2>1, EraseStepDevice, WriteStepDevice DEF DeviceStep, FlashNext, HostInv
  <2>2. CASE DeviceFault
    <3>1. WriteFault /\ TypeOK' /\ UNCHANGED <<bState, block_idx, buffer_size, addr, buffer, flash, prog>>
      BY <2>2, PowerTypes DEF DeviceFault, HostInv, DeviceInv, WriteFault, ram
    <3>2. /\ AddrInv' /\ BufferInv' /\ ProgrammedBelow' /\ ProgSize' = ProgSize
      BY <1>1, <3>1 DEF HostInv, DeviceInv, AddrInv, BufferInv, HoldsBlock, NBlocks, BlockLen,
                        ProgrammedBelow, Fits, ProgSize
    <3>3. ProgInv'
      BY <1>1, <3>1, <3>2 DEF HostInv, DeviceInv, ProgInv, WriteInv, FreshAbove, Fits
    <3> QED
      BY <1>1, <3>1, <3>2, <3>3 DEF HostInv, DeviceInv
  <2> QED
    BY <2>1, <2>2
<1>3. mode' # "off"
  BY <1>1 DEF DeviceStep, DeviceFault, FlashNext, EraseStep, WriteStep, WriteFault
<1>4. HostTypeOK' /\ PlaceInv' /\ TransferInv'
  BY <1>1, <1>3 DEF HostInv, HostTypeOK, PlaceInv, TransferInv
<1>5. ReachedInv'
  <2>1. \/ UNCHANGED <<bState, block_idx>>
        \/ bState' = "dfuDNLOAD_IDLE" /\ block_idx' = block_idx + 1
    BY DEF DeviceStep, DeviceFault, FlashNext, EraseStep, WriteStep, WriteFault, BlockProgrammed, ram
  <2>2. CASE UNCHANGED <<bState, block_idx>>
    BY <1>1, <2>2 DEF HostInv, ReachedInv, DeviceAt
  <2>3. CASE bState' = "dfuDNLOAD_IDLE" /\ block_idx' = block_idx + 1
    <3>1. hpc \notin {"final", "manifest", "done"}
      BY <1>1 DEF HostInv, ReachedInv
    <3>2. (hpc = "poll" \/ (hpc = "dnload" /\ n > 0)) => DeviceAt(n)
      BY <1>1 DEF HostInv, ReachedInv
    <3> QED
      BY <1>1, <2>3, <3>1, <3>2 DEF ReachedInv, DeviceAt
  <2> QED
    BY <2>1, <2>2, <2>3
<1> QED
  BY <1>2, <1>4, <1>5 DEF HostInv

\* A reset, a power failure, or the user's next attempt.
LEMMA ResetInv ==
    ASSUME HostInv,
           \/ Enumerate \/ BusReset \/ PowerLoss \/ PowerCycle \/ Again
           \/ \E key \in BOOLEAN : UserPowerOn(key)
    PROVE  HostInv'
<1>1. imageLen' = imageLen /\ view' = view /\ HostTypeOK /\ DeviceInv /\ NBlocks' = NBlocks
      /\ NBlocks \in Nat \ {0}
  BY NBlocksFacts
     DEF Enumerate, BusReset, PowerLoss, PowerCycle, Again, UserPowerOn, GoTo, hvars, Unplugged,
         HostInv, NBlocks, DeviceInv
<1>2. CASE Enumerate \/ BusReset
  <2>1. DeviceInv' /\ hpc' = "idle" /\ n' = 0 /\ wait' = FALSE
    BY <1>1, <1>2, ResetDevice DEF Enumerate, BusReset, GoTo
  <2> QED
    BY <1>1, <2>1, HostAtIdle
<1>3. CASE Again
  <2>1. UNCHANGED <<mode, bState, block_idx, buffer_size, addr, buffer, ctrl, flash, prog>>
    BY <1>3 DEF Again, vars
  <2>2. prog = NoProg
    BY <1>3 DEF Again, HostInv, DeviceInv, ReachedInv, ProgInv
  <2>3. TypeOK' /\ BufferInv'
    BY <1>1, <2>1 DEF DeviceInv, TypeOK, BufferInv, HoldsBlock, NBlocks, BlockLen
  <2>4. DeviceInv' /\ hpc' = "idle" /\ n' = 0 /\ wait' = FALSE
    BY <1>1, <1>3, <2>1, <2>2, <2>3, QuietDevice DEF Again, GoTo
  <2> QED
    BY <1>1, <2>4, HostAtIdle
<1>4. CASE PowerLoss \/ PowerCycle
  <2>1. PowerOff /\ Unplugged /\ DeviceInv' /\ bState' = "appIDLE"
    BY <1>1, <1>4, ResetDevice DEF PowerLoss, PowerCycle, PowerOff, RamCleared
  <2>2. CASE hpc = "done"
    <3>1. UNCHANGED <<hpc, n, wait>> /\ wait = FALSE
      BY <1>1, <2>1, <2>2 DEF Unplugged, HostInv, TransferInv, HostTypeOK
    <3> QED
      BY <1>1, <2>1, <2>2, <3>1 DEF HostInv, HostTypeOK, PlaceInv, ReachedInv, TransferInv
  <2>3. CASE hpc # "done"
    BY <1>1, <2>1, <2>3, HostAtIdle DEF Unplugged, GoTo
  <2> QED
    BY <2>2, <2>3
<1>5. ASSUME NEW key \in BOOLEAN, UserPowerOn(key) PROVE HostInv'
  <2>1. /\ UNCHANGED <<hpc, n, wait>> /\ hpc \in {"idle", "done"} /\ wait = FALSE
        /\ DeviceInv' /\ bState' = "appIDLE"
    BY <1>1, <1>5, ResetDevice DEF UserPowerOn, PowerOn, RamCleared, hvars, HostInv, PlaceInv, HostTypeOK
  <2> QED
    BY <1>1, <2>1 DEF HostInv, HostTypeOK, PlaceInv, ReachedInv, TransferInv
<1> QED
  BY <1>2, <1>3, <1>4, <1>5

LEMMA HostInvNext == HostInv /\ [HostNext]_allvars => HostInv'
<1> SUFFICES ASSUME HostInv, [HostNext]_allvars PROVE HostInv'
  OBVIOUS
<1>1. CASE SendAbort \/ SendBlock \/ SendEmpty \/ SendPoll \/ SendData
  BY <1>1, SendAbortInv, SendBlockInv, SendEmptyInv, SendPollInv, SendDataInv
<1>2. CASE TransferDone
  BY <1>2, TransferDoneInv
<1>3. CASE AnswerLost \/ TransferCut
  <2>1. wait /\ Fails /\ view' = view /\ (StatusNext \/ UNCHANGED vars) /\ UNCHANGED imageLen
    BY <1>3 DEF AnswerLost, TransferCut, Fails, GoTo
  <2> QED
    BY <2>1, FailsInv
<1>4. CASE RefusedTimeout
  <2>1. wait /\ Fails /\ view' = view /\ UNCHANGED vars /\ UNCHANGED imageLen
    BY <1>4 DEF RefusedTimeout, Fails, GoTo
  <2> QED
    BY <2>1, FailsInv
<1>5. CASE DeviceStep \/ DeviceFault
  BY <1>5, DeviceStepInv
<1>6. CASE \/ Enumerate \/ BusReset \/ PowerLoss \/ PowerCycle \/ Again
           \/ \E key \in BOOLEAN : UserPowerOn(key)
  BY <1>6, ResetInv
<1>7. CASE UNCHANGED allvars
  <2>1. /\ UNCHANGED <<mode, bState, block_idx, buffer_size, addr, buffer, ctrl, flash, prog>>
        /\ UNCHANGED <<imageLen, hpc, n, wait, view>>
    BY <1>7 DEF allvars, vars, hvars
  <2>2. TypeOK' /\ AddrInv' /\ BufferInv' /\ ProgrammedBelow' /\ ProgInv'
    BY <2>1 DEF HostInv, DeviceInv, TypeOK, AddrInv, BufferInv, HoldsBlock, NBlocks, BlockLen,
                ProgrammedBelow, Fits, ProgInv, WriteInv, ProgSize, FreshAbove
  <2>3. HostTypeOK' /\ PlaceInv' /\ ReachedInv' /\ TransferInv'
    BY <2>1 DEF HostInv, HostTypeOK, PlaceInv, ReachedInv, DeviceAt, TransferInv, NBlocks, BlockLen
  <2> QED
    BY <2>1, <2>2, <2>3 DEF HostInv, DeviceInv
<1> QED
  BY <1>1, <1>2, <1>3, <1>4, <1>5, <1>6, <1>7 DEF HostNext

\* The inductive invariant of a download: where the device stands for each place
\* of the host, and what of the image the device has.
THEOREM HostInvariance == HostSpec => []HostInv
  BY HostInvInit, HostInvNext, PTL DEF HostSpec
(* ---------------------------- refinement ------------------------------ *)

\* What the promise says of the flash and of the session, in the words of the
\* bootloader.
LEMMA MappedState ==
    /\ Promise!Area = Addrs
    /\ Promise!KeepsCounted <=>
          \A k \in Addrs :
             k < (IF hpc = "done" THEN imageLen ELSE Smaller(addr, imageLen)) => flash'[k] = flash[k]
  BY DEF Promise!Area, Promise!KeepsCounted, Addrs

\* What is below the address is stored, unless it is beyond the area.
LEMMA HeldBelow ==
    ASSUME HostInv, NEW m \in Nat, m <= addr, m <= imageLen, m <= AREA_SIZE
    PROVE  Promise!Holds(flash, m)
<1>1. /\ addr \in Nat /\ imageLen \in Nat /\ AREA_SIZE \in Nat
      /\ \A k \in Addrs : (Fits(k) /\ k < addr) => flash[k] = k
  BY ImageLenIsPositive, SizesAssumption DEF HostInv, DeviceInv, TypeOK, ProgrammedBelow
<1>2. \A k \in 0 .. m - 1 : k \in Addrs /\ Fits(k) /\ k < addr
  BY <1>1 DEF Fits, Addrs
<1> QED
  BY <1>1, <1>2, MappedState DEF Promise!Holds

\* The host is downloading and the address does not go back. It does not step
\* over the end of the area, and nothing is stored when it is behind it.
LEMMA StoreStep ==
    ASSUME HostInv, HostInv', UNCHANGED imageLen, hpc # "done", hpc' # "done",
           addr <= addr', \A k \in Addrs : k < addr => flash'[k] = flash[k],
           (TooLarge /\ addr < AREA_SIZE) => addr' <= AREA_SIZE
    PROVE  Promise!ANext
<1>1. /\ addr \in Nat /\ addr' \in Nat /\ imageLen \in Nat /\ AREA_SIZE \in Nat
      /\ flash \in [Addrs -> Cells] /\ flash' \in [Addrs -> Cells]
      /\ \A k \in Addrs : k \in Nat /\ k < AREA_SIZE
  BY ImageLenIsPositive, SizesAssumption DEF HostInv, DeviceInv, TypeOK, Addrs
<1>2. /\ Smaller(addr, imageLen) \in Nat /\ Smaller(addr', imageLen) \in Nat
      /\ Smaller(addr, imageLen) <= Smaller(addr', imageLen)
      /\ Smaller(addr', imageLen) <= imageLen
      /\ Smaller(addr, imageLen) <= addr /\ Smaller(addr', imageLen) <= addr'
      /\ Smaller(addr', imageLen) = Smaller(addr', imageLen')
  BY <1>1 DEF Smaller
<1>3. CASE Smaller(addr', imageLen) <= AREA_SIZE
  <2>1. Promise!KeepsCounted
    <3>1. \A k \in Addrs : k < Smaller(addr, imageLen) => k < addr
      BY <1>1, <1>2
    <3> QED
      BY <3>1, MappedState
  <2>2. Promise!Holds(flash', Smaller(addr', imageLen))
    <3>1. \A k \in Addrs : (Fits(k)' /\ k < addr') => flash'[k] = k
      BY DEF HostInv, DeviceInv, ProgrammedBelow, Addrs
    <3>2. \A k \in 0 .. Smaller(addr', imageLen) - 1 : k \in Addrs /\ Fits(k)' /\ k < addr'
      BY <1>1, <1>2, <1>3 DEF Fits, Addrs
    <3> QED
      BY <3>1, <3>2, MappedState DEF Promise!Holds
  <2>3. Promise!Store
    BY <1>2, <2>1, <2>2 DEF Promise!Store
  <2> QED
    BY <2>3 DEF Promise!ANext
<1>4. CASE Smaller(addr', imageLen) > AREA_SIZE
  <2>1. TooLarge /\ addr >= AREA_SIZE
    BY <1>1, <1>2, <1>4 DEF TooLarge
  <2>2. Smaller(addr, imageLen) >= AREA_SIZE
    BY <1>1, <2>1 DEF Smaller, TooLarge
  <2>3. flash' = flash
    <3>1. \A k \in Addrs : flash'[k] = flash[k]
      BY <1>1, <2>1
    <3> QED
      BY <1>1, <3>1
  <2>4. Promise!Refuse
    BY <1>2, <2>1, <2>2, <2>3 DEF Promise!Refuse, Promise!TooLarge, TooLarge
  <2> QED
    BY <2>4 DEF Promise!ANext
<1> QED
  BY <1>1, <1>2, <1>3, <1>4

\* The session, or the whole download, starts over.
LEMMA RestartStep ==
    ASSUME HostInv, HostInv', UNCHANGED imageLen, hpc' # "done",
           addr' = 0 \/ hpc = "done",
           hpc = "done" => UNCHANGED flash,
           \A k \in Addrs : k < addr => flash'[k] = flash[k]
    PROVE  Promise!ANext
<1>1. /\ addr \in Nat /\ addr' \in Nat /\ imageLen \in Nat
      /\ \A k \in Addrs : k \in Nat
  BY ImageLenIsPositive, SizesAssumption DEF HostInv, DeviceInv, TypeOK, Addrs
<1>2. Smaller(addr, imageLen) \in Nat /\ Smaller(addr, imageLen) <= addr
      /\ Smaller(addr', imageLen) \in 0 .. imageLen /\ Smaller(0, imageLen) = 0
  BY <1>1 DEF Smaller
<1>3. Promise!KeepsCounted
  <2>1. \A k \in Addrs : k < Smaller(addr, imageLen) => k < addr
    BY <1>1, <1>2
  <2> QED
    BY <2>1, MappedState
<1>4. Smaller(addr', imageLen') \in
         0 .. (IF hpc = "done" THEN imageLen ELSE Smaller(addr, imageLen))
  BY <1>1, <1>2
<1>5. Promise!Restart
  BY <1>3, <1>4 DEF Promise!Restart
<1> QED
  BY <1>5 DEF Promise!ANext

\* Nothing the promise speaks of changes.
LEMMA StutterStep ==
    ASSUME UNCHANGED <<imageLen, flash>>, hpc = "done", hpc' = "done"
    PROVE  UNCHANGED Promise!avars
  BY DEF Promise!avars

\* The manifestation ends a download that is stored.
LEMMA FinishStep ==
    ASSUME HostInv, UNCHANGED <<imageLen, flash>>, hpc = "manifest", hpc' = "done"
    PROVE  Promise!ANext
<1>1. addr \in Nat /\ imageLen \in Nat /\ addr >= imageLen
  BY ImageLenIsPositive DEF HostInv, DeviceInv, TypeOK, ReachedInv, AddrInv
<1>2. Smaller(addr, imageLen) = imageLen
  BY <1>1 DEF Smaller
<1>3. Promise!TooLarge \/ Promise!Holds(flash, imageLen)
  BY <1>1, HeldBelow, SizesAssumption DEF Promise!TooLarge
<1>4. Promise!Finish
  BY <1>2, <1>3 DEF Promise!Finish
<1> QED
  BY <1>4 DEF Promise!ANext

\* Nothing below the address is touched by any step.
LEMMA FlashBelowAddr ==
    ASSUME HostInv, HostNext
    PROVE  \A k \in Addrs : k < addr => flash'[k] = flash[k]
<1>1. /\ addr \in Nat /\ prog.off \in Nat /\ flash \in [Addrs -> Cells]
      /\ \A k \in Addrs : k \in Nat
  BY SizesAssumption DEF HostInv, DeviceInv, TypeOK, Addrs
<1>2. \A k \in Addrs : k < addr => k \notin EraseSpan /\ k \notin WriteSpan
  BY <1>1 DEF EraseSpan, WriteSpan
<1>3. \/ UNCHANGED flash
      \/ flash' = [k \in Addrs |-> IF k \in EraseSpan THEN Erased ELSE flash[k]]
      \/ flash' = [k \in Addrs |-> IF k \in EraseSpan THEN Torn ELSE flash[k]]
      \/ flash' = [k \in Addrs |-> IF k \in WriteSpan THEN Torn ELSE flash[k]]
      \/ flash' = [k \in Addrs |-> IF k \in WriteSpan THEN Programmed(k) ELSE flash[k]]
  <2>1. CASE SendAbort \/ SendBlock \/ SendEmpty \/ SendPoll \/ SendData
    BY <2>1 DEF SendAbort, SendBlock, SendEmpty, SendPoll, SendData, SetupOther, SetupDnload,
                DataOut, DataOutNull
  <2>2. CASE StatusNext
    BY <2>2 DEF StatusNext, StatusDnload, StatusGetStatusSync, StatusGetStatus, StatusToIdle,
                StatusRead
  <2>3. CASE UNCHANGED vars
    BY <2>3 DEF vars
  <2>4. CASE DeviceStep \/ DeviceFault
    BY <2>4 DEF DeviceStep, DeviceFault, FlashNext, EraseStep, WriteStep, WriteFault
  <2>5. CASE Enumerate \/ BusReset \/ (\E key \in BOOLEAN : UserPowerOn(key))
    BY <2>5 DEF Enumerate, BusReset, OnReset, UserPowerOn, PowerOn
  <2>6. CASE PowerLoss \/ PowerCycle
    BY <2>6 DEF PowerLoss, PowerCycle, PowerOff
  <2> QED
    BY <2>1, <2>2, <2>3, <2>4, <2>5, <2>6
       DEF HostNext, TransferDone, AnswerLost, TransferCut, RefusedTimeout, Again
<1> QED
  BY <1>2, <1>3
\* While the host is downloading, the address goes back only to the start of the
\* area; block_idx and addr are counted together.
LEMMA AddrNeverBack ==
    ASSUME HostInv,
           \/ SendAbort \/ SendBlock \/ SendEmpty \/ SendPoll \/ SendData
           \/ StatusNext \/ UNCHANGED vars \/ FlashNext \/ WriteFault
    PROVE  addr' = 0 \/ addr <= addr'
<1>1. addr \in Nat /\ buffer_size \in Nat
  BY DEF HostInv, DeviceInv, TypeOK
<1>2. addr' = addr \/ addr' = 0 \/ addr' = addr + buffer_size
  <2>1. CASE SendAbort \/ SendBlock \/ SendEmpty \/ SendPoll \/ SendData
    BY <2>1 DEF SendAbort, SendBlock, SendEmpty, SendPoll, SendData, SetupOther, SetupDnload,
                SessionAddr, DataOut, DataOutNull, ram
  <2>2. CASE StatusNext
    BY <2>2 DEF StatusNext, StatusDnload, StatusGetStatusSync, StatusGetStatus, StatusToIdle,
                StatusRead, BlockProgrammed, ram
  <2>3. CASE UNCHANGED vars
    BY <2>3 DEF vars
  <2>4. CASE FlashNext \/ WriteFault
    BY <2>4 DEF FlashNext, EraseStep, WriteStep, WriteFault, BlockProgrammed, ram
  <2> QED
    BY <2>1, <2>2, <2>3, <2>4
<1> QED
  BY <1>1, <1>2

\* The address of an image that is too large comes to the end of the area before
\* it goes beyond: a block is all inside or all beyond.
LEMMA AddrStopsAtEnd ==
    ASSUME HostInv, TooLarge, addr < AREA_SIZE,
           \/ SendAbort \/ SendBlock \/ SendEmpty \/ SendPoll \/ SendData
           \/ StatusNext \/ UNCHANGED vars \/ FlashNext \/ WriteFault
    PROVE  addr' <= AREA_SIZE
<1>1. /\ DeviceInv /\ addr \in Nat /\ imageLen \in Nat /\ AREA_SIZE \in Nat
      /\ addr < imageLen /\ buffer_size \in Nat
  BY ImageLenIsPositive, SizesAssumption DEF HostInv, DeviceInv, TypeOK, TooLarge
<1>2. CASE addr' = addr \/ addr' = 0
  BY <1>1, <1>2
<1>3. CASE StatusGetStatusSync
  <2>1. CASE InBounds(addr, ProgSize)
    <3>1. addr' = addr BY <1>3, <2>1 DEF StatusGetStatusSync, ram
    <3> QED BY <1>1, <3>1
  <2>2. CASE ~InBounds(addr, ProgSize)
    <3>1. \A k \in Addrs : Fits(k) => k < addr
      BY <1>1, <1>3, <2>2, NoRoom DEF StatusGetStatusSync
    <3>2. addr \in Addrs /\ Fits(addr)
      BY <1>1 DEF Addrs, Fits
    <3> QED
      BY <1>1, <3>1, <3>2
  <2> QED
    BY <2>1, <2>2
<1>4. CASE WriteStep
  <2>1. bState = "dfuDNLOAD_SYNC" /\ addr + ProgSize <= AREA_SIZE
    BY <1>1, <1>4 DEF WriteStep, DeviceInv, ProgInv
  <2>2. ProgSize = buffer_size
    BY <1>1, <2>1, InsideImage, ProgSizeFacts
  <2>3. addr' = addr \/ addr' = addr + buffer_size
    BY <1>4 DEF WriteStep, BlockProgrammed, ram
  <2> QED
    BY <1>1, <2>1, <2>2, <2>3
<1>5. \/ addr' = addr \/ addr' = 0 \/ StatusGetStatusSync \/ WriteStep
  <2>1. CASE SendAbort \/ SendBlock \/ SendEmpty \/ SendPoll \/ SendData
    BY <2>1 DEF SendAbort, SendBlock, SendEmpty, SendPoll, SendData, SetupOther, SetupDnload,
                SessionAddr, DataOut, DataOutNull, ram
  <2>2. CASE StatusNext
    BY <2>2 DEF StatusNext, StatusDnload, StatusGetStatus, StatusToIdle, StatusRead, ram
  <2>3. CASE UNCHANGED vars
    BY <2>3 DEF vars
  <2>4. CASE FlashNext \/ WriteFault
    BY <2>4 DEF FlashNext, EraseStep, WriteFault, ram
  <2> QED
    BY <2>1, <2>2, <2>3, <2>4
<1> QED
  BY <1>2, <1>3, <1>4, <1>5

\* The download is done when the host was told so, and then nothing is stored
\* until it starts over.
LEMMA DoneSteps ==
    ASSUME HostInv, [HostNext]_allvars, hpc' = "done"
    PROVE  UNCHANGED <<imageLen, flash>> /\ hpc \in {"manifest", "done"}
<1>0. hpc = "done" => ~wait /\ prog = NoProg /\ prog.pc = "none"
  BY DEF HostInv, TransferInv, ReachedInv, DeviceInv, ProgInv, HostTypeOK
<1>1. CASE SendAbort \/ SendBlock \/ SendEmpty \/ SendPoll \/ SendData
  BY <1>0, <1>1 DEF SendAbort, SendBlock, SendEmpty, SendPoll, SendData, Sends, hvars
<1>2. CASE TransferDone \/ AnswerLost \/ TransferCut \/ RefusedTimeout
  <2>1. wait /\ (StatusNext \/ UNCHANGED vars) /\ (Succeeds \/ Fails)
    BY <1>2 DEF TransferDone, AnswerLost, TransferCut, RefusedTimeout, Fails
  <2>2. hpc = "manifest" /\ UNCHANGED imageLen
    BY <1>0, <2>1 DEF Succeeds, Fails, GoTo
  <2>3. UNCHANGED flash
    BY <2>1 DEF vars, StatusNext, StatusDnload, StatusGetStatusSync, StatusGetStatus,
                StatusToIdle, StatusRead
  <2> QED
    BY <2>2, <2>3
<1>3. CASE DeviceStep \/ DeviceFault
  BY <1>0, <1>3 DEF DeviceStep, DeviceFault, FlashNext, EraseStep, WriteStep, WriteFault, hvars
<1>4. CASE Enumerate \/ BusReset \/ PowerLoss \/ PowerCycle \/ Again
           \/ (\E key \in BOOLEAN : UserPowerOn(key))
  <2>1. hpc = "done" /\ UNCHANGED imageLen
    BY <1>4 DEF Enumerate, BusReset, PowerLoss, PowerCycle, Again, UserPowerOn, GoTo, hvars, Unplugged
  <2>2. UNCHANGED flash
    BY <1>0, <1>4, <2>1 DEF Enumerate, BusReset, PowerLoss, PowerCycle, Again, UserPowerOn, OnReset,
                            PowerOff, PowerOn, vars
  <2> QED
    BY <2>1, <2>2
<1>5. CASE UNCHANGED allvars
  <2>1. UNCHANGED <<imageLen, flash, hpc>> BY <1>5 DEF allvars, vars, hvars
  <2> QED BY <2>1
<1> QED
  BY <1>1, <1>2, <1>3, <1>4, <1>5 DEF HostNext

\* Every step of the download is one of the promise, or changes nothing it
\* speaks of.
LEMMA StepsImplement ==
    ASSUME HostInv, HostInv', [HostNext]_allvars
    PROVE  [Promise!ANext]_(Promise!avars)
<1>0. hpc = "done" => ~wait /\ prog = NoProg /\ prog.pc = "none"
  BY DEF HostInv, TransferInv, ReachedInv, DeviceInv, ProgInv, HostTypeOK
<1>1. ASSUME HostNext, hpc # "done", hpc' # "done", UNCHANGED imageLen, addr' = 0 \/ addr <= addr',
             (TooLarge /\ addr < AREA_SIZE) => addr' <= AREA_SIZE
      PROVE  Promise!ANext
  <2>1. \A k \in Addrs : k < addr => flash'[k] = flash[k]
    BY <1>1, FlashBelowAddr
  <2> QED
    BY <1>1, <2>1, StoreStep, RestartStep
<1>2. CASE SendAbort \/ SendBlock \/ SendEmpty \/ SendPoll \/ SendData
  <2>1. HostNext /\ UNCHANGED <<imageLen, hpc>> /\ hpc # "done"
    BY <1>0, <1>2 DEF HostNext, SendAbort, SendBlock, SendEmpty, SendPoll, SendData, Sends, hvars
  <2> QED
    BY <1>1, <1>2, <2>1, AddrNeverBack, AddrStopsAtEnd, DoneSteps
<1>3. CASE TransferDone \/ AnswerLost \/ TransferCut \/ RefusedTimeout
  <2>1. /\ HostNext /\ wait /\ (StatusNext \/ UNCHANGED vars) /\ (Succeeds \/ Fails)
        /\ UNCHANGED imageLen /\ hpc # "done"
    BY <1>0, <1>3 DEF HostNext, TransferDone, AnswerLost, TransferCut, RefusedTimeout, Succeeds,
                      Fails, GoTo
  <2>2. CASE hpc' # "done"
    BY <1>1, <2>1, <2>2, AddrNeverBack, AddrStopsAtEnd
  <2>3. CASE hpc' = "done"
    <3>1. hpc = "manifest" /\ UNCHANGED flash
      BY <2>1, <2>3, DoneSteps
    <3> QED
      BY <2>1, <2>3, <3>1, FinishStep
  <2> QED
    BY <2>2, <2>3
<1>4. CASE DeviceStep \/ DeviceFault
  <2>1. HostNext /\ UNCHANGED <<imageLen, hpc>> /\ hpc # "done" /\ (FlashNext \/ WriteFault)
    BY <1>0, <1>4 DEF HostNext, DeviceStep, DeviceFault, FlashNext, EraseStep, WriteStep, WriteFault,
                      hvars
  <2> QED
    BY <1>1, <2>1, AddrNeverBack, AddrStopsAtEnd
<1>5. CASE Enumerate \/ BusReset \/ PowerLoss \/ PowerCycle \/ Again
           \/ (\E key \in BOOLEAN : UserPowerOn(key))
  <2>1. HostNext /\ UNCHANGED imageLen
    BY <1>5 DEF HostNext, Enumerate, BusReset, PowerLoss, PowerCycle, Again, UserPowerOn, GoTo,
                hvars, Unplugged
  <2>2. hpc' = "done" => hpc = "done"
    BY <1>5 DEF Enumerate, BusReset, PowerLoss, PowerCycle, Again, UserPowerOn, GoTo, hvars, Unplugged
  <2>3. hpc = "done" => UNCHANGED flash
    BY <1>0, <1>5 DEF Enumerate, BusReset, PowerLoss, PowerCycle, Again, UserPowerOn, OnReset,
                      PowerOff, PowerOn, vars
  <2>4. addr' = 0 \/ hpc = "done"
    BY <1>5 DEF Enumerate, BusReset, PowerLoss, PowerCycle, Again, UserPowerOn, OnReset,
                PowerOff, PowerOn, RamCleared
  <2>5. \A k \in Addrs : k < addr => flash'[k] = flash[k]
    BY <2>1, FlashBelowAddr
  <2>6. CASE hpc' # "done"
    BY <2>1, <2>3, <2>4, <2>5, <2>6, RestartStep
  <2>7. CASE hpc' = "done"
    BY <2>1, <2>2, <2>3, <2>7, StutterStep
  <2> QED
    BY <2>6, <2>7
<1>6. CASE UNCHANGED allvars
  BY <1>6 DEF allvars, vars, hvars, Promise!avars
<1> QED
  BY <1>2, <1>3, <1>4, <1>5, <1>6 DEF HostNext

(* ----------------------------- theorems ------------------------------- *)

\* Once the host was told that the download is complete, what the area has room for
\* is stored. An invariant of the same steps as HostInv.
DoneInv == hpc = "done" => \A k \in Addrs : Fits(k) => flash[k] = k

LEMMA DoneInvNext == HostInv /\ DoneInv /\ [HostNext]_allvars => DoneInv'
<1> SUFFICES ASSUME HostInv, DoneInv, [HostNext]_allvars, hpc' = "done"
             PROVE  \A k \in Addrs : Fits(k)' => flash'[k] = k
  BY DEF DoneInv, Addrs
<1>1. UNCHANGED <<imageLen, flash>> /\ hpc \in {"manifest", "done"}
  BY DoneSteps
<1>2. hpc = "manifest" => addr >= imageLen
  BY DEF HostInv, DeviceInv, ReachedInv, AddrInv
<1>3. addr \in Nat /\ imageLen \in Nat /\ \A k \in Addrs : k \in Nat
  BY ImageLenIsPositive, SizesAssumption DEF HostInv, DeviceInv, TypeOK, Addrs
<1>4. \A k \in Addrs : Fits(k) => flash[k] = k
  BY <1>1, <1>2, <1>3 DEF DoneInv, HostInv, DeviceInv, ProgrammedBelow, Fits
<1> QED
  BY <1>1, <1>4 DEF Fits

\* Whatever answers are lost, transfers cut off, resets and power failures a
\* download meets, and however often it starts over: of an image that fits in the
\* area, every byte the device counts is in the flash, and all of them are when
\* completion is reported; of a larger one, every byte the area has room for. For
\* every image length, also one that ends in a short block, and every page, word
\* and transfer size (vsf_usbd_notify_user, usrapp_flash_erase_write).
THEOREM HostDownloadedIsProgrammed == HostSpec => []DownloadedIsProgrammed
<1>1. HostInit => DoneInv
  BY DEF HostInit, DoneInv
<1>2. HostInv /\ DoneInv => DownloadedIsProgrammed
  <2> SUFFICES ASSUME HostInv, DoneInv PROVE DownloadedIsProgrammed
    OBVIOUS
  <2>1. addr \in Nat /\ imageLen \in Nat /\ AREA_SIZE \in Nat
    BY ImageLenIsPositive, SizesAssumption DEF HostInv, DeviceInv, TypeOK
  <2>2. ASSUME NEW k \in Addrs, k < imageLen, Counted(k) PROVE Stored(k)
    BY <2>1, <2>2 DEF Counted, Stored, Fits, Addrs, DoneInv, HostInv, DeviceInv, ProgrammedBelow
  <2>3. \A k \in Image : k < imageLen /\ (~TooLarge => k \in Addrs)
    BY <2>1 DEF Image, TooLarge, Addrs
  <2> QED
    BY <2>2, <2>3 DEF DownloadedIsProgrammed
<1> QED
  BY <1>1, <1>2, DoneInvNext, HostInvariance, PTL DEF HostSpec

\* The host never waits for a block the device is not at: after any faults, the
\* device is at the host's block or one past it, or past the image.
THEOREM HostBlocksAgree == HostSpec => []BlocksAgree
<1>1. HostInv => BlocksAgree
  <2> SUFFICES ASSUME HostInv PROVE BlocksAgree
    OBVIOUS
  <2>1. NBlocks \in Nat \ {0} /\ n \in Nat /\ block_idx \in Nat
    BY NBlocksFacts DEF HostInv, DeviceInv, HostTypeOK, TypeOK
  <2>2. hpc \in {"final", "manifest"} => block_idx >= n
    BY <2>1 DEF HostInv, ReachedInv, PlaceInv
  <2>3. hpc = "poll" => block_idx >= n /\ (n + 1 < NBlocks => block_idx <= n + 1)
    BY <2>1 DEF HostInv, ReachedInv, DeviceAt
  <2>4. (hpc = "dnload" /\ n > 0) => block_idx >= n /\ (n + 1 < NBlocks => block_idx <= n + 1)
    BY <2>1 DEF HostInv, ReachedInv, DeviceAt
  <2>5. n \in 1 .. NBlocks - 2 => n > 0 /\ n + 1 < NBlocks
    BY <2>1
  <2> QED
    BY <2>2, <2>3, <2>4, <2>5 DEF BlocksAgree
<1> QED
  BY <1>1, HostInvariance, PTL

\* Although the last block of an image may be short and is programmed again when
\* it is sent again, no download ever erases or programs outside the area.
THEOREM HostStaysInArea == HostSpec => []StaysInArea
<1>1. HostInv => StaysInArea
  <2> SUFFICES ASSUME HostInv PROVE StaysInArea
    OBVIOUS
  <2>1. /\ addr \in Nat /\ prog.off \in Nat /\ AREA_SIZE \in Nat
        /\ ERASE_OP \in Nat \ {0} /\ WRITE_OP \in Nat \ {0} /\ AREA_SIZE % ERASE_OP = 0
    BY SizesAssumption DEF HostInv, DeviceInv, TypeOK
  <2>2. ASSUME prog.pc # "none"
        PROVE  ProgSize \in Nat /\ 0 < ProgSize /\ addr + ProgSize <= AREA_SIZE
    BY <2>2, ProgSizeFacts DEF HostInv, DeviceInv, ProgInv
  <2>3. ASSUME prog.pc = "erase" PROVE addr + prog.off + ERASE_OP <= AREA_SIZE
    <3>1. prog.off = 0 /\ addr % ERASE_OP = 0 /\ addr < AREA_SIZE
      BY <2>1, <2>2, <2>3 DEF HostInv, DeviceInv, ProgInv
    <3>2. addr + ERASE_OP <= AREA_SIZE
      BY <2>1, <3>1, RoomForAnother
    <3> QED
      BY <2>1, <3>1, <3>2
  <2>4. ASSUME prog.pc = "write", addr % WRITE_OP = 0
        PROVE  addr + prog.off + WRITE_OP <= AREA_SIZE
    <3>1. prog.off % WRITE_OP = 0 /\ prog.off < ProgSize
      BY <2>4 DEF HostInv, DeviceInv, ProgInv, WriteInv
    <3>2. (addr + prog.off) % WRITE_OP = 0
      <4>1. PICK q \in Nat : addr = q * WRITE_OP
        BY <2>1, <2>4, MultipleOf
      <4>2. PICK r \in Nat : prog.off = r * WRITE_OP
        BY <2>1, <3>1, MultipleOf
      <4>3. addr + prog.off = (q + r) * WRITE_OP
        BY <2>1, <4>1, <4>2, SMT
      <4> QED
        BY <2>1, <4>3, MultipleMod, q + r \in Nat
    <3>3. AREA_SIZE % WRITE_OP = 0
      BY MultipleTrans, SizesAssumption
    <3>4. addr + prog.off < AREA_SIZE /\ addr + prog.off \in Nat
      BY <2>1, <2>2, <2>4, <3>1
    <3> QED
      BY <2>1, <3>2, <3>3, <3>4, RoomForAnother
  <2> QED
    BY <2>3, <2>4 DEF StaysInArea
<1> QED
  BY <1>1, HostInvariance, PTL

\* A download over a lossy bus to a device that may lose power does what
\* FirmwareImage promises. Of an image that fits, bytes are counted only once they
\* are stored, counted bytes stay untouched, and completion is reported only when
\* all are stored; of a larger one, the same of the bytes there is room for, and the
\* rest is counted in steps of its own that store nothing (Refuse).
THEOREM HostImplementsPromise == HostSpec => ImplementsPromise
<1>1. HostInit => Promise!AInit
  <2> SUFFICES ASSUME HostInit PROVE Promise!AInit
    OBVIOUS
  <2>1. imageLen \in Nat \ {0}
    BY ImageLenIsPositive DEF HostInit
  <2>2. hpc = "idle" /\ Smaller(addr, imageLen) = 0
    BY <2>1 DEF HostInit, Init, Smaller
  <2> QED
    BY <2>2 DEF Promise!AInit
<1>2. HostInv /\ HostInv' /\ [HostNext]_allvars => [Promise!ANext]_(Promise!avars)
  BY StepsImplement
<1> QED
  BY <1>1, <1>2, HostInvariance, PTL DEF HostSpec, ImplementsPromise, Promise!ASpec
=============================================================================
