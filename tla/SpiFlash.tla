------------------------------ MODULE SpiFlash ------------------------------
(***************************************************************************)
(* SPITTDevice: reads and writes of a board's SPI flash by one process.    *)
(* The flash is reached through the ARC firmware, which moves a chunk      *)
(* between the flash and a dump buffer for one message; Wormhole unlocks   *)
(* and locks the flash itself, through the SPI controller's registers.     *)
(* Firmware, controller and flash are external.  A message executes or     *)
(* not, and is answered with exit code 0, another one, or not at all, when *)
(* the messenger throws; an access to the controller's registers may throw *)
(* too.  A loop on the controller's busy bit that never ends is a          *)
(* behaviour that stops there: no fairness is assumed.                     *)
(***************************************************************************)
EXTENDS FirmwareInfo

CONSTANTS
    ROM,            \* SPI_ROM_SIZE, in bytes of the model
    CHUNK,          \* ARC_SPI_CHUNK_SIZE, and Blackhole's buffer size
    Boards,         \* records [arch, version, simple, arcclk]
    Operations,     \* records [kind, addr, data, skip]
    MaxFaults       \* messages and accesses that go wrong in one operation

VARIABLES board, flash, op, faults

spiVars == <<board, flash, op, faults>>

Bytes == 0..(ROM - 1)
OpSize == Len(op.what.data)
Wormhole == board.arch = "WORMHOLE_B0"

----------------------------------------------------------------------------
(* Pure parts.                                                             *)

\* The divisor as the code computes it: ceil(arcclk / 20), made even.  <<>>
\* where the firmware is too old to be asked.
get_clock(version, arcclk) ==
    LET div == (arcclk + 19) \div 20
    IN  IF Before(version, V(18, 7, 0)) THEN <<>> ELSE <<div + (div % 2)>>

RoundDownOnly(addr, size, chunk) ==
    [start |-> (addr \div chunk) * chunk, chunks |-> ((addr + size) \div chunk) - (addr \div chunk),
     offset |-> addr % chunk]                                            \* mutant

get_aligned_params(addr, size, chunk) ==
    LET start == (addr \div chunk) * chunk
        end == ((addr + size + chunk - 1) \div chunk) * chunk
    IN  [start |-> start, chunks |-> (end - start) \div chunk, offset |-> addr - start]

\* The chunks of an operation: Wormhole moves whole aligned chunks, Blackhole
\* starts at the address and stops at the end.
Chunks ==
    IF Wormhole THEN get_aligned_params(op.what.addr, OpSize, CHUNK).chunks
    ELSE (OpSize + CHUNK - 1) \div CHUNK

\* Chunk k: where it is in the flash and how long, which bytes of the buffer
\* are the caller's, and the first of the caller's bytes it carries.
WormholePart(k) ==
    LET a == get_aligned_params(op.what.addr, OpSize, CHUNK)
        offset == k * CHUNK
        skip == IF offset < a.offset THEN a.offset - offset ELSE 0
        from == IF offset < a.offset THEN 0 ELSE offset - a.offset
    IN  [addr |-> a.start + offset, len |-> CHUNK, skip |-> skip, from |-> from,
         n |-> Min({CHUNK - skip, OpSize - from})]
BlackholePart(k) ==
    LET n == Min({CHUNK, OpSize - k * CHUNK})
    IN  [addr |-> op.what.addr + k * CHUNK, len |-> n, skip |-> 0, from |-> k * CHUNK, n |-> n]
Part(k) == IF Wormhole THEN WormholePart(k) ELSE BlackholePart(k)
Mine(part, i) == i > part.skip /\ i <= part.skip + part.n

\* The status register lock() writes; 0 sections unlock.
LockWord(simple, sections) ==
    IF simple THEN 64 + 4 * sections
    ELSE IF sections < 5 THEN 96 + 4 * sections ELSE 32 + 4 * (sections - 5)

\* External: which flash parts the boards carry, and so how wide the field is.
Protects(simple, word) == (word \div 4) % (IF simple THEN 16 ELSE 8) # 0
Protected == IF Wormhole THEN Protects(board.simple, flash.status) ELSE flash.status # 0

BH_SPI_LOCK_REQUIRED_SINCE_FW == V(19, 0, 0)
need_lock_unlock == AtLeast(board.version, BH_SPI_LOCK_REQUIRED_SINCE_FW) /\ ~op.what.skip

----------------------------------------------------------------------------
(* The operation under way.  buf is the chunk buffer of the call, got what *)
(* a read has so far; ignored tells that an exit code other than zero was  *)
(* not looked at, thrown that a message threw, open that an access threw   *)
(* between the unlock and the end of the relock; want is what the flash is *)
(* to hold after a write.                                                  *)

NoOp == [pc |-> "idle", chunk |-> 0]
Start(o) ==
    [pc |-> "check", what |-> o, chunk |-> 0, buf |-> <<>>, got |-> <<>>, out |-> "none",
     ignored |-> FALSE, thrown |-> FALSE, open |-> FALSE, relocked |-> TRUE, guarded |-> Protected,
     want |-> [i \in Bytes |-> IF i \in o.addr .. (o.addr + Len(o.data) - 1)
                               THEN o.data[i - o.addr + 1] ELSE flash.bytes[i]]]

SpiInit ==
    /\ board = [arch |-> "none"]
    /\ flash = [bytes |-> [i \in Bytes |-> 10 + i], status |-> 0, controller |-> FALSE,
                dump |-> [i \in 1..CHUNK |-> 9], last |-> 0]
    /\ op = NoOp /\ faults = 0

OpenBoard ==
    /\ board.arch = "none"
    /\ \E b \in Boards :
          /\ board' = b
          /\ flash' = [flash EXCEPT !.status =
                 IF b.arch = "WORMHOLE_B0" THEN LockWord(b.simple, 8)
                 ELSE IF AtLeast(b.version, BH_SPI_LOCK_REQUIRED_SINCE_FW) THEN 1 ELSE 0]
    /\ UNCHANGED <<op, faults>>

OpGoto(to) == op' = [op EXCEPT !.pc = to]
OpAt(pc) == op.pc = pc
LeaveOp(out) == op' = [op EXCEPT !.pc = "left", !.out = out]

\* One message: what it does to the flash when it executes, and what the
\* caller does after exit code 0, after another one, and when it throws.
Message(effect, ok, rc, throws) ==
    \/ /\ flash' = effect /\ op' = ok /\ UNCHANGED faults
    \/ /\ faults < MaxFaults /\ faults' = faults + 1
       /\ \/ UNCHANGED flash /\ op' = rc
          \/ flash' \in {flash, effect} /\ op' = throws

\* ARC messages that touch the flash leave the controller disabled.
Loaded(part) == [flash EXCEPT !.controller = FALSE, !.last = part.addr,
    !.dump = [i \in 1..CHUNK |-> IF i <= part.len THEN flash.bytes[part.addr + i - 1] ELSE @[i]]]
Committed(addr, len) == [flash EXCEPT !.controller = FALSE,
    !.bytes = [i \in Bytes |-> IF ~Protected /\ i \in addr .. (addr + len - 1)
                               THEN flash.dump[i - addr + 1] ELSE @[i]]]

----------------------------------------------------------------------------
(* Actions.                                                                *)

\* Nothing but the Wormhole read checks that the transfer is in the flash;
\* the others are called with transfers that are.
BeginTransfer ==
    /\ board.arch # "none" /\ OpAt("idle")
    /\ \E o \in Operations :
          /\ o.addr + Len(o.data) <= ROM \/ (Wormhole /\ o.kind = "read")
          /\ op' = Start(o)
    /\ faults' = 0
    /\ UNCHANGED <<board, flash>>

\* The clock is asked for before anything is touched.
CheckTransfer ==
    /\ OpAt("check")
    /\ LET o == op.what
       IN  \/ /\ Wormhole /\ o.kind = "read" /\ o.addr + OpSize > ROM /\ LeaveOp("throw")
           \/ /\ ~(Wormhole /\ o.kind = "read" /\ o.addr + OpSize > ROM)
              /\ IF OpSize = 0 THEN LeaveOp("done")
                 ELSE IF ~Wormhole
                 THEN OpGoto(IF o.kind = "read" THEN "load" ELSE IF need_lock_unlock THEN "bhUnlock" ELSE "store")
                 ELSE IF o.kind = "read" THEN OpGoto("dumpAddr")
                 ELSE IF get_clock(board.version, board.arcclk) = <<>> THEN LeaveOp("throw") ELSE OpGoto("init1")
    /\ UNCHANGED <<board, flash, faults>>

\* A sequence of register accesses.  One that throws leaves write(): at once
\* from the sequences before the try, after the rethrow from those of the relock.
Registers(from, to, effect) ==
    /\ OpAt(from)
    /\ \/ OpGoto(to) /\ flash' = effect /\ UNCHANGED faults
       \/ /\ faults < MaxFaults /\ faults' = faults + 1 /\ flash' \in {flash, effect}
          /\ op' = [op EXCEPT !.pc = "left", !.out = "throw", !.open = from \in {"unlock", "disable1", "init2", "lock"}]
    /\ UNCHANGED board
init(from, to) == Registers(from, to, [flash EXCEPT !.controller = TRUE])
disable(from, to) == Registers(from, to, [flash EXCEPT !.controller = FALSE])
\* The commands reach the flash while the controller is enabled.
lock(from, sections, to) ==
    Registers(from, to, [flash EXCEPT !.status = IF flash.controller THEN LockWord(board.simple, sections) ELSE @])

\* The rest of the Wormhole write is in a try: what it throws, the relock
\* comes first.
NoInitBeforeLock == IF ~Wormhole \/ op.what.kind = "read" THEN "left" ELSE "lock"    \* mutant
AfterThrow == IF ~Wormhole \/ op.what.kind = "read" THEN "left" ELSE "init2"
Thrown == [op EXCEPT !.pc = AfterThrow, !.out = "throw", !.thrown = TRUE]
Failed == [op EXCEPT !.pc = AfterThrow, !.out = "throw"]

GetDumpAddr ==
    /\ OpAt("dumpAddr")
    /\ Message(flash, [op EXCEPT !.pc = "load"], Failed, Thrown)
    /\ UNCHANGED board

\* SPI_READ or READ_EEPROM; Wormhole does not look at the exit code.
Load ==
    /\ OpAt("load")
    /\ LET ok == [op EXCEPT !.pc = "fetch"]
       IN  Message(Loaded(Part(op.chunk)), ok,
                   IF Wormhole THEN [ok EXCEPT !.ignored = TRUE] ELSE Failed, Thrown)
    /\ UNCHANGED board

\* The next chunk, or the end of the loop.
Further(o, pc, last) ==
    IF o.chunk + 1 < Chunks THEN [o EXCEPT !.pc = pc, !.chunk = o.chunk + 1]
    ELSE [o EXCEPT !.pc = last, !.out = IF last = "left" THEN "done" ELSE o.out]
WriteEnd == IF Wormhole THEN "init2" ELSE IF need_lock_unlock THEN "bhLock" ELSE "left"

\* The chunk is read from the dump buffer: a read copies its part, a write
\* puts its own bytes in and goes on when nothing changed.
Fetch ==
    /\ OpAt("fetch")
    /\ LET part == Part(op.chunk)
           mine == [i \in 1..part.n |-> flash.dump[part.skip + i]]
           new == [i \in 1..CHUNK |-> IF Mine(part, i) THEN op.what.data[part.from + i - part.skip]
                                      ELSE flash.dump[i]]
       IN  IF op.what.kind = "read" THEN op' = Further([op EXCEPT !.got = @ \o mine], "load", "left")
           ELSE IF new = flash.dump THEN op' = Further(op, "load", WriteEnd)
           ELSE op' = [op EXCEPT !.pc = "store", !.buf = new]
    /\ UNCHANGED <<board, flash, faults>>

\* The buffer is written; skip_write_to_spi stops there.
Store ==
    /\ OpAt("store")
    /\ LET part == Part(op.chunk)
       IN  flash' = [flash EXCEPT !.dump = IF Wormhole THEN op.buf
               ELSE [i \in 1..CHUNK |-> IF i <= part.n THEN op.what.data[part.from + i] ELSE @[i]]]
    /\ op' = IF op.what.skip THEN Further(op, IF Wormhole THEN "load" ELSE "store", WriteEnd)
             ELSE [op EXCEPT !.pc = "commit"]
    /\ UNCHANGED <<board, faults>>

\* SPI_WRITE, to the chunk read last, and its exit code is not looked at;
\* WRITE_EEPROM, to its own address, and a failure locks the flash again.
BhWriteFailed == [op EXCEPT !.out = "throw", !.pc = IF need_lock_unlock THEN "bhLock" ELSE "left"]
Commit ==
    /\ OpAt("commit")
    /\ LET part == Part(op.chunk)
       IN  IF Wormhole
           THEN LET ok == Further(op, "load", WriteEnd)
                IN  Message(Committed(flash.last, CHUNK), ok, [ok EXCEPT !.ignored = TRUE], Thrown)
           ELSE Message(Committed(part.addr, part.n), Further(op, "store", WriteEnd), BhWriteFailed, Thrown)
    /\ UNCHANGED board

BhUnlock ==
    /\ OpAt("bhUnlock")
    /\ Message([flash EXCEPT !.status = 0], [op EXCEPT !.pc = "store"], Failed, Thrown)
    /\ UNCHANGED board

BhLock ==
    /\ OpAt("bhLock")
    /\ LET end == [op EXCEPT !.pc = "left", !.out = IF @ = "throw" THEN @ ELSE "done"]
       IN  Message([flash EXCEPT !.status = 1], end, [Failed EXCEPT !.relocked = FALSE],
                   [Thrown EXCEPT !.relocked = FALSE])
    /\ UNCHANGED board

Finish ==
    /\ OpAt("finish")
    /\ op' = [op EXCEPT !.pc = "left", !.out = IF @ = "throw" THEN @ ELSE "done"]
    /\ UNCHANGED <<board, flash, faults>>

WormholeRegisters ==
    \/ init("init1", "unlock") \/ lock("unlock", 0, "disable1") \/ disable("disable1", "dumpAddr")
    \/ init("init2", "lock") \/ lock("lock", 8, "disable2") \/ disable("disable2", "finish")

SpiNext ==
    \/ OpenBoard \/ BeginTransfer \/ CheckTransfer \/ WormholeRegisters \/ GetDumpAddr \/ Load \/ Fetch \/ Store
    \/ Commit \/ BhUnlock \/ BhLock \/ Finish

----------------------------------------------------------------------------
(* Properties.                                                             *)

\* A transfer that returned moved exactly the bytes asked for: a read returns
\* what the flash holds, a write leaves the flash with the caller's bytes and
\* every other byte as it was; unless Wormhole passed over an exit code.
\* (read and write of wormhole_spi_tt_device.cpp and blackhole_spi_tt_device.cpp)
SpiTransferExact ==
    (OpAt("left") /\ op.out = "done" /\ ~op.ignored) =>
        IF op.what.kind = "write"
        THEN op.what.skip \/ flash.bytes = op.want
        ELSE op.got = [i \in 1..OpSize |-> flash.bytes[op.what.addr + i - 1]]

\* However a transfer ends, a flash that was write-protected is so again.
\* Wormhole leaves it open when an access to the controller throws after the
\* unlock, disable() before the try included, or in the relock; Blackhole when a
\* message throws or its last SPI_LOCK fails.
SpiRelocked ==
    (OpAt("left") /\ op.guarded /\ (IF Wormhole THEN ~op.open ELSE ~op.thrown /\ op.relocked)) => Protected
=============================================================================
