------------------------ MODULE RemoteCommunication ------------------------
(***************************************************************************)
(* Reads and writes of Wormhole chips that are not on PCIe                 *)
(* (RemoteCommunicationLegacyFirmware): the host puts commands into the    *)
(* request rings of the ethernet cores of an MMIO chip and takes read data *)
(* from their response rings.  A call holds the cross-process NON_MMIO     *)
(* lock of the MMIO chip from its first access to the cores to its last;   *)
(* wait_for_non_mmio_flush does not.  An instance of the class stands for  *)
(* one remote chip in one process; several share the cores and the buffers.*)
(***************************************************************************)
EXTENDS Ring, Sequences

CONSTANTS
  Thread, Instance,
  InstanceOf,   \* [Thread -> Instance]
  NumCores,     \* number of remote_transfer_eth_cores_
  HostDram,     \* TRUE: system memory is available for block transfers
  MaxBlocks,    \* bound on the number of blocks transferred
  MaxCallBlocks,\* bound on the blocks of one call
  Faults,       \* which of "timeout" and "crash" may happen
  Origins       \* request pointers that earlier transfers may have left

ASSUME RemoteAssumption ==
  /\ InstanceOf \in [Thread -> Instance]
  /\ NumCores \in Nat \ {0}
  /\ HostDram \in BOOLEAN
  /\ MaxBlocks \in Nat /\ MaxCallBlocks \in Nat \ {0}
  /\ Faults \subseteq {"timeout", "crash"}
  /\ Origins \subseteq Pointer

Core == 0 .. NumCores - 1
Block == 1 .. MaxBlocks
Modes == {"word", "block", "dram"}

(* A block travels in the command itself, through a buffer of the core, or *)
(* through host memory; its number stands for its data.                    *)
Command == [type : {"write", "read"}, block : Block, by : Thread,
            mode : Modes, addr : 0 .. NumCores * Size - 1]
NoCommand == [type |-> "none"]
NoFlags == "none"

(* The local variables of a call: its type, whether it uses host DRAM and  *)
(* how many blocks are left; the block under way and how it travels;       *)
(* erisc_q_ptrs[0], erisc_q_rptr[0] and erisc_resp_q_rptr[0]; the data     *)
(* the last read block delivered; the core a flush is looking at.          *)
Frame == [type : {"write", "read"}, dram : BOOLEAN, left : 0 .. MaxCallBlocks,
          block : 0 .. MaxBlocks, mode : Modes,
          wptr : Pointer, rptr : Pointer, respRptr : Pointer,
          got : 0 .. MaxBlocks, scan : Core]
NoFrame == [type |-> "write", dram |-> FALSE, left |-> 0, block |-> 0, mode |-> "word",
            wptr |-> 0, rptr |-> 0, respRptr |-> 0, got |-> 0, scan |-> 0]

VARIABLES
  holders,  \* the thread that has the NON_MMIO lock
  pc,       \* where each thread is
  frame,    \* the local variables of its call
  issued,   \* blocks handed out so far
  active,   \* active_eth_core_idx of each instance
  flush,    \* flush_non_mmio_ of each instance
  reqWptr, reqRptr, reqEntry,     \* request ring of each core
  respWptr, respRptr, respEntry,  \* response ring of each core
  reading,  \* the read a core is working on
  unacked,  \* writes a core has sent and not seen acknowledged
  host, buffer  \* ETH routing buffers in host memory and on the cores

callVars == <<holders, pc, frame, issued>>
instanceVars == <<active, flush>>
requestVars == <<reqWptr, reqRptr, reqEntry>>
responseVars == <<respWptr, respRptr, respEntry>>
coreVars == <<requestVars, responseVars, reading, unacked>>
bufferVars == <<host, buffer>>
vars == <<callVars, instanceVars, coreVars, bufferVars>>

Lock == INSTANCE AbstractLock

ActiveCore(t) == active[InstanceOf[t]]

(* Mutant: the ring counts as full only once the write pointer has wrapped.*)
CmdQFullLate(w, r) == w # r /\ w % Size = r % Size /\ w < r

(* is_non_mmio_cmd_q_full.                                                 *)
CmdQFull(w, r) == w # r /\ w % Size = r % Size

LockedLabels == {"locked", "filling", "stored", "commanded", "published",
                 "awaiting", "flagging", "taking", "advancing", "mismatch",
                 "returning"}
FlushLabels == {"draining", "acking", "clearing", "flushed"}

TypeOK ==
  /\ holders \in SUBSET Thread
  /\ pc \in [Thread -> {"idle"} \cup LockedLabels \cup FlushLabels]
  /\ frame \in [Thread -> Frame] /\ issued \in 0 .. MaxBlocks
  /\ active \in [Instance -> Core] /\ flush \in [Instance -> BOOLEAN]
  /\ reqWptr \in [Core -> Pointer] /\ reqRptr \in [Core -> Pointer]
  /\ reqEntry \in [Core -> [Slot -> Command \cup {NoCommand}]]
  /\ respWptr \in [Core -> Pointer] /\ respRptr \in [Core -> Pointer]
  /\ respEntry \in [Core -> [Slot -> [flags : Modes \cup {NoFlags}, data : 0 .. MaxBlocks]]]
  /\ reading \in [Core -> Command \cup {NoCommand}]
  /\ unacked \in [Core -> SUBSET Command]
  /\ host \in [0 .. NumCores * Size - 1 -> 0 .. MaxBlocks]
  /\ buffer \in [Core -> [Slot -> 0 .. MaxBlocks]]

Init ==
  /\ holders = {}
  /\ pc = [t \in Thread |-> "idle"]
  /\ frame = [t \in Thread |-> NoFrame] /\ issued = 0
  /\ active = [i \in Instance |-> 0] /\ flush = [i \in Instance |-> FALSE]
  /\ reqWptr \in [Core -> Origins] /\ reqRptr = reqWptr
  /\ reqEntry = [c \in Core |-> [s \in Slot |-> NoCommand]]
  /\ respWptr = [c \in Core |-> 0] /\ respRptr = [c \in Core |-> 0]
  /\ respEntry = [c \in Core |-> [s \in Slot |-> [flags |-> NoFlags, data |-> 0]]]
  /\ reading = [c \in Core |-> NoCommand]
  /\ unacked = [c \in Core |-> {}]
  /\ host = [s \in 0 .. NumCores * Size - 1 |-> 0]
  /\ buffer = [c \in Core |-> [s \in Slot |-> 0]]

Goto(t, label) == pc' = [pc EXCEPT ![t] = label]
At(t, label) == pc[t] = label

(* The call ends, by returning or by throwing, and the lock is given back. *)
End(t) ==
  /\ Goto(t, "idle")
  /\ frame' = [frame EXCEPT ![t] = NoFrame]
  /\ Lock!Leave(t)

-----------------------------------------------------------------------------
(* read_non_mmio and write_to_non_mmio: a call of n blocks                 *)

Start(t, type, dram, n) ==
  /\ At(t, "idle")
  /\ issued + n <= MaxBlocks
  /\ Lock!Enter(t)
  /\ frame' = [frame EXCEPT ![t].type = type, ![t].dram = dram, ![t].left = n,
                            ![t].block = issued + 1]
  /\ issued' = issued + n
  /\ flush' = [flush EXCEPT ![InstanceOf[t]] = @ \/ type = "write"]
  /\ Goto(t, "locked")
  /\ UNCHANGED <<active, coreVars, bufferVars>>

StartTransfer(t) ==
  \E type \in {"write", "read"}, dram \in {FALSE, HostDram}, n \in 1 .. MaxCallBlocks :
    Start(t, type, dram, n)

(* A broadcast without system memory: write_to_non_mmio throws.            *)
RefuseBroadcast(t) ==
  /\ At(t, "locked")
  /\ frame[t].type = "write" /\ ~HostDram
  /\ End(t)
  /\ UNCHANGED <<issued, instanceVars, coreVars, bufferVars>>

(* One access reads both request pointers of a core.                       *)
WithPtrsOf(c, t) ==
  [frame EXCEPT ![t].wptr = reqWptr[c], ![t].rptr = reqRptr[c]]

(* The response read pointer, read right after, is only ever written under *)
(* the lock.                                                               *)
ReadPtrs(t) ==
  /\ At(t, "locked")
  /\ frame' = [WithPtrsOf(ActiveCore(t), t) EXCEPT ![t].respRptr = respRptr[ActiveCore(t)]]
  /\ Goto(t, "filling")
  /\ UNCHANGED <<holders, issued, instanceVars, coreVars, bufferVars>>

(* The ring is full by the pointers last read.                             *)
SeesFull(t) == CmdQFull(frame[t].wptr, frame[t].rptr)

PollRptr(t) ==
  /\ At(t, "filling")
  /\ SeesFull(t)
  /\ frame' = [frame EXCEPT ![t].rptr = reqRptr[ActiveCore(t)]]
  /\ UNCHANGED <<holders, pc, issued, instanceVars, coreVars, bufferVars>>

BlockMode(t) == IF frame[t].dram THEN "dram" ELSE "block"

(* Where a block is put: writes use one buffer per request slot (in host   *)
(* memory, per core and request slot), reads one per response slot.        *)
BufferAddr(t, m) ==
  IF frame[t].type = "read" THEN frame[t].respRptr % Size
  ELSE IF m = "dram" THEN ActiveCore(t) * Size + (frame[t].wptr % Size)
  ELSE frame[t].wptr % Size

(* The data of a block write goes to its buffer before the command.        *)
StoreBlock(t) ==
  /\ At(t, "filling")
  /\ ~SeesFull(t)
  /\ frame[t].type = "write"
  /\ frame' = [frame EXCEPT ![t].mode = BlockMode(t)]
  /\ IF frame[t].dram
       THEN /\ host' = [host EXCEPT ![BufferAddr(t, "dram")] = frame[t].block]
            /\ UNCHANGED buffer
       ELSE /\ buffer' = [buffer EXCEPT
                 ![ActiveCore(t)][BufferAddr(t, "block")] = frame[t].block]
            /\ UNCHANGED host
  /\ Goto(t, "stored")
  /\ UNCHANGED <<holders, issued, instanceVars, coreVars>>

PutCommand(t, m) ==
  /\ reqEntry' = [reqEntry EXCEPT ![ActiveCore(t)][frame[t].wptr % Size] =
       [type |-> frame[t].type, block |-> frame[t].block, by |-> t, mode |-> m,
        addr |-> BufferAddr(t, m)]]
  /\ frame' = [frame EXCEPT ![t].mode = m]
  /\ Goto(t, "commanded")
  /\ UNCHANGED <<holders, issued, instanceVars, reqWptr, reqRptr, responseVars,
                 reading, unacked, bufferVars>>

(* A stored block, a single word (any unaligned piece of a transfer), or a *)
(* read of either.                                                         *)
WriteCommand(t) ==
  \/ At(t, "stored") /\ PutCommand(t, frame[t].mode)
  \/ /\ At(t, "filling")
     /\ ~SeesFull(t)
     /\ \/ PutCommand(t, "word")
        \/ frame[t].type = "read" /\ PutCommand(t, BlockMode(t))

WriteWptr(t) ==
  /\ At(t, "commanded")
  /\ reqWptr' = [reqWptr EXCEPT ![ActiveCore(t)] = Advance(frame[t].wptr)]
  /\ frame' = [frame EXCEPT ![t].wptr = Advance(@)]
  /\ Goto(t, "published")
  /\ UNCHANGED <<holders, issued, instanceVars, reqRptr, reqEntry, responseVars,
                 reading, unacked, bufferVars>>

(* The next block of the call, or its end; f holds the frames so far.      *)
NextBlock(t, f) ==
  /\ frame' = [f EXCEPT ![t].left = @ - 1,
                        ![t].block = IF f[t].left > 1 THEN @ + 1 ELSE @]
  /\ Goto(t, IF f[t].left > 1 THEN "filling" ELSE "returning")

(* update_active_eth_core_idx.                                             *)
NextCore(c) == (c + 1) % NumCores

(* A write that fills the ring, as far as the pointer last read tells,     *)
(* goes on with the next core.                                             *)
AfterWrite(t) ==
  /\ At(t, "published")
  /\ frame[t].type = "write"
  /\ IF SeesFull(t)
       THEN /\ active' = [active EXCEPT ![InstanceOf[t]] = NextCore(@)]
            /\ NextBlock(t, WithPtrsOf(NextCore(ActiveCore(t)), t))
       ELSE UNCHANGED active /\ NextBlock(t, frame)
  /\ UNCHANGED <<holders, issued, flush, coreVars, bufferVars>>

(* A read that fills it reads the pointers again; then it waits.           *)
AfterRead(t) ==
  /\ At(t, "published")
  /\ frame[t].type = "read"
  /\ frame' = IF SeesFull(t) THEN WithPtrsOf(ActiveCore(t), t) ELSE frame
  /\ Goto(t, "awaiting")
  /\ UNCHANGED <<holders, issued, instanceVars, coreVars, bufferVars>>

ResponseWptrMoved(t) ==
  /\ At(t, "awaiting")
  /\ respWptr[ActiveCore(t)] # frame[t].respRptr
  /\ Goto(t, "flagging")
  /\ UNCHANGED <<holders, frame, issued, instanceVars, coreVars, bufferVars>>

Answer(t) == respEntry[ActiveCore(t)][frame[t].respRptr % Size]

(* Mutant: the data is taken without waiting for the flags.                *)
ResponseFlagsSetEarly(t) ==
  /\ At(t, "flagging")
  /\ Goto(t, "taking")
  /\ UNCHANGED <<holders, frame, issued, instanceVars, coreVars, bufferVars>>

ResponseFlagsSet(t) ==
  /\ At(t, "flagging")
  /\ Answer(t).flags # NoFlags
  /\ Goto(t, IF Answer(t).flags = frame[t].mode THEN "taking" ELSE "mismatch")
  /\ UNCHANGED <<holders, frame, issued, instanceVars, coreVars, bufferVars>>

TakeData(t) ==
  /\ At(t, "taking")
  /\ frame' = [frame EXCEPT ![t].got =
       CASE frame[t].mode = "word"  -> Answer(t).data
         [] frame[t].mode = "block" -> buffer[ActiveCore(t)][BufferAddr(t, "block")]
         [] frame[t].mode = "dram"  -> host[BufferAddr(t, "dram")]]
  /\ Goto(t, "advancing")
  /\ UNCHANGED <<holders, issued, instanceVars, coreVars, bufferVars>>

(* The response is taken out of the ring in any case; unexpected flags     *)
(* then throw.                                                             *)
WriteResponseRptr(t) ==
  LET next == Advance(frame[t].respRptr)
  IN /\ \/ /\ At(t, "advancing")
           /\ NextBlock(t, [frame EXCEPT ![t].respRptr = next])
           /\ UNCHANGED holders
        \/ At(t, "mismatch") /\ End(t)
     /\ respRptr' = [respRptr EXCEPT ![ActiveCore(t)] = next]
     /\ UNCHANGED <<issued, instanceVars, requestVars, respWptr, respEntry, reading,
                    unacked, bufferVars>>

Return(t) ==
  /\ At(t, "returning")
  /\ End(t)
  /\ UNCHANGED <<issued, instanceVars, coreVars, bufferVars>>

-----------------------------------------------------------------------------
(* wait_for_non_mmio_flush: all rings empty, then all writes acknowledged, *)
(* core by core and without the lock.                                      *)

StartFlush(t) ==
  /\ At(t, "idle")
  /\ Goto(t, IF flush[InstanceOf[t]] THEN "draining" ELSE "flushed")
  /\ UNCHANGED <<holders, frame, issued, instanceVars, coreVars, bufferVars>>

Pass(t, next) ==
  /\ Goto(t, IF frame[t].scan = NumCores - 1 THEN next ELSE pc[t])
  /\ frame' = [frame EXCEPT ![t].scan = NextCore(@)]
  /\ UNCHANGED <<holders, issued, instanceVars, coreVars, bufferVars>>

QueueDrained(t) ==
  /\ At(t, "draining")
  /\ reqWptr[frame[t].scan] = reqRptr[frame[t].scan]
  /\ Pass(t, "acking")

(* Mutant: the acknowledgements are not waited for.                        *)
WritesAckedUnchecked(t) == At(t, "acking") /\ Pass(t, "clearing")

WritesAcked(t) ==
  /\ At(t, "acking")
  /\ unacked[frame[t].scan] = {}
  /\ Pass(t, "clearing")

ClearFlush(t) ==
  /\ At(t, "clearing")
  /\ flush' = [flush EXCEPT ![InstanceOf[t]] = FALSE]
  /\ Goto(t, "flushed")
  /\ UNCHANGED <<holders, frame, issued, active, coreVars, bufferVars>>

FlushReturns(t) ==
  /\ At(t, "flushed")
  /\ Goto(t, "idle")
  /\ UNCHANGED <<holders, frame, issued, instanceVars, coreVars, bufferVars>>

-----------------------------------------------------------------------------
(* Every poll may throw; nothing that was sent is taken back.  A process   *)
(* may die anywhere, and starts again with fresh instances.                *)

FlushTimesOut(t) ==
  /\ pc[t] \in {"draining", "acking"}
  /\ Goto(t, "idle")
  /\ frame' = [frame EXCEPT ![t] = NoFrame]
  /\ UNCHANGED holders

(* Mutant: the wait for the response flags has no timeout.                 *)
TimeOutNotOnFlags(t) ==
  /\ "timeout" \in Faults
  /\ \/ At(t, "filling") /\ SeesFull(t) /\ End(t)
     \/ At(t, "awaiting") /\ End(t)
     \/ FlushTimesOut(t)
  /\ UNCHANGED <<issued, instanceVars, coreVars, bufferVars>>

TimeOut(t) ==
  /\ "timeout" \in Faults
  /\ \/ At(t, "filling") /\ SeesFull(t) /\ End(t)
     \/ pc[t] \in {"awaiting", "flagging"} /\ End(t)
     \/ FlushTimesOut(t)
  /\ UNCHANGED <<issued, instanceVars, coreVars, bufferVars>>

Crash(i) ==
  LET dead == {t \in Thread : InstanceOf[t] = i}
  IN /\ "crash" \in Faults
     /\ pc' = [t \in Thread |-> IF t \in dead THEN "idle" ELSE pc[t]]
     /\ frame' = [t \in Thread |-> IF t \in dead THEN NoFrame ELSE frame[t]]
     /\ holders' = holders \ dead
     /\ active' = [active EXCEPT ![i] = 0]
     /\ flush' = [flush EXCEPT ![i] = FALSE]
     /\ UNCHANGED <<issued, coreVars, bufferVars>>

-----------------------------------------------------------------------------
(* The firmware of an ethernet core takes its commands in order.           *)

Oldest(c) == reqEntry[c][reqRptr[c] % Size]

Pending(c, type) == reqRptr[c] # reqWptr[c] /\ Oldest(c).type = type

FwWrite(c) ==
  /\ Pending(c, "write")
  /\ unacked' = [unacked EXCEPT ![c] = @ \cup {Oldest(c)}]
  /\ reqRptr' = [reqRptr EXCEPT ![c] = Advance(@)]
  /\ UNCHANGED <<callVars, instanceVars, reqWptr, reqEntry, responseVars, reading, bufferVars>>

FwAck(c) ==
  /\ \E m \in unacked[c] : unacked' = [unacked EXCEPT ![c] = @ \ {m}]
  /\ UNCHANGED <<callVars, instanceVars, requestVars, responseVars, reading, bufferVars>>

(* Clear the response flags, start the read, advance the response pointer. *)
FwStartRead(c) ==
  /\ Pending(c, "read")
  /\ reading[c] = NoCommand
  /\ Occupied(respWptr[c], respRptr[c]) < Size
  /\ reading' = [reading EXCEPT ![c] = Oldest(c)]
  /\ respEntry' = [respEntry EXCEPT ![c][respWptr[c] % Size].flags = NoFlags]
  /\ respWptr' = [respWptr EXCEPT ![c] = Advance(@)]
  /\ reqRptr' = [reqRptr EXCEPT ![c] = Advance(@)]
  /\ UNCHANGED <<callVars, instanceVars, reqWptr, reqEntry, respRptr, unacked, bufferVars>>

(* Write the data into the response or the buffer, then set the flags.     *)
FwFinishRead(c) ==
  LET m == reading[c]
  IN /\ m # NoCommand
     /\ respEntry' = [respEntry EXCEPT ![c][(respWptr[c] + 2 * Size - 1) % Size] =
          [flags |-> m.mode, data |-> IF m.mode = "word" THEN m.block ELSE @.data]]
     /\ buffer' = IF m.mode = "block"
                    THEN [buffer EXCEPT ![c][m.addr] = m.block] ELSE buffer
     /\ host' = IF m.mode = "dram" THEN [host EXCEPT ![m.addr] = m.block] ELSE host
     /\ reading' = [reading EXCEPT ![c] = NoCommand]
     /\ UNCHANGED <<callVars, instanceVars, requestVars, respWptr, respRptr, unacked>>

Firmware(c) == FwWrite(c) \/ FwAck(c) \/ FwStartRead(c) \/ FwFinishRead(c)

-----------------------------------------------------------------------------
(* Steps inside a call.                                                    *)
Proceed(t) ==
  \/ ReadPtrs(t) \/ PollRptr(t) \/ StoreBlock(t) \/ WriteCommand(t) \/ WriteWptr(t)
  \/ AfterWrite(t) \/ AfterRead(t) \/ ResponseWptrMoved(t) \/ ResponseFlagsSet(t)
  \/ TakeData(t) \/ WriteResponseRptr(t) \/ Return(t)
  \/ QueueDrained(t) \/ WritesAcked(t) \/ ClearFlush(t) \/ FlushReturns(t)
  \/ TimeOut(t)

Next ==
  \/ \E t \in Thread :
       StartTransfer(t) \/ RefuseBroadcast(t) \/ StartFlush(t) \/ Proceed(t)
  \/ \E i \in Instance : Crash(i)
  \/ \E c \in Core : Firmware(c)

Spec == Init /\ [][Next]_vars

(* Threads inside a call run; a poll that sees no progress times out.      *)
FairSpec == Spec /\ \A t \in Thread : WF_vars(Proceed(t))

-----------------------------------------------------------------------------
Requests(c) == Contents(reqEntry[c], reqWptr[c], reqRptr[c])

RequestQueue(c) == INSTANCE BoundedFifo
  WITH Message <- Command, Capacity <- Size, queue <- Requests(c)

(* write_to_non_mmio and read_non_mmio: with a cached read pointer and a   *)
(* switch of cores in the middle of a call, the command ring of every      *)
(* ethernet core is a bounded FIFO: no command a core has yet to take is   *)
(* overwritten, lost, repeated or reordered.                               *)
RequestsFifo ==
  /\ \A c \in Core : RequestQueue(c)!Init
  /\ [][\A c \in Core : UNCHANGED Requests(c) \/ RequestQueue(c)!Next]_vars

(* Until its core has taken it, a block write finds in its buffer the data *)
(* that was put there, whatever other transfers go on through the same     *)
(* MMIO chip.                                                              *)
PendingWriteIntact ==
  \A c \in Core : \A i \in 1 .. Len(Requests(c)) :
    LET m == Requests(c)[i]
    IN m.type = "write" =>
         /\ m.mode = "block" => buffer[c][m.addr] = m.block
         /\ m.mode = "dram" => host[m.addr] = m.block

(* read_non_mmio delivers the data of the block it asked for.              *)
ReadOwnData == \A t \in Thread : pc[t] = "advancing" => frame[t].got = frame[t].block

(* All that thread t wrote has reached the remote chip.                    *)
WritesDone(t) ==
  \A c \in Core :
    /\ \A m \in unacked[c] : m.by # t
    /\ \A i \in 1 .. Len(Requests(c)) :
         Requests(c)[i].type = "write" => Requests(c)[i].by # t

(* wait_for_non_mmio_flush: when it returns, all that the thread wrote     *)
(* before has reached the remote chip and was acknowledged.                *)
FlushedAll == \A t \in Thread : pc[t] = "flushed" => WritesDone(t)

(* Every read, write and flush ends, also when the firmware hangs.         *)
CallsEnd == \A t \in Thread : pc[t] # "idle" ~> pc[t] = "idle"
=============================================================================
