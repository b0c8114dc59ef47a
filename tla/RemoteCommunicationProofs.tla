---------------------- MODULE RemoteCommunicationProofs ----------------------
(***************************************************************************)
(* Proofs about RemoteCommunication, for any number of threads, instances, *)
(* ethernet cores and blocks, for rings of any size and any request        *)
(* pointers left by earlier transfers: first the rings, then the data.     *)
(***************************************************************************)
EXTENDS MCRemoteCommunication, RingProofs

(* Labels between the reading of the request pointers and the end of the   *)
(* call.                                                                   *)
Issuing == {"filling", "stored", "commanded", "published",
            "awaiting", "flagging", "taking", "advancing"}

(* The NON_MMIO lock is with the thread that is inside a transfer.         *)
LockInv == \A t \in Thread : pc[t] \in LockedLabels => holders = {t}

(* The blocks of a call are among those handed out to it.                  *)
BlockAt(t) ==
  /\ pc[t] \in LockedLabels => frame[t].block \in Block
  /\ pc[t] \in LockedLabels \ {"returning"} =>
       frame[t].left > 0 /\ frame[t].block + frame[t].left <= issued + 1

(* The command thread t has written is the one it means to publish.        *)
Written(t) ==
  LET m == reqEntry[ActiveCore(t)][frame[t].wptr % Size]
  IN /\ m \in Command
     /\ m.type = frame[t].type /\ m.block = frame[t].block /\ m.by = t
     /\ m.mode = frame[t].mode /\ m.addr = BufferAddr(t, m.mode)

(* The write pointer a call keeps is the one of its core; the read pointer *)
(* may be old, and then makes the ring look fuller than it is.  Once there *)
(* was room by that pointer there is room, and a command stays as written  *)
(* until it is published.                                                  *)
Seen(t) == Occupied(frame[t].wptr, frame[t].rptr)
InRing(c) == Occupied(reqWptr[c], reqRptr[c])

PushAt(t) ==
  pc[t] \in Issuing =>
    /\ frame[t].wptr = reqWptr[ActiveCore(t)]
    /\ InRing(ActiveCore(t)) <= Seen(t) /\ Seen(t) <= Size
    /\ pc[t] \in {"stored", "commanded"} => Seen(t) < Size
    /\ pc[t] = "commanded" => Written(t)

(* No ring holds more than it has room for.                                *)
RingInv == \A c \in Core : InRing(c) <= Size

BlockInv == \A t \in Thread : BlockAt(t)
PushInv == \A t \in Thread : PushAt(t)

Inv == TypeOK /\ LockInv /\ BlockInv /\ RingInv /\ PushInv

(* What a slot holds.                                                      *)
Entry == Command \cup {NoCommand}

(* The contents of a command ring are a sequence of commands.              *)
LEMMA EntryContents ==
  ASSUME NEW e \in [Slot -> Entry], NEW w \in Pointer, NEW r \in Pointer,
         Occupied(w, r) <= Size
  PROVE  Contents(e, w, r) \in Seq(Entry) /\ Len(Contents(e, w, r)) = Occupied(w, r)
BY ContentsIs

USE SizeAssumption, RemoteAssumption

(* is_non_mmio_cmd_q_full is exact for a ring that is not overfull.        *)
LEMMA FullIs ==
  ASSUME NEW w \in Pointer, NEW r \in Pointer, Occupied(w, r) <= Size
  PROVE  CmdQFull(w, r) <=> Occupied(w, r) = Size
<1>1. Occupied(w, r) = IF w >= r THEN w - r ELSE w - r + 2 * Size
  BY OccupiedIs
<1>2. ModCases(w, Size) /\ ModCases(r, Size)
  BY ModSmall DEF Pointer
<1> QED
  BY <1>1, <1>2 DEF ModCases, CmdQFull, Pointer

(* Slots and buffer addresses are where the rings and the buffers are.     *)
LEMMA SlotOf == ASSUME NEW p \in Pointer PROVE p % Size \in Slot
BY ModRange DEF Pointer, Slot

\* The buffer of a slot of a core lies in the address range of the buffers.
LEMMA AddrIs ==
  ASSUME NEW c \in Core, NEW s \in Slot
  PROVE  s \in 0 .. NumCores * Size - 1 /\ c * Size + s \in 0 .. NumCores * Size - 1
<1>1. \A m, n, k \in Nat : m < n => m * k + k <= n * k /\ m * k \in Nat /\ n * k \in Nat
  BY SMT
<1>2. /\ c * Size + Size <= NumCores * Size /\ c * Size \in Nat
      /\ NumCores * Size \in Nat
  BY <1>1 DEF Core
<1> QED
  BY <1>2 DEF Slot

\* BufferAddr, the address computation of both directions, stays in that range.
LEMMA BufferAddrIs ==
  ASSUME TypeOK, NEW t \in Thread, NEW m \in Modes
  PROVE  BufferAddr(t, m) \in 0 .. NumCores * Size - 1
<1>1. /\ frame[t].respRptr \in Pointer /\ frame[t].wptr \in Pointer
      /\ ActiveCore(t) \in Core
  BY DEF TypeOK, Frame, ActiveCore
<1> QED
  BY <1>1, SlotOf, AddrIs DEF BufferAddr

\* The successor of an ethernet core is an ethernet core.
LEMMA NextCoreIs == ASSUME NEW c \in Core PROVE NextCore(c) \in Core
BY ModRange DEF Core, NextCore

-----------------------------------------------------------------------------
(* The inductive invariant                                                 *)

LEMMA NoFrameIs == NoFrame \in Frame
BY DEF NoFrame, Frame, Modes, Core, Pointer

\* The inductive invariant holds before the first call.
LEMMA InitInvariant == Init => Inv
<1> SUFFICES ASSUME Init PROVE Inv
  OBVIOUS
<1>1. TypeOK
  <2>1. 0 \in Core /\ 0 \in Pointer
    BY DEF Core, Pointer
  <2> QED
    BY <2>1, NoFrameIs DEF Init, TypeOK
<1>2. LockInv /\ BlockInv /\ PushInv
  BY DEF Init, LockInv, BlockInv, PushInv, BlockAt, PushAt, LockedLabels, Issuing
<1>3. RingInv
  <2> SUFFICES ASSUME NEW c \in Core PROVE Occupied(reqWptr[c], reqRptr[c]) <= Size
    BY DEF RingInv, InRing
  <2>1. reqWptr[c] \in Pointer /\ reqRptr[c] = reqWptr[c]
    BY DEF Init
  <2> QED
    BY <2>1, OccupiedIs DEF Pointer
<1> QED
  BY <1>1, <1>2, <1>3 DEF Inv

(* What the invariant says about the call of the thread that has the lock. *)
LEMMA HolderFacts ==
  ASSUME Inv, NEW t \in Thread, pc[t] \in LockedLabels
  PROVE  /\ ActiveCore(t) \in Core /\ frame[t] \in Frame
         /\ frame[t].wptr \in Pointer /\ frame[t].rptr \in Pointer
         /\ frame[t].respRptr \in Pointer /\ frame[t].mode \in Modes
         /\ \A c \in Core : /\ reqWptr[c] \in Pointer /\ reqRptr[c] \in Pointer
                            /\ InRing(c) \in 0 .. Size
         /\ holders = {t} /\ BlockAt(t) /\ PushAt(t)
         /\ \A u \in Thread \ {t} : pc[u] \notin LockedLabels
<1>1. /\ ActiveCore(t) \in Core /\ frame[t] \in Frame
      /\ frame[t].wptr \in Pointer /\ frame[t].rptr \in Pointer
      /\ frame[t].respRptr \in Pointer /\ frame[t].mode \in Modes
  BY DEF Inv, TypeOK, ActiveCore, Frame
<1>2. ASSUME NEW c \in Core
      PROVE reqWptr[c] \in Pointer /\ reqRptr[c] \in Pointer /\ InRing(c) \in 0 .. Size
  <2>1. reqWptr[c] \in Pointer /\ reqRptr[c] \in Pointer
    BY DEF Inv, TypeOK
  <2> QED
    BY <2>1, PushOccupies DEF Inv, RingInv, InRing
<1>3. /\ holders = {t} /\ BlockAt(t) /\ PushAt(t)
      /\ \A u \in Thread \ {t} : pc[u] \notin LockedLabels
  BY DEF Inv, LockInv, BlockInv, PushInv
<1> QED
  BY <1>1, <1>2, <1>3

(* A step of the thread that has the lock: nothing is claimed about the    *)
(* others, which have no call under way.                                   *)
LEMMA HolderStep ==
  ASSUME Inv, NEW t \in Thread, pc[t] \in LockedLabels, NEW l,
         pc' = [pc EXCEPT ![t] = l], l \in LockedLabels => holders' = holders,
         TypeOK', RingInv', BlockAt(t)', PushAt(t)'
  PROVE  Inv'
<1>1. \A u \in Thread \ {t} : pc'[u] = pc[u] /\ pc[u] \notin LockedLabels
  BY HolderFacts DEF Inv, TypeOK
<1>2. LockInv'
  BY <1>1, HolderFacts DEF LockInv, Inv, TypeOK
<1>3. \A u \in Thread \ {t} : BlockAt(u)' /\ PushAt(u)'
  BY <1>1 DEF BlockAt, PushAt, LockedLabels, Issuing
<1> QED
  BY <1>2, <1>3 DEF Inv, BlockInv, PushInv

(* A step of a thread without the lock.                                    *)
LEMMA OutsideStep ==
  ASSUME Inv, NEW t \in Thread, pc[t] \notin LockedLabels, NEW l, l \notin LockedLabels,
         pc' = [pc EXCEPT ![t] = l], TypeOK',
         \A u \in Thread \ {t} : frame'[u] = frame[u],
         UNCHANGED <<holders, issued, active, reqWptr, reqRptr, reqEntry>>
  PROVE  Inv'
<1>1. \A u \in Thread \ {t} : pc'[u] = pc[u]
  BY DEF Inv, TypeOK
<1>2. pc'[t] \notin LockedLabels
  BY DEF Inv, TypeOK
<1>3. LockInv' /\ RingInv'
  BY <1>1, <1>2 DEF Inv, LockInv, RingInv, InRing
<1>4. BlockInv'
  BY <1>1, <1>2 DEF Inv, BlockInv, BlockAt
<1>5. PushInv'
  <2> SUFFICES ASSUME NEW u \in Thread PROVE PushAt(u)'
    BY DEF PushInv
  <2>1. CASE u = t
    BY <1>2, <2>1 DEF PushAt, LockedLabels, Issuing
  <2>2. CASE u # t
    <3>1. PushAt(u) /\ pc'[u] = pc[u] /\ frame'[u] = frame[u]
      BY <1>1, <2>2 DEF Inv, PushInv
    <3> QED
      BY <3>1 DEF PushAt, Seen, InRing, Written, ActiveCore, BufferAddr
  <2> QED
    BY <2>1, <2>2
<1> QED
  BY <1>3, <1>4, <1>5 DEF Inv

(* A step of a thread that changes no more than what a call may change     *)
(* keeps the types.                                                        *)
LEMMA ThreadType ==
  ASSUME TypeOK, NEW t \in Thread, NEW f \in Frame,
         NEW l \in {"idle"} \cup LockedLabels \cup FlushLabels,
         pc' = [pc EXCEPT ![t] = l], frame' = [frame EXCEPT ![t] = f],
         holders' \in SUBSET Thread,
         active' \in [Instance -> Core],
         reqWptr' \in [Core -> Pointer],
         reqEntry' \in [Core -> [Slot -> Command \cup {NoCommand}]],
         respRptr' \in [Core -> Pointer],
         host' \in [0 .. NumCores * Size - 1 -> 0 .. MaxBlocks],
         buffer' \in [Core -> [Slot -> 0 .. MaxBlocks]],
         UNCHANGED <<issued, flush, reqRptr, respWptr, respEntry, reading, unacked>>
  PROVE  TypeOK'
BY DEF TypeOK

(* The types of what such a step leaves alone.                             *)
LEMMA ThreadTypes ==
  ASSUME TypeOK
  PROVE  /\ holders \in SUBSET Thread /\ active \in [Instance -> Core]
         /\ reqWptr \in [Core -> Pointer] /\ respRptr \in [Core -> Pointer]
         /\ reqEntry \in [Core -> [Slot -> Command \cup {NoCommand}]]
         /\ host \in [0 .. NumCores * Size - 1 -> 0 .. MaxBlocks]
         /\ buffer \in [Core -> [Slot -> 0 .. MaxBlocks]]
BY DEF TypeOK

\* The number of occupied entries is a natural number.
LEMMA OccupiedNat ==
  ASSUME NEW w \in Pointer, NEW r \in Pointer PROVE Occupied(w, r) \in Nat
BY OccupiedIs DEF Pointer

(* A call begins: it takes the lock and its blocks.                        *)
LEMMA StartInvariant == ASSUME Inv, NEW t \in Thread, StartTransfer(t) PROVE Inv'
<1> PICK type \in {"write", "read"}, dram \in {FALSE, HostDram}, n \in 1 .. MaxCallBlocks :
      Start(t, type, dram, n)
  BY DEF StartTransfer
<1> DEFINE f == [frame[t] EXCEPT !.type = type, !.dram = dram, !.left = n,
                                 !.block = issued + 1]
<1>0. /\ pc \in [Thread -> {"idle"} \cup LockedLabels \cup FlushLabels]
      /\ frame \in [Thread -> Frame] /\ issued \in 0 .. MaxBlocks
  BY DEF Inv, TypeOK
<1>1. frame' = [frame EXCEPT ![t] = f]
  BY <1>0 DEF Start
<1>2. f \in Frame
  <2>1. issued + 1 \in 0 .. MaxBlocks /\ n \in 0 .. MaxCallBlocks
    BY <1>0 DEF Start
  <2>2. dram \in BOOLEAN
    OBVIOUS
  <2> QED
    BY <1>0, <2>1, <2>2 DEF Frame
<1>3. TypeOK'
  BY <1>1, <1>2 DEF Inv, TypeOK, Start, Goto, LockedLabels, Lock!Enter, coreVars,
     requestVars, responseVars, bufferVars
<1>4. LockInv'
  BY <1>0 DEF Inv, LockInv, LockedLabels, Start, Goto, Lock!Enter
<1>5. BlockInv'
  BY <1>0, <1>1 DEF Inv, BlockInv, BlockAt, LockInv, LockedLabels, Start, Goto,
     Lock!Enter, Frame, Block
<1>6. RingInv' /\ PushInv'
  BY <1>0 DEF Inv, RingInv, InRing, PushInv, PushAt, LockInv, Issuing, LockedLabels,
     Start, Goto, Lock!Enter, coreVars, requestVars
<1> QED
  BY <1>3, <1>4, <1>5, <1>6 DEF Inv

(* The ends of a call: the lock is given back.                             *)
LEMMA EndStep ==
  ASSUME Inv, NEW t \in Thread, pc[t] \in LockedLabels, End(t),
         \A c \in Core : respRptr'[c] \in Pointer,
         respRptr' \in [Core -> Pointer],
         UNCHANGED <<issued, instanceVars, requestVars, respWptr, respEntry, reading,
                     unacked, bufferVars>>
  PROVE  Inv'
<1> USE DEF End, Goto, instanceVars, requestVars, bufferVars
<1>1. TypeOK'
  BY NoFrameIs DEF Inv, TypeOK, Lock!Leave
<1>2. RingInv'
  BY DEF Inv, RingInv, InRing
<1>3. pc'[t] \notin LockedLabels
  BY DEF Inv, TypeOK, LockedLabels
<1>4. BlockAt(t)' /\ PushAt(t)'
  BY <1>3 DEF BlockAt, PushAt, LockedLabels, Issuing
<1> QED
  BY <1>1, <1>2, <1>4, HolderStep DEF LockedLabels

(* The steps of a call up to the command.                                  *)
LEMMA IssueInvariant ==
  ASSUME Inv, NEW t \in Thread,
         ReadPtrs(t) \/ PollRptr(t) \/ StoreBlock(t) \/ WriteCommand(t) \/ WriteWptr(t)
  PROVE  Inv'
<1> USE DEF callVars, instanceVars, requestVars, responseVars, coreVars, bufferVars
<1>0. pc[t] \in LockedLabels
  BY DEF ReadPtrs, PollRptr, StoreBlock, WriteCommand, WriteWptr, At, LockedLabels
<1>c. PICK c \in Core : c = ActiveCore(t)
  BY <1>0, HolderFacts
<1>a. /\ frame[t] \in Frame /\ ActiveCore(t) = c /\ c = active[InstanceOf[t]]
      /\ frame[t].wptr \in Pointer /\ frame[t].rptr \in Pointer
      /\ frame[t].respRptr \in Pointer /\ frame[t].mode \in Modes
      /\ reqWptr[c] \in Pointer /\ reqRptr[c] \in Pointer /\ InRing(c) \in 0 .. Size
      /\ BlockAt(t) /\ PushAt(t)
      /\ frame \in [Thread -> Frame]
      /\ pc \in [Thread -> {"idle"} \cup LockedLabels \cup FlushLabels]
  BY <1>0, <1>c, HolderFacts DEF Inv, TypeOK, ActiveCore
<1>1. CASE ReadPtrs(t)
  <2> DEFINE f == [frame[t] EXCEPT !.wptr = reqWptr[c], !.rptr = reqRptr[c],
                                   !.respRptr = respRptr[c]]
  <2>1. frame' = [frame EXCEPT ![t] = f]
    BY <1>1, <1>a DEF ReadPtrs, WithPtrsOf
  <2>2. f \in Frame
    BY <1>a DEF Frame, Inv, TypeOK
  <2>9. /\ f.wptr = reqWptr[c] /\ f.rptr = reqRptr[c]
        /\ f.block = frame[t].block /\ f.left = frame[t].left
    BY <1>a DEF Frame
  <2> HIDE DEF f
  <2>3. TypeOK'
    BY <1>1, <2>1, <2>2, ThreadType, ThreadTypes DEF Inv, ReadPtrs, Goto, LockedLabels
  <2>4. RingInv'
    BY <1>1 DEF Inv, RingInv, InRing, ReadPtrs
  <2>5. BlockAt(t)'
    BY <1>1, <1>a, <2>1, <2>9 DEF BlockAt, ReadPtrs, At, Goto, LockedLabels
  <2>6. PushAt(t)'
    <3>1. /\ frame'[t] = f /\ pc'[t] = "filling" /\ ActiveCore(t)' = c
          /\ reqWptr' = reqWptr /\ reqRptr' = reqRptr
      BY <1>1, <1>a, <2>1 DEF ReadPtrs, Goto, ActiveCore
    <3>2. Seen(t)' = InRing(c)' /\ InRing(c)' = InRing(c)
      BY <3>1, <2>9 DEF Seen, InRing
    <3> QED
      BY <1>a, <2>9, <3>1, <3>2 DEF PushAt
  <2> QED
    BY <1>0, <1>1, <2>3, <2>4, <2>5, <2>6, HolderStep DEF ReadPtrs, Goto
<1>2. CASE PollRptr(t)
  <2> DEFINE f == [frame[t] EXCEPT !.rptr = reqRptr[c]]
  <2>1. frame' = [frame EXCEPT ![t] = f]
    BY <1>2, <1>a DEF PollRptr
  <2>2. f \in Frame
    BY <1>a DEF Frame
  <2>3. TypeOK'
    BY <1>2, <2>1, <2>2 DEF Inv, TypeOK, PollRptr
  <2>4. RingInv'
    BY <1>2 DEF Inv, RingInv, InRing, PollRptr
  <2>5. BlockAt(t)'
    BY <1>2, <1>a, <2>1 DEF BlockAt, PollRptr, Frame
  <2>6. PushAt(t)'
    BY <1>2, <1>a, <2>1 DEF PushAt, PollRptr, At, Issuing, InRing, Seen, ActiveCore, Frame
  <2>7. pc' = [pc EXCEPT ![t] = "filling"]
    BY <1>2, <1>a DEF PollRptr, At
  <2> QED
    BY <1>0, <1>2, <2>3, <2>4, <2>5, <2>6, <2>7, HolderStep DEF PollRptr
<1>3. CASE StoreBlock(t)
  <2> DEFINE f == [frame[t] EXCEPT !.mode = BlockMode(t)]
  <2>1. frame' = [frame EXCEPT ![t] = f]
    BY <1>3, <1>a DEF StoreBlock
  <2>2. f \in Frame
    BY <1>a DEF Frame, BlockMode, Modes
  <2>3. /\ host' \in [0 .. NumCores * Size - 1 -> 0 .. MaxBlocks]
        /\ buffer' \in [Core -> [Slot -> 0 .. MaxBlocks]]
    <3>1. /\ host \in [0 .. NumCores * Size - 1 -> 0 .. MaxBlocks]
          /\ buffer \in [Core -> [Slot -> 0 .. MaxBlocks]]
          /\ frame[t].block \in 0 .. MaxBlocks
      BY <1>a DEF Inv, TypeOK, Frame
    <3>2. CASE frame[t].dram
      BY <1>3, <3>1, <3>2 DEF StoreBlock
    <3>3. CASE ~frame[t].dram
      <4> DEFINE a == BufferAddr(t, "block")
      <4>1. buffer' = [buffer EXCEPT ![c] = [buffer[c] EXCEPT ![a] = frame[t].block]]
        BY <1>3, <3>1, <3>3, <1>a DEF StoreBlock
      <4>2. [buffer[c] EXCEPT ![a] = frame[t].block] \in [Slot -> 0 .. MaxBlocks]
        BY <3>1, <1>a
      <4> QED
        BY <1>3, <3>1, <3>3, <4>1, <4>2 DEF StoreBlock
    <3> QED
      BY <3>2, <3>3
  <2>4. TypeOK'
    BY <1>3, <2>1, <2>2, <2>3, ThreadType, ThreadTypes DEF Inv, StoreBlock, Goto, LockedLabels
  <2>5. RingInv'
    BY <1>3 DEF Inv, RingInv, InRing, StoreBlock
  <2>6. BlockAt(t)'
    BY <1>3, <1>a, <2>1 DEF BlockAt, StoreBlock, At, Goto, LockedLabels, Frame
  <2>7. Seen(t) < Size
    BY <1>3, <1>a, FullIs, PushOccupies DEF StoreBlock, SeesFull, Seen, PushAt, At, Issuing
  <2>8. PushAt(t)'
    BY <1>3, <1>a, <2>1, <2>7 DEF PushAt, StoreBlock, At, Goto, Issuing, InRing, Seen,
       ActiveCore, Frame
  <2> QED
    BY <1>0, <1>3, <2>4, <2>5, <2>6, <2>8, HolderStep DEF StoreBlock, Goto
<1>4. CASE WriteCommand(t)
  <2>1. PICK m \in Modes : PutCommand(t, m)
    BY <1>4, <1>a DEF WriteCommand, BlockMode, Modes
  <2>2. Seen(t) < Size /\ pc[t] \in {"stored", "filling"}
    BY <1>4, <1>a, FullIs, PushOccupies DEF WriteCommand, SeesFull, Seen, PushAt, At, Issuing
  <2> DEFINE f == [frame[t] EXCEPT !.mode = m]
             e == [type |-> frame[t].type, block |-> frame[t].block, by |-> t, mode |-> m,
                   addr |-> BufferAddr(t, m)]
             s == frame[t].wptr % Size
  <2>3. frame' = [frame EXCEPT ![t] = f] /\ f \in Frame
    BY <2>1, <1>a DEF PutCommand, Frame
  <2>4. e \in Command
    BY <1>0, <1>a, BufferAddrIs DEF Command, BlockAt, Inv, Frame
  <2>5. s \in Slot
    BY <1>a, SlotOf
  <2>6. reqEntry' = [reqEntry EXCEPT ![c] = [reqEntry[c] EXCEPT ![s] = e]]
    BY <2>1, <1>a DEF PutCommand
  <2> HIDE DEF e, s
  <2>7. reqEntry' \in [Core -> [Slot -> Command \cup {NoCommand}]] /\ reqEntry'[c][s] = e
    BY <1>a, <2>4, <2>5, <2>6 DEF Inv, TypeOK
  <2>11. /\ frame'[t] = f /\ pc'[t] = "commanded" /\ ActiveCore(t)' = c
         /\ reqWptr' = reqWptr /\ reqRptr' = reqRptr
         /\ f.wptr = frame[t].wptr /\ f.rptr = frame[t].rptr
         /\ f.type = frame[t].type /\ f.block = frame[t].block /\ f.mode = m
         /\ f.left = frame[t].left /\ f.respRptr = frame[t].respRptr
    BY <2>1, <2>3, <1>a DEF PutCommand, Goto, ActiveCore, Frame
  <2> HIDE DEF f
  <2>8. TypeOK'
    BY <2>1, <2>3, <2>7, ThreadType, ThreadTypes DEF Inv, PutCommand, Goto, LockedLabels
  <2>9. RingInv'
    BY <2>1 DEF Inv, RingInv, InRing, PutCommand
  <2>10. BlockAt(t)'
    BY <2>1, <2>2, <1>a, <2>11 DEF BlockAt, PutCommand, LockedLabels
  <2>12. BufferAddr(t, m)' = BufferAddr(t, m)
    BY <2>11, <1>a DEF BufferAddr, ActiveCore
  <2>13. Written(t)'
    BY <1>a, <2>4, <2>7, <2>11, <2>12 DEF Written, e, s
  <2>14. PushAt(t)'
    BY <2>2, <1>a, <2>11, <2>13 DEF PushAt, Issuing, InRing, Seen
  <2> QED
    BY <1>0, <2>1, <2>8, <2>9, <2>10, <2>14, HolderStep DEF PutCommand, Goto
<1>5. CASE WriteWptr(t)
  <2> DEFINE w == Advance(frame[t].wptr)
             f == [frame[t] EXCEPT !.wptr = w]
  <2>0. /\ w \in Pointer /\ frame[t].wptr = reqWptr[c]
        /\ InRing(c) <= Seen(t) /\ Seen(t) < Size
    BY <1>5, <1>a, AdvanceIs DEF WriteWptr, At, PushAt, Issuing
  <2> HIDE DEF w
  <2>1. frame' = [frame EXCEPT ![t] = f] /\ reqWptr' = [reqWptr EXCEPT ![c] = w]
    BY <1>5, <1>a DEF WriteWptr, w
  <2>2. f \in Frame
    BY <1>a, <2>0 DEF Frame
  <2>10. f.wptr = w /\ f.rptr = frame[t].rptr /\ f.block = frame[t].block /\ f.left = frame[t].left
    BY <1>a DEF Frame
  <2> HIDE DEF f
  <2>3. TypeOK'
    <3>1. reqWptr' \in [Core -> Pointer]
      BY <2>0, <2>1, ThreadTypes DEF Inv
    <3> QED
      BY <1>5, <2>1, <2>2, <3>1, ThreadType, ThreadTypes DEF Inv, WriteWptr, Goto, LockedLabels
  <2>4. /\ Occupied(w, reqRptr[c]) = InRing(c) + 1
        /\ Occupied(w, frame[t].rptr) = Seen(t) + 1 /\ Seen(t) \in 0 .. Size
    <3>1. Seen(t) \in 0 .. Size
      BY <1>a, <2>0, OccupiedNat DEF Seen
    <3>2. Occupied(Advance(frame[t].wptr), frame[t].rptr) = Seen(t) + 1
      BY <1>a, <2>0, <3>1, PushOccupies DEF Seen
    <3>3. Occupied(Advance(reqWptr[c]), reqRptr[c]) = InRing(c) + 1
      BY <1>a, <2>0, <3>1, PushOccupies DEF InRing
    <3> QED
      BY <2>0, <3>1, <3>2, <3>3 DEF w
  <2>5. \A d \in Core : InRing(d)' = IF d = c THEN InRing(c) + 1 ELSE InRing(d)
    BY <1>5, <1>a, <2>1, <2>4 DEF Inv, TypeOK, InRing, WriteWptr
  <2>6. RingInv'
    BY <1>a, <2>0, <2>4, <2>5 DEF Inv, RingInv
  <2>7. BlockAt(t)'
    BY <1>5, <1>a, <2>1, <2>10 DEF BlockAt, WriteWptr, At, Goto, LockedLabels
  <2>8. Seen(t)' = Seen(t) + 1 /\ ActiveCore(t)' = c /\ reqWptr'[c] = frame'[t].wptr
    BY <1>5, <1>a, <2>1, <2>4, <2>10 DEF Seen, ActiveCore, WriteWptr, Inv, TypeOK
  <2>9. PushAt(t)'
    BY <1>5, <1>a, <2>0, <2>4, <2>5, <2>8 DEF PushAt, WriteWptr, At, Goto, Issuing
  <2> QED
    BY <1>0, <1>5, <2>3, <2>6, <2>7, <2>9, HolderStep DEF WriteWptr, Goto
<1> QED
  BY <1>1, <1>2, <1>3, <1>4, <1>5

(* The next block of the call, or its end.                                 *)
LEMMA NextBlockIs ==
  ASSUME Inv, NEW t \in Thread, pc[t] \in LockedLabels \ {"returning"},
         NEW g \in Frame, g.block = frame[t].block, g.left = frame[t].left,
         NEW h, h = [frame EXCEPT ![t] = g], NextBlock(t, h), issued' = issued
  PROVE  \E f \in Frame, l \in {"filling", "returning"} :
           /\ frame' = [frame EXCEPT ![t] = f] /\ pc' = [pc EXCEPT ![t] = l]
           /\ f.wptr = g.wptr /\ f.rptr = g.rptr /\ f.respRptr = g.respRptr
           /\ BlockAt(t)'
<1>1. /\ frame \in [Thread -> Frame] /\ issued \in 0 .. MaxBlocks /\ BlockAt(t)
      /\ pc \in [Thread -> {"idle"} \cup LockedLabels \cup FlushLabels]
  BY DEF Inv, TypeOK, BlockInv
<1>2. /\ frame[t].left \in 1 .. MaxCallBlocks /\ frame[t].block \in 1 .. MaxBlocks
      /\ frame[t].block + frame[t].left <= issued + 1
  BY <1>1 DEF BlockAt, Frame, Block
<1> DEFINE b == IF g.left > 1 THEN g.block + 1 ELSE g.block
           f == [g EXCEPT !.left = g.left - 1, !.block = b]
           l == IF g.left > 1 THEN "filling" ELSE "returning"
<1>3. b \in 1 .. MaxBlocks /\ g.left - 1 \in 0 .. MaxCallBlocks
  BY <1>1, <1>2
<1> HIDE DEF b
<1>4. f \in Frame
  <2>1. \A n \in 0 .. MaxCallBlocks, m \in 0 .. MaxBlocks :
          [g EXCEPT !.left = n, !.block = m] \in Frame
    BY DEF Frame
  <2>2. b \in 0 .. MaxBlocks
    BY <1>3
  <2> QED
    BY <1>3, <2>1, <2>2, Zenon
<1>5. /\ f.wptr = g.wptr /\ f.rptr = g.rptr /\ f.respRptr = g.respRptr
      /\ f.left = g.left - 1 /\ f.block = b
  BY DEF Frame
<1>6. frame' = [frame EXCEPT ![t] = f]
  BY <1>1 DEF NextBlock, Frame, b
<1>7. pc' = [pc EXCEPT ![t] = l]
  BY <1>1 DEF NextBlock, Goto
<1>8. frame'[t] = f /\ pc'[t] = l
  BY <1>1, <1>6, <1>7
<1> HIDE DEF f
<1>9. BlockAt(t)'
  BY <1>1, <1>2, <1>3, <1>5, <1>8 DEF BlockAt, Block, LockedLabels, b
<1> QED
  BY <1>4, <1>5, <1>6, <1>7, <1>9

(* The steps of a call after its command was published.                    *)
LEMMA CompleteInvariant ==
  ASSUME Inv, NEW t \in Thread,
         \/ AfterWrite(t) \/ AfterRead(t) \/ ResponseWptrMoved(t) \/ ResponseFlagsSet(t)
         \/ TakeData(t) \/ WriteResponseRptr(t) \/ Return(t)
  PROVE  Inv'
<1> USE DEF callVars, instanceVars, requestVars, responseVars, coreVars, bufferVars
<1>0. pc[t] \in LockedLabels
  BY DEF AfterWrite, AfterRead, ResponseWptrMoved, ResponseFlagsSet, TakeData,
     WriteResponseRptr, Return, At, LockedLabels
<1>c. PICK c \in Core : c = ActiveCore(t)
  BY <1>0, HolderFacts
<1>a. /\ frame[t] \in Frame /\ ActiveCore(t) = c /\ c = active[InstanceOf[t]]
      /\ frame[t].wptr \in Pointer /\ frame[t].rptr \in Pointer
      /\ frame[t].respRptr \in Pointer
      /\ reqWptr[c] \in Pointer /\ reqRptr[c] \in Pointer /\ InRing(c) \in 0 .. Size
      /\ BlockAt(t) /\ PushAt(t)
      /\ frame \in [Thread -> Frame]
      /\ pc \in [Thread -> {"idle"} \cup LockedLabels \cup FlushLabels]
  BY <1>0, <1>c, HolderFacts DEF Inv, TypeOK, ActiveCore
<1>1. CASE AfterWrite(t) /\ SeesFull(t)
  <2>0. PICK d \in Core : d = NextCore(c)
    BY NextCoreIs
  <2> DEFINE g == [frame[t] EXCEPT !.wptr = reqWptr[d], !.rptr = reqRptr[d]]
  <2>1. reqWptr[d] \in Pointer /\ reqRptr[d] \in Pointer /\ InRing(d) \in 0 .. Size
    BY <1>0, HolderFacts
  <2>2. WithPtrsOf(d, t) = [frame EXCEPT ![t] = g] /\ g \in Frame
    BY <1>a, <2>1 DEF WithPtrsOf, Frame
  <2>3. /\ g.wptr = reqWptr[d] /\ g.rptr = reqRptr[d]
        /\ g.block = frame[t].block /\ g.left = frame[t].left
    BY <1>a DEF Frame
  <2> HIDE DEF g
  <2>12. /\ NextBlock(t, [frame EXCEPT ![t] = g]) /\ issued' = issued
         /\ pc[t] \in LockedLabels \ {"returning"}
    BY <1>1, <1>a, <2>0, <2>2 DEF AfterWrite, At, LockedLabels
  <2>4. PICK f \in Frame, l \in {"filling", "returning"} :
          /\ frame' = [frame EXCEPT ![t] = f] /\ pc' = [pc EXCEPT ![t] = l]
          /\ f.wptr = g.wptr /\ f.rptr = g.rptr /\ f.respRptr = g.respRptr
          /\ BlockAt(t)'
    BY <2>2, <2>3, <2>12, NextBlockIs
  <2>5. active' = [active EXCEPT ![InstanceOf[t]] = d]
    BY <1>1, <1>a, <2>0 DEF AfterWrite
  <2>6. active' \in [Instance -> Core] /\ ActiveCore(t)' = d
    BY <2>5, ThreadTypes DEF Inv, ActiveCore
  <2>7. TypeOK'
    BY <1>1, <2>4, <2>6, ThreadType, ThreadTypes DEF Inv, AfterWrite, LockedLabels
  <2>8. RingInv'
    BY <1>1 DEF Inv, RingInv, InRing, AfterWrite
  <2>9. /\ frame'[t] = f /\ pc'[t] = l
        /\ reqWptr' = reqWptr /\ reqRptr' = reqRptr
    BY <1>1, <1>a, <2>4 DEF AfterWrite
  <2>10. Seen(t)' = InRing(d)' /\ InRing(d)' = InRing(d)
    BY <2>3, <2>4, <2>9 DEF Seen, InRing
  <2>11. PushAt(t)'
    BY <2>1, <2>3, <2>4, <2>6, <2>9, <2>10 DEF PushAt, Issuing
  <2> QED
    BY <1>0, <1>1, <2>4, <2>7, <2>8, <2>11, HolderStep DEF AfterWrite
<1>2. CASE AfterWrite(t) /\ ~SeesFull(t)
  <2>1. frame = [frame EXCEPT ![t] = frame[t]]
    BY <1>a
  <2>2. PICK f \in Frame, l \in {"filling", "returning"} :
          /\ frame' = [frame EXCEPT ![t] = f] /\ pc' = [pc EXCEPT ![t] = l]
          /\ f.wptr = frame[t].wptr /\ f.rptr = frame[t].rptr
          /\ f.respRptr = frame[t].respRptr /\ BlockAt(t)'
    BY <1>2, <1>a, <2>1, NextBlockIs DEF AfterWrite, At, LockedLabels
  <2>3. TypeOK'
    BY <1>2, <2>2, ThreadType, ThreadTypes DEF Inv, AfterWrite, LockedLabels
  <2>4. RingInv'
    BY <1>2 DEF Inv, RingInv, InRing, AfterWrite
  <2>5. /\ frame'[t] = f /\ pc'[t] = l /\ ActiveCore(t)' = c
        /\ reqWptr' = reqWptr /\ reqRptr' = reqRptr
    BY <1>2, <1>a, <2>2 DEF AfterWrite, ActiveCore
  <2>6. PushAt(t)'
    BY <1>2, <1>a, <2>2, <2>5 DEF PushAt, Issuing, Seen, InRing, AfterWrite, At
  <2> QED
    BY <1>0, <1>2, <2>2, <2>3, <2>4, <2>6, HolderStep DEF AfterWrite
<1>3. CASE AfterRead(t)
  <2> DEFINE f == IF SeesFull(t) THEN [frame[t] EXCEPT !.wptr = reqWptr[c], !.rptr = reqRptr[c]]
                  ELSE frame[t]
  <2>1. frame' = [frame EXCEPT ![t] = f]
    BY <1>3, <1>a DEF AfterRead, WithPtrsOf
  <2>2. f \in Frame /\ f.block = frame[t].block /\ f.left = frame[t].left
    BY <1>a DEF Frame
  <2>3. \/ f.wptr = reqWptr[c] /\ f.rptr = reqRptr[c]
        \/ f.wptr = frame[t].wptr /\ f.rptr = frame[t].rptr
    BY <1>a DEF Frame
  <2> HIDE DEF f
  <2>4. TypeOK'
    BY <1>3, <2>1, <2>2, ThreadType, ThreadTypes DEF Inv, AfterRead, Goto, LockedLabels
  <2>5. RingInv'
    BY <1>3 DEF Inv, RingInv, InRing, AfterRead
  <2>6. /\ frame'[t] = f /\ pc'[t] = "awaiting" /\ ActiveCore(t)' = c
        /\ reqWptr' = reqWptr /\ reqRptr' = reqRptr /\ issued' = issued
    BY <1>3, <1>a, <2>1 DEF AfterRead, Goto, ActiveCore
  <2>7. BlockAt(t)'
    BY <1>3, <1>a, <2>2, <2>6 DEF BlockAt, AfterRead, At, LockedLabels
  <2>8. PushAt(t)'
    BY <1>3, <1>a, <2>3, <2>6 DEF PushAt, Issuing, Seen, InRing, AfterRead, At
  <2> QED
    BY <1>0, <1>3, <2>4, <2>5, <2>7, <2>8, HolderStep DEF AfterRead, Goto
<1>4. CASE ResponseWptrMoved(t) \/ ResponseFlagsSet(t)
  <2>1. PICK l \in {"flagging", "taking", "mismatch"} : pc' = [pc EXCEPT ![t] = l]
    BY <1>4 DEF ResponseWptrMoved, ResponseFlagsSet, Goto
  <2>2. /\ UNCHANGED <<frame, holders, issued, active, reqWptr, reqRptr>>
        /\ frame = [frame EXCEPT ![t] = frame[t]]
    BY <1>4, <1>a DEF ResponseWptrMoved, ResponseFlagsSet
  <2>3. TypeOK'
    BY <1>4, <1>a, <2>1, <2>2, ThreadType, ThreadTypes
       DEF Inv, ResponseWptrMoved, ResponseFlagsSet, LockedLabels
  <2>4. RingInv'
    BY <2>2 DEF Inv, RingInv, InRing
  <2>5. pc[t] \in {"awaiting", "flagging"} /\ pc'[t] = l
    BY <1>4, <1>a, <2>1 DEF ResponseWptrMoved, ResponseFlagsSet, At
  <2>6. BlockAt(t)' /\ PushAt(t)'
    BY <1>a, <2>2, <2>5 DEF BlockAt, PushAt, LockedLabels, Issuing, Seen, InRing, ActiveCore
  <2> QED
    BY <1>0, <2>1, <2>2, <2>3, <2>4, <2>6, HolderStep
<1>5. CASE TakeData(t)
  <2>1. PICK v \in 0 .. MaxBlocks : frame' = [frame EXCEPT ![t] = [frame[t] EXCEPT !.got = v]]
    <3> DEFINE v == CASE frame[t].mode = "word"  -> Answer(t).data
                      [] frame[t].mode = "block" -> buffer[c][BufferAddr(t, "block")]
                      [] frame[t].mode = "dram"  -> host[BufferAddr(t, "dram")]
    <3>1. frame' = [frame EXCEPT ![t] = [frame[t] EXCEPT !.got = v]]
      BY <1>5, <1>a DEF TakeData
    <3>2. frame[t].respRptr % Size \in Slot /\ frame[t].wptr % Size \in Slot
      BY <1>a, SlotOf
    <3>3. Answer(t).data \in 0 .. MaxBlocks
      BY <1>a, <3>2 DEF Answer, Inv, TypeOK
    <3>4. host[BufferAddr(t, "dram")] \in 0 .. MaxBlocks
      BY BufferAddrIs DEF Inv, TypeOK, Modes
    <3>5. BufferAddr(t, "block") \in Slot
      BY <3>2 DEF BufferAddr
    <3>6. buffer[c][BufferAddr(t, "block")] \in 0 .. MaxBlocks
      BY <3>5 DEF Inv, TypeOK
    <3>7. frame[t].mode \in {"word", "block", "dram"}
      BY <1>a DEF Frame, Modes
    <3>8. v \in 0 .. MaxBlocks
      BY <3>3, <3>4, <3>6, <3>7
    <3> QED
      BY <3>1, <3>8
  <2> DEFINE f == [frame[t] EXCEPT !.got = v]
  <2>2. /\ f \in Frame /\ f.wptr = frame[t].wptr /\ f.rptr = frame[t].rptr
        /\ f.block = frame[t].block /\ f.left = frame[t].left
    BY <1>a DEF Frame
  <2>3. frame' = [frame EXCEPT ![t] = f]
    BY <2>1
  <2> HIDE DEF f
  <2>4. TypeOK'
    BY <1>5, <2>2, <2>3, ThreadType, ThreadTypes DEF Inv, TakeData, Goto, LockedLabels
  <2>5. RingInv'
    BY <1>5 DEF Inv, RingInv, InRing, TakeData
  <2>6. /\ frame'[t] = f /\ pc'[t] = "advancing" /\ ActiveCore(t)' = c
        /\ reqWptr' = reqWptr /\ reqRptr' = reqRptr /\ issued' = issued
    BY <1>5, <1>a, <2>3 DEF TakeData, Goto, ActiveCore
  <2>7. BlockAt(t)'
    BY <1>5, <1>a, <2>2, <2>6 DEF BlockAt, TakeData, At, LockedLabels
  <2>8. PushAt(t)'
    BY <1>5, <1>a, <2>2, <2>6 DEF PushAt, Issuing, Seen, InRing, TakeData, At
  <2> QED
    BY <1>0, <1>5, <2>4, <2>5, <2>7, <2>8, HolderStep DEF TakeData, Goto
<1>6. CASE WriteResponseRptr(t)
  <2> DEFINE next == Advance(frame[t].respRptr)
             g == [frame[t] EXCEPT !.respRptr = next]
  <2>1. next \in Pointer
    BY <1>a, AdvanceIs
  <2> HIDE DEF next
  <2>2. respRptr' = [respRptr EXCEPT ![c] = next] /\ respRptr' \in [Core -> Pointer]
    BY <1>6, <1>a, <2>1, ThreadTypes DEF WriteResponseRptr, Inv, next
  <2>3. CASE At(t, "mismatch") /\ End(t)
    BY <1>0, <1>6, <2>2, <2>3, EndStep DEF WriteResponseRptr
  <2>4. CASE /\ At(t, "advancing") /\ UNCHANGED holders
             /\ NextBlock(t, [frame EXCEPT ![t].respRptr = next])
    <3>1. [frame EXCEPT ![t].respRptr = next] = [frame EXCEPT ![t] = g] /\ g \in Frame
      BY <1>a, <2>1 DEF Frame
    <3>2. /\ g.wptr = frame[t].wptr /\ g.rptr = frame[t].rptr
          /\ g.block = frame[t].block /\ g.left = frame[t].left
      BY <1>a DEF Frame
    <3> HIDE DEF g
    <3>3. PICK f \in Frame, l \in {"filling", "returning"} :
            /\ frame' = [frame EXCEPT ![t] = f] /\ pc' = [pc EXCEPT ![t] = l]
            /\ f.wptr = g.wptr /\ f.rptr = g.rptr /\ f.respRptr = g.respRptr
            /\ BlockAt(t)'
      BY <1>6, <2>4, <3>1, <3>2, NextBlockIs DEF WriteResponseRptr, At, LockedLabels
    <3>4. TypeOK'
      BY <1>6, <2>2, <2>4, <3>3, ThreadType, ThreadTypes DEF Inv, WriteResponseRptr, LockedLabels
    <3>5. RingInv'
      BY <1>6 DEF Inv, RingInv, InRing, WriteResponseRptr
    <3>6. /\ frame'[t] = f /\ pc'[t] = l /\ ActiveCore(t)' = c
          /\ reqWptr' = reqWptr /\ reqRptr' = reqRptr
      BY <1>6, <1>a, <3>3 DEF WriteResponseRptr, ActiveCore
    <3>7. PushAt(t)'
      BY <1>a, <2>4, <3>2, <3>3, <3>6 DEF PushAt, Issuing, Seen, InRing, At
    <3> QED
      BY <1>0, <2>4, <3>3, <3>4, <3>5, <3>7, HolderStep
  <2> QED
    BY <1>6, <2>3, <2>4 DEF WriteResponseRptr, next
<1>7. CASE Return(t)
  BY <1>0, <1>7, EndStep, ThreadTypes DEF Return, Inv
<1> QED
  BY <1>1, <1>2, <1>3, <1>4, <1>5, <1>6, <1>7

(* A refused broadcast and the timeouts of a transfer.                     *)
LEMMA ThrowInvariant ==
  ASSUME Inv, NEW t \in Thread,
         \/ RefuseBroadcast(t)
         \/ TimeOut(t) /\ ~FlushTimesOut(t)
  PROVE  Inv'
<1>1. pc[t] \in LockedLabels /\ End(t)
  BY DEF RefuseBroadcast, TimeOut, At, LockedLabels
<1>2. UNCHANGED <<issued, instanceVars, coreVars, bufferVars>>
  BY DEF RefuseBroadcast, TimeOut
<1> QED
  BY <1>1, <1>2, EndStep, ThreadTypes DEF Inv, coreVars, responseVars

(* wait_for_non_mmio_flush, which has no lock.                             *)
LEMMA FlushInvariant ==
  ASSUME Inv, NEW t \in Thread,
         \/ StartFlush(t) \/ QueueDrained(t) \/ WritesAcked(t) \/ ClearFlush(t)
         \/ FlushReturns(t)
         \/ TimeOut(t) /\ FlushTimesOut(t)
  PROVE  Inv'
<1> USE DEF instanceVars, requestVars, responseVars, coreVars, bufferVars
<1>0. /\ frame \in [Thread -> Frame] /\ flush \in [Instance -> BOOLEAN]
      /\ pc \in [Thread -> {"idle"} \cup LockedLabels \cup FlushLabels]
      /\ frame = [frame EXCEPT ![t] = frame[t]]
  BY DEF Inv, TypeOK
<1>1. CASE StartFlush(t) \/ FlushReturns(t)
  <2>1. PICK l \in {"idle", "draining", "flushed"} : pc' = [pc EXCEPT ![t] = l]
    BY <1>1 DEF StartFlush, FlushReturns, Goto
  <2>2. TypeOK'
    <3>1. UNCHANGED <<holders, frame, issued, instanceVars, coreVars, bufferVars>>
      BY <1>1 DEF StartFlush, FlushReturns
    <3> QED
      BY <1>0, <2>1, <3>1, ThreadType, ThreadTypes DEF Inv, FlushLabels
  <2>3. pc[t] \in {"idle", "flushed"}
    BY <1>1 DEF StartFlush, FlushReturns, At
  <2> QED
    BY <1>1, <2>1, <2>2, <2>3, OutsideStep DEF StartFlush, FlushReturns, LockedLabels
<1>2. CASE QueueDrained(t) \/ WritesAcked(t)
  <2>0. frame[t].scan \in Core /\ NextCore(frame[t].scan) \in Core
    BY <1>0, NextCoreIs DEF Frame
  <2> DEFINE f == [frame[t] EXCEPT !.scan = NextCore(frame[t].scan)]
  <2>1. frame' = [frame EXCEPT ![t] = f]
    BY <1>0, <1>2 DEF QueueDrained, WritesAcked, Pass
  <2>2. f \in Frame
    BY <1>0, <2>0 DEF Frame
  <2>3. pc[t] \in {"draining", "acking"}
    BY <1>2 DEF QueueDrained, WritesAcked, At
  <2>4. PICK l \in {"draining", "acking", "clearing"} : pc' = [pc EXCEPT ![t] = l]
    BY <1>2, <2>3 DEF QueueDrained, WritesAcked, Pass, Goto
  <2> HIDE DEF f
  <2>5. TypeOK'
    BY <1>2, <2>1, <2>2, <2>4, ThreadType, ThreadTypes
       DEF Inv, QueueDrained, WritesAcked, Pass, FlushLabels
  <2>6. \A u \in Thread \ {t} : frame'[u] = frame[u]
    BY <1>0, <2>1
  <2> QED
    BY <1>2, <2>3, <2>4, <2>5, <2>6, OutsideStep
       DEF QueueDrained, WritesAcked, Pass, LockedLabels
<1>3. CASE ClearFlush(t)
  <2>1. flush' \in [Instance -> BOOLEAN]
    BY <1>0, <1>3, Zenon DEF ClearFlush
  <2>2. pc' \in [Thread -> {"idle"} \cup LockedLabels \cup FlushLabels]
    BY <1>0, <1>3 DEF ClearFlush, Goto, FlushLabels
  <2>3. TypeOK'
    BY <1>3, <2>1, <2>2 DEF Inv, TypeOK, ClearFlush
  <2> QED
    BY <1>3, <2>3, OutsideStep DEF ClearFlush, At, Goto, LockedLabels
<1>4. CASE TimeOut(t) /\ FlushTimesOut(t)
  <2>1. TypeOK'
    BY <1>4, NoFrameIs, ThreadType, ThreadTypes DEF Inv, TimeOut, FlushTimesOut, Goto
  <2>2. \A u \in Thread \ {t} : frame'[u] = frame[u]
    BY <1>0, <1>4 DEF FlushTimesOut
  <2> QED
    BY <1>4, <2>1, <2>2, OutsideStep DEF TimeOut, FlushTimesOut, Goto, LockedLabels
<1> QED
  BY <1>1, <1>2, <1>3, <1>4

(* The death of a process: its threads are gone, the lock with them; the   *)
(* rings stay as they are.                                                 *)
LEMMA CrashInvariant == ASSUME Inv, NEW i \in Instance, Crash(i) PROVE Inv'
<1> USE DEF coreVars, requestVars, responseVars, bufferVars
<1>1. TypeOK'
  <2>1. /\ flush' \in [Instance -> BOOLEAN] /\ active' \in [Instance -> Core]
    <3>1. 0 \in Core
      BY DEF Core
    <3>2. active' \in [Instance -> Core]
      BY <3>1 DEF Inv, TypeOK, Crash
    <3>3. flush' \in [Instance -> BOOLEAN]
      <4>1. flush \in [Instance -> BOOLEAN]
        BY DEF Inv, TypeOK
      <4> QED
        BY <4>1, Zenon DEF Crash
    <3> QED
      BY <3>2, <3>3
  <2>2. /\ pc' \in [Thread -> {"idle"} \cup LockedLabels \cup FlushLabels]
        /\ frame' \in [Thread -> Frame] /\ holders' \in SUBSET Thread
    BY NoFrameIs DEF Inv, TypeOK, Crash
  <2> QED
    BY <2>1, <2>2 DEF Inv, TypeOK, Crash
<1>2. \A u \in Thread : InstanceOf[u] = i => pc'[u] = "idle"
  BY DEF Inv, TypeOK, Crash
<1>3. \A u \in Thread : InstanceOf[u] # i =>
        /\ pc'[u] = pc[u] /\ frame'[u] = frame[u]
        /\ active'[InstanceOf[u]] = active[InstanceOf[u]]
  BY DEF Inv, TypeOK, Crash
<1>4. LockInv'
  BY <1>2, <1>3 DEF Inv, LockInv, Crash, LockedLabels
<1>5. BlockInv'
  BY <1>2, <1>3 DEF Inv, BlockInv, BlockAt, Crash, LockedLabels
<1>6. RingInv'
  BY DEF Inv, RingInv, InRing, Crash
<1>7. PushInv'
  <2> SUFFICES ASSUME NEW u \in Thread, pc'[u] \in Issuing PROVE PushAt(u)'
    BY DEF PushInv, PushAt
  <2>1. InstanceOf[u] # i
    BY <1>2 DEF Issuing
  <2>2. PushAt(u) /\ UNCHANGED <<pc[u], frame[u], active[InstanceOf[u]], coreVars>>
    BY <1>3, <2>1 DEF Inv, PushInv, Crash
  <2> QED
    BY <2>2 DEF PushAt, Seen, InRing, Written, ActiveCore, BufferAddr
<1> QED
  BY <1>1, <1>4, <1>5, <1>6, <1>7 DEF Inv

(* A core that takes a command makes room.                                 *)
LEMMA TakeStep ==
  ASSUME Inv, NEW c \in Core, TypeOK', reqRptr[c] # reqWptr[c],
         reqRptr' = [reqRptr EXCEPT ![c] = Advance(reqRptr[c])],
         UNCHANGED <<callVars, instanceVars, reqWptr, reqEntry>>
  PROVE  Inv'
<1> USE DEF callVars, instanceVars
<1>1. /\ reqWptr \in [Core -> Pointer] /\ reqRptr \in [Core -> Pointer]
  BY DEF Inv, TypeOK
<1>2. /\ InRing(c) \in 0 .. Size
      /\ Occupied(reqWptr[c], Advance(reqRptr[c])) = InRing(c) - 1
  BY <1>1, PushOccupies DEF Inv, RingInv, InRing
<1>3. \A d \in Core : InRing(d)' = IF d = c THEN InRing(c) - 1 ELSE InRing(d)
  BY <1>1, <1>2 DEF InRing
<1>4. RingInv'
  BY <1>2, <1>3 DEF Inv, RingInv
<1>5. LockInv' /\ BlockInv'
  BY DEF Inv, LockInv, BlockInv, BlockAt
<1>6. PushInv'
  <2> SUFFICES ASSUME NEW t \in Thread, pc[t] \in Issuing PROVE PushAt(t)'
    BY DEF PushInv, PushAt
  <2>1. PushAt(t) /\ ActiveCore(t) \in Core /\ InRing(ActiveCore(t)) \in 0 .. Size
        /\ Seen(t) \in Nat
    BY HolderFacts, OccupiedNat DEF LockedLabels, Issuing, Seen
  <2>2. PICK d \in Core : d = ActiveCore(t)
    BY <2>1
  <2>3. Seen(t)' = Seen(t) /\ ActiveCore(t)' = d /\ InRing(d)' <= InRing(d)
    BY <1>2, <1>3, <2>1, <2>2 DEF Seen, ActiveCore
  <2>4. Written(t) => Written(t)'
    BY DEF Written, ActiveCore, BufferAddr
  <2>5. InRing(d)' \in Int
    BY <1>2, <1>3, <2>1, <2>2
  <2> QED
    BY <2>1, <2>2, <2>3, <2>4, <2>5 DEF PushAt
<1> QED
  BY <1>4, <1>5, <1>6 DEF Inv

(* Steps of the firmware.                                                  *)
LEMMA FirmwareInvariant == ASSUME Inv, NEW c \in Core, Firmware(c) PROVE Inv'
<1> USE DEF callVars, instanceVars, requestVars, responseVars, bufferVars
<1>0. /\ reqRptr \in [Core -> Pointer] /\ reqRptr[c] % Size \in Slot
      /\ Advance(reqRptr[c]) \in Pointer
      /\ Oldest(c) \in Command \cup {NoCommand}
      /\ respWptr \in [Core -> Pointer] /\ Advance(respWptr[c]) \in Pointer
      /\ reading \in [Core -> Command \cup {NoCommand}]
      /\ unacked \in [Core -> SUBSET Command]
      /\ respEntry \in [Core -> [Slot -> [flags : Modes \cup {NoFlags}, data : 0 .. MaxBlocks]]]
      /\ host \in [0 .. NumCores * Size - 1 -> 0 .. MaxBlocks]
      /\ buffer \in [Core -> [Slot -> 0 .. MaxBlocks]]
  BY SlotOf, AdvanceIs DEF Inv, TypeOK, Oldest
<1>1. CASE FwWrite(c)
  <2>1. Oldest(c) \in Command
    BY <1>0, <1>1 DEF FwWrite, Pending, NoCommand
  <2>2. unacked' \in [Core -> SUBSET Command] /\ reqRptr' \in [Core -> Pointer]
    BY <1>0, <1>1, <2>1 DEF FwWrite
  <2>3. TypeOK'
    BY <1>1, <2>2 DEF Inv, TypeOK, FwWrite
  <2> QED
    BY <1>1, <2>3, TakeStep DEF FwWrite, Pending
<1>2. CASE FwAck(c)
  <2>1. unacked' \in [Core -> SUBSET Command]
    BY <1>0, <1>2 DEF FwAck
  <2>2. TypeOK'
    BY <1>2, <2>1 DEF Inv, TypeOK, FwAck
  <2> QED
    BY <1>2, <2>2 DEF FwAck, Inv, LockInv, BlockInv, BlockAt, RingInv, InRing, PushInv, PushAt,
       Seen, Written, ActiveCore, BufferAddr
<1>3. CASE FwStartRead(c)
  <2> DEFINE s == respWptr[c] % Size
  <2>1. Oldest(c) \in Command
    BY <1>0, <1>3 DEF FwStartRead, Pending, NoCommand
  <2>2. /\ reading' \in [Core -> Command \cup {NoCommand}] /\ reqRptr' \in [Core -> Pointer]
        /\ respWptr' \in [Core -> Pointer]
    BY <1>0, <1>3, <2>1 DEF FwStartRead
  <2>3. s \in Slot
    BY <1>0, SlotOf
  <2> HIDE DEF s
  <2>4. respEntry' = [respEntry EXCEPT ![c] =
                        [respEntry[c] EXCEPT ![s] = [respEntry[c][s] EXCEPT !.flags = NoFlags]]]
    BY <1>0, <1>3, <2>3 DEF FwStartRead, s
  <2>5. [respEntry[c][s] EXCEPT !.flags = NoFlags]
          \in [flags : Modes \cup {NoFlags}, data : 0 .. MaxBlocks]
    <3>1. respEntry[c][s] \in [flags : Modes \cup {NoFlags}, data : 0 .. MaxBlocks]
      BY <1>0, <2>3
    <3> QED
      BY <3>1
  <2>6. respEntry' \in [Core -> [Slot -> [flags : Modes \cup {NoFlags}, data : 0 .. MaxBlocks]]]
    BY <1>0, <2>3, <2>4, <2>5
  <2>7. TypeOK'
    BY <1>3, <2>2, <2>6 DEF Inv, TypeOK, FwStartRead
  <2> QED
    BY <1>3, <2>7, TakeStep DEF FwStartRead, Pending
<1>4. CASE FwFinishRead(c)
  <2> DEFINE m == reading[c]
             s == (respWptr[c] + 2 * Size - 1) % Size
             e == [flags |-> m.mode, data |-> IF m.mode = "word" THEN m.block ELSE respEntry[c][s].data]
  <2>1. m \in Command /\ m.mode \in Modes /\ m.block \in 0 .. MaxBlocks
    BY <1>0, <1>4 DEF FwFinishRead, Command, Block
  <2>2. s \in Slot
    <3>1. respWptr[c] + 2 * Size - 1 \in Int
      BY <1>0 DEF Pointer
    <3> QED
      BY <3>1, ModRange DEF Slot
  <2> HIDE DEF s
  <2>3. e \in [flags : Modes \cup {NoFlags}, data : 0 .. MaxBlocks]
    BY <1>0, <2>1, <2>2
  <2>4. respEntry' = [respEntry EXCEPT ![c] = [respEntry[c] EXCEPT ![s] = e]]
    BY <1>0, <1>4, <2>2 DEF FwFinishRead, s
  <2> HIDE DEF e
  <2>5. respEntry' \in [Core -> [Slot -> [flags : Modes \cup {NoFlags}, data : 0 .. MaxBlocks]]]
    BY <1>0, <2>2, <2>3, <2>4
  <2>6. /\ host' \in [0 .. NumCores * Size - 1 -> 0 .. MaxBlocks]
        /\ buffer' \in [Core -> [Slot -> 0 .. MaxBlocks]]
    <3>1. host' \in [0 .. NumCores * Size - 1 -> 0 .. MaxBlocks]
      BY <1>0, <1>4, <2>1 DEF FwFinishRead
    <3>2. [buffer[c] EXCEPT ![m.addr] = m.block] \in [Slot -> 0 .. MaxBlocks]
      BY <1>0, <2>1
    <3>3. buffer' = buffer \/ buffer' = [buffer EXCEPT ![c] = [buffer[c] EXCEPT ![m.addr] = m.block]]
      BY <1>0, <1>4 DEF FwFinishRead
    <3> QED
      BY <1>0, <3>1, <3>2, <3>3
  <2>7. reading' \in [Core -> Command \cup {NoCommand}]
    BY <1>0, <1>4 DEF FwFinishRead
  <2>8. TypeOK'
    BY <1>4, <2>5, <2>6, <2>7 DEF Inv, TypeOK, FwFinishRead
  <2> QED
    BY <1>4, <2>8 DEF FwFinishRead, Inv, LockInv, BlockInv, BlockAt, RingInv, InRing, PushInv,
       PushAt, Seen, Written, ActiveCore, BufferAddr
<1> QED
  BY <1>1, <1>2, <1>3, <1>4 DEF Firmware

\* Every step of a thread, of the firmware, and every death keeps the inductive invariant.
LEMMA NextInvariant == Inv /\ [Next]_vars => Inv'
<1> SUFFICES ASSUME Inv, [Next]_vars PROVE Inv'
  OBVIOUS
<1>1. ASSUME NEW t \in Thread,
             StartTransfer(t) \/ RefuseBroadcast(t) \/ StartFlush(t) \/ Proceed(t)
      PROVE  Inv'
  <2>1. CASE StartTransfer(t)
    BY <2>1, StartInvariant
  <2>2. CASE ReadPtrs(t) \/ PollRptr(t) \/ StoreBlock(t) \/ WriteCommand(t) \/ WriteWptr(t)
    BY <2>2, IssueInvariant
  <2>3. CASE \/ AfterWrite(t) \/ AfterRead(t) \/ ResponseWptrMoved(t) \/ ResponseFlagsSet(t)
             \/ TakeData(t) \/ WriteResponseRptr(t) \/ Return(t)
    BY <2>3, CompleteInvariant
  <2>4. CASE \/ StartFlush(t) \/ QueueDrained(t) \/ WritesAcked(t) \/ ClearFlush(t)
             \/ FlushReturns(t)
    BY <2>4, FlushInvariant
  <2>5. CASE RefuseBroadcast(t)
    BY <2>5, ThrowInvariant
  <2>6. CASE TimeOut(t)
    BY <2>6, ThrowInvariant, FlushInvariant
  <2> QED
    BY <1>1, <2>1, <2>2, <2>3, <2>4, <2>5, <2>6 DEF Proceed
<1>2. CASE UNCHANGED vars
  BY <1>2 DEF vars, callVars, instanceVars, coreVars, requestVars, responseVars, bufferVars,
     Inv, TypeOK, LockInv, BlockInv, BlockAt, RingInv, InRing, PushInv, PushAt, Seen, Written,
     ActiveCore, BufferAddr
<1> QED
  BY <1>1, <1>2, CrashInvariant, FirmwareInvariant DEF Next

\* The inductive invariant holds in every reachable state.
LEMMA Invariance == Spec => []Inv
BY InitInvariant, NextInvariant, PTL DEF Spec

(* Every variable keeps its type: no pointer leaves 0 .. 2 * Size - 1, no  *)
(* address leaves the buffers, and only commands are ever pending.         *)
THEOREM TypeCorrect == Spec => []TypeOK
BY Invariance, PTL DEF Inv


-----------------------------------------------------------------------------
(* The request rings                                                       *)

(* The pending commands of a core, by the three variables of its ring.     *)
LEMMA RequestsAre ==
  ASSUME Inv, NEW c \in Core
  PROVE  /\ reqEntry[c] \in [Slot -> Entry]
         /\ reqWptr[c] \in Pointer /\ reqRptr[c] \in Pointer
         /\ Occupied(reqWptr[c], reqRptr[c]) \in 0 .. Size
         /\ Requests(c) \in Seq(Entry)
         /\ Len(Requests(c)) = Occupied(reqWptr[c], reqRptr[c])
<1>1. /\ reqEntry[c] \in [Slot -> Entry]
      /\ reqWptr[c] \in Pointer /\ reqRptr[c] \in Pointer
  BY DEF Inv, TypeOK, Entry
<1>2. Occupied(reqWptr[c], reqRptr[c]) \in 0 .. Size
  BY <1>1, PushOccupies DEF Inv, RingInv, InRing
<1> QED
  BY <1>1, <1>2, EntryContents DEF Requests

(* Writing a command, with the cached read pointer, falls on a free slot.  *)
LEMMA CommandStep ==
  ASSUME Inv, NEW t \in Thread, WriteCommand(t), NEW c \in Core
  PROVE  Requests(c)' = Requests(c)
<1>1. PICK a \in Core : a = ActiveCore(t)
  BY DEF Inv, TypeOK, ActiveCore
<1>2. pc[t] \in {"filling", "stored"} /\ (pc[t] = "filling" => ~SeesFull(t))
  BY DEF WriteCommand, At
<1>3. pc[t] \in LockedLabels /\ pc[t] \in Issuing
  BY <1>2 DEF LockedLabels, Issuing
<1>4. /\ frame[t].wptr \in Pointer /\ frame[t].rptr \in Pointer
      /\ frame[t].wptr = reqWptr[a] /\ InRing(a) <= Seen(t) /\ Seen(t) <= Size
      /\ pc[t] = "stored" => Seen(t) < Size
  BY <1>1, <1>3, HolderFacts DEF PushAt
<1>5. Seen(t) \in 0 .. Size /\ InRing(a) \in 0 .. Size
  BY <1>3, <1>4, HolderFacts, PushOccupies DEF Seen
<1>6. Occupied(reqWptr[a], reqRptr[a]) < Size
  BY <1>2, <1>4, <1>5, FullIs DEF SeesFull, Seen, InRing
<1>7. PICK m : /\ reqEntry' = [reqEntry EXCEPT ![a][reqWptr[a] % Size] = m]
               /\ UNCHANGED <<reqWptr, reqRptr>>
  BY <1>1, <1>4 DEF WriteCommand, PutCommand
<1>8. reqEntry \in [Core -> [Slot -> Entry]]
  BY DEF Inv, TypeOK, Entry
<1>9. CASE c # a
  BY <1>7, <1>8, <1>9 DEF Requests
<1>10. CASE c = a
  <2>1. reqEntry'[a] \in [Slot -> Entry]
    <3>1. Inv'
      BY IssueInvariant
    <3> QED
      BY <3>1 DEF Inv, TypeOK, Entry
  <2>2. \A s \in Slot : s # reqWptr[a] % Size => reqEntry'[a][s] = reqEntry[a][s]
    BY <1>7, <1>8
  <2>3. ASSUME NEW e \in [Slot -> Entry], NEW f \in [Slot -> Entry],
               NEW w \in Pointer, NEW r \in Pointer, Occupied(w, r) < Size,
               \A s \in Slot : s # w % Size => f[s] = e[s]
        PROVE  Contents(f, w, r) = Contents(e, w, r)
    BY <2>3, WriteContents
  <2>4. Contents(reqEntry'[a], reqWptr[a], reqRptr[a])
          = Contents(reqEntry[a], reqWptr[a], reqRptr[a])
    BY <1>6, <2>1, <2>2, <2>3, RequestsAre
  <2> QED
    BY <1>7, <1>10, <2>4 DEF Requests
<1> QED
  BY <1>9, <1>10

(* Publishing it, with the new write pointer, appends it.                  *)
LEMMA PublishIs ==
  ASSUME Inv, NEW t \in Thread, WriteWptr(t)
  PROVE  \E a \in Core, m \in Command :
           /\ m.type = frame[t].type /\ m.by = t /\ Len(Requests(a)) < Size
           /\ \A c \in Core : Requests(c)' = IF c = a THEN Append(Requests(a), m)
                                                      ELSE Requests(c)
<1>1. PICK a \in Core : a = ActiveCore(t)
  BY DEF Inv, TypeOK, ActiveCore
<1>2. pc[t] = "commanded" /\ pc[t] \in LockedLabels /\ pc[t] \in Issuing
  BY DEF WriteWptr, At, LockedLabels, Issuing
<1>3. /\ frame[t].wptr \in Pointer /\ frame[t].rptr \in Pointer
      /\ frame[t].wptr = reqWptr[a] /\ InRing(a) <= Seen(t) /\ Seen(t) < Size /\ Written(t)
  BY <1>1, <1>2, HolderFacts DEF PushAt
<1>4. Occupied(reqWptr[a], reqRptr[a]) < Size
  BY <1>3, OccupiedNat, RequestsAre DEF Seen, InRing
<1>5. PICK m \in Command : /\ m = reqEntry[a][reqWptr[a] % Size]
                           /\ m.type = frame[t].type /\ m.by = t
  BY <1>1, <1>3 DEF Written
<1>6. /\ reqWptr' = [reqWptr EXCEPT ![a] = Advance(reqWptr[a])]
      /\ UNCHANGED <<reqRptr, reqEntry>> /\ reqWptr \in [Core -> Pointer]
  BY <1>1, <1>3 DEF WriteWptr, Inv, TypeOK
<1>7. Contents(reqEntry[a], Advance(reqWptr[a]), reqRptr[a]) = Append(Requests(a), m)
  BY <1>4, <1>5, PushContents, RequestsAre DEF Requests
<1>8. ASSUME NEW c \in Core
      PROVE  Requests(c)' = IF c = a THEN Append(Requests(a), m) ELSE Requests(c)
  BY <1>6, <1>7 DEF Requests
<1>9. Len(Requests(a)) < Size
  BY <1>4, RequestsAre
<1> QED
  BY <1>5, <1>8, <1>9

(* A core takes the command at the head.                                   *)
LEMMA TakenIs ==
  ASSUME Inv, NEW d \in Core, FwWrite(d) \/ FwStartRead(d)
  PROVE  /\ Requests(d) # <<>> /\ Oldest(d) = Requests(d)[1]
         /\ \A c \in Core : Requests(c)' = IF c = d THEN Tail(Requests(d)) ELSE Requests(c)
<1>1. /\ reqRptr' = [reqRptr EXCEPT ![d] = Advance(reqRptr[d])] /\ reqRptr[d] # reqWptr[d]
      /\ UNCHANGED <<reqWptr, reqEntry>> /\ reqRptr \in [Core -> Pointer]
  BY DEF FwWrite, FwStartRead, Pending, Inv, TypeOK
<1>2. /\ reqEntry[d] \in [Slot -> Entry] /\ reqWptr[d] \in Pointer
      /\ reqRptr[d] \in Pointer /\ reqWptr[d] # reqRptr[d]
      /\ Occupied(reqWptr[d], reqRptr[d]) \in 0 .. Size
  BY <1>1, RequestsAre
<1>3. ASSUME NEW e \in [Slot -> Entry], NEW w \in Pointer, NEW r \in Pointer,
             w # r, Occupied(w, r) <= Size
      PROVE  /\ Contents(e, w, r) # <<>>
             /\ Contents(e, w, Advance(r)) = Tail(Contents(e, w, r))
  BY <1>3, PopContents
<1>4. /\ Requests(d) # <<>>
      /\ Contents(reqEntry[d], reqWptr[d], Advance(reqRptr[d])) = Tail(Requests(d))
  BY <1>2, <1>3 DEF Requests
<1>5. Oldest(d) = Requests(d)[1]
  <2>1. 1 \in 1 .. Occupied(reqWptr[d], reqRptr[d])
    BY <1>2, PushOccupies
  <2>2. Requests(d)[1] = reqEntry[d][(reqRptr[d] + 1 - 1) % Size]
    BY <2>1 DEF Requests, Contents
  <2>3. reqRptr[d] + 1 - 1 = reqRptr[d]
    BY <1>2 DEF Pointer
  <2> QED
    BY <2>2, <2>3 DEF Oldest
<1>6. ASSUME NEW c \in Core
      PROVE  Requests(c)' = IF c = d THEN Tail(Requests(d)) ELSE Requests(c)
  BY <1>1, <1>4 DEF Requests
<1> QED
  BY <1>4, <1>5, <1>6

(* The steps of a thread that write no command touch no request ring and   *)
(* no acknowledgement.                                                     *)
Quiet(t) ==
  \/ StartTransfer(t) \/ RefuseBroadcast(t) \/ StartFlush(t) \/ ReadPtrs(t) \/ PollRptr(t)
  \/ StoreBlock(t) \/ AfterWrite(t) \/ AfterRead(t) \/ ResponseWptrMoved(t)
  \/ ResponseFlagsSet(t) \/ TakeData(t) \/ WriteResponseRptr(t) \/ Return(t)
  \/ QueueDrained(t) \/ WritesAcked(t) \/ ClearFlush(t) \/ FlushReturns(t) \/ TimeOut(t)

\* Steps that push nothing leave the request rings alone.
LEMMA QuietStep == ASSUME NEW t \in Thread, Quiet(t) PROVE UNCHANGED <<requestVars, unacked>>
<1> USE DEF coreVars
<1>1. CASE \/ StartTransfer(t) \/ RefuseBroadcast(t) \/ StartFlush(t) \/ ReadPtrs(t)
           \/ PollRptr(t) \/ StoreBlock(t) \/ AfterWrite(t) \/ AfterRead(t)
           \/ ResponseWptrMoved(t) \/ ResponseFlagsSet(t) \/ TakeData(t)
  BY <1>1 DEF StartTransfer, Start, RefuseBroadcast, StartFlush, ReadPtrs, PollRptr,
     StoreBlock, AfterWrite, AfterRead, ResponseWptrMoved, ResponseFlagsSet, TakeData
<1>2. CASE \/ WriteResponseRptr(t) \/ Return(t) \/ QueueDrained(t) \/ WritesAcked(t)
           \/ ClearFlush(t) \/ FlushReturns(t) \/ TimeOut(t)
  BY <1>2 DEF WriteResponseRptr, Return, QueueDrained, WritesAcked, Pass, ClearFlush,
     FlushReturns, TimeOut
<1> QED
  BY <1>1, <1>2 DEF Quiet

\* Every step is, on the request ring of each core, a push, a pop or nothing.
LEMMA RequestStep ==
  Inv /\ [Next]_vars => \A c \in Core : UNCHANGED Requests(c) \/ RequestQueue(c)!Next
<1> SUFFICES ASSUME Inv, [Next]_vars, NEW c \in Core
             PROVE  Requests(c)' = Requests(c) \/ RequestQueue(c)!Next
  OBVIOUS
<1>1. ASSUME NEW t \in Thread, WriteCommand(t) PROVE Requests(c)' = Requests(c)
  BY <1>1, CommandStep
<1>2. ASSUME NEW t \in Thread, WriteWptr(t)
      PROVE  Requests(c)' = Requests(c) \/ RequestQueue(c)!Next
  <2>1. PICK a \in Core, m \in Command :
          /\ Len(Requests(a)) < Size
          /\ Requests(c)' = IF c = a THEN Append(Requests(a), m) ELSE Requests(c)
    BY <1>2, PublishIs
  <2>2. CASE c = a
    <3>1. RequestQueue(c)!Put(m)
      BY <2>1, <2>2 DEF RequestQueue!Put
    <3> QED
      BY <3>1 DEF RequestQueue!Next
  <2> QED
    BY <2>1, <2>2
<1>3. ASSUME NEW d \in Core, FwWrite(d) \/ FwStartRead(d)
      PROVE  Requests(c)' = Requests(c) \/ RequestQueue(c)!Next
  <2>1. /\ Requests(d) # <<>>
        /\ Requests(c)' = IF c = d THEN Tail(Requests(d)) ELSE Requests(c)
    BY <1>3, TakenIs
  <2>2. CASE c = d
    <3>1. RequestQueue(c)!Get
      BY <2>1, <2>2 DEF RequestQueue!Get
    <3> QED
      BY <3>1 DEF RequestQueue!Next
  <2> QED
    BY <2>1, <2>2
<1>4. ASSUME UNCHANGED requestVars PROVE Requests(c)' = Requests(c)
  BY <1>4 DEF Requests, requestVars
<1>5. ASSUME NEW t \in Thread, Quiet(t) PROVE UNCHANGED requestVars
  BY <1>5, QuietStep
<1>6. ASSUME NEW i \in Instance, Crash(i) PROVE UNCHANGED requestVars
  BY <1>6 DEF Crash, coreVars
<1>7. ASSUME NEW d \in Core, FwAck(d) \/ FwFinishRead(d) PROVE UNCHANGED requestVars
  BY <1>7 DEF FwAck, FwFinishRead
<1>8. CASE UNCHANGED vars
  BY <1>4, <1>8 DEF vars, coreVars
<1>9. ASSUME NEW t \in Thread,
             StartTransfer(t) \/ RefuseBroadcast(t) \/ StartFlush(t) \/ Proceed(t)
      PROVE  Quiet(t) \/ WriteCommand(t) \/ WriteWptr(t)
  BY <1>9, Zenon DEF Proceed, Quiet
<1>10. CASE Next
  <2>1. CASE \E t \in Thread :
               StartTransfer(t) \/ RefuseBroadcast(t) \/ StartFlush(t) \/ Proceed(t)
    BY <2>1, <1>1, <1>2, <1>4, <1>5, <1>9
  <2>2. CASE \E i \in Instance : Crash(i)
    BY <2>2, <1>4, <1>6
  <2>3. CASE \E d \in Core : Firmware(d)
    BY <2>3, <1>3, <1>4, <1>7 DEF Firmware
  <2> QED
    BY <1>10, <2>1, <2>2, <2>3 DEF Next
<1> QED
  BY <1>8, <1>10

(* write_to_non_mmio and read_non_mmio: every ring is a bounded FIFO, with *)
(* any number of threads and instances, with timeouts and crashes at any   *)
(* step: no command a core has yet to take is overwritten, lost, repeated  *)
(* or reordered, although a call keeps an old read pointer.                *)
THEOREM RequestRefinement == Spec => RequestsFifo
<1>1. Init => \A c \in Core : RequestQueue(c)!Init
  <2> SUFFICES ASSUME Init, NEW c \in Core PROVE RequestQueue(c)!Init
    OBVIOUS
  <2>1. reqRptr[c] = reqWptr[c] /\ Inv
    BY InitInvariant DEF Init
  <2>2. Contents(reqEntry[c], reqRptr[c], reqRptr[c]) = <<>>
    BY <2>1, EmptyContents, RequestsAre
  <2> QED
    BY <2>1, <2>2 DEF RequestQueue!Init, Requests
<1> QED
  BY <1>1, Invariance, RequestStep, PTL DEF Spec, RequestsFifo

-----------------------------------------------------------------------------
(* The data of read_non_mmio and write_to_non_mmio, which goes through     *)
(* buffers that the calls of all threads and processes share: a call that  *)
(* has the NON_MMIO lock finds the rings of every core with nothing but    *)
(* writes in them, and a write keeps its buffer after it has given the     *)
(* lock back.  Stated with the history variables of MCRemoteCommunication, *)
(* for any number of threads, instances and blocks and rings of any size.  *)

(* What the integrity of the transfers rests on: block transfers do not go *)
(* through host memory, or there is one ethernet core.  With more, reads   *)
(* of one core put their data where the writes of core 0 keep theirs.      *)
OwnBuffers == ~HostDram \/ NumCores = 1

(* The slots of the requests between two pointers.                         *)
Held(w, r) == {(r + i - 1) % Size : i \in 1 .. Occupied(w, r)}

(* A core is not busy with a read and all it has to take are writes.       *)
NoAnswer(c) == reading[c] = NoCommand /\ respWptr[c] = respRptr[c]
WritesUpTo(c, w) == \A s \in Held(w, reqRptr[c]) : reqEntry[c][s].type = "write"
NoRead(c) == NoAnswer(c) /\ WritesUpTo(c, reqWptr[c])

(* The command of the read that thread t has under way.                    *)
Mine(m, t) ==
  /\ m \in Command /\ m.type = "read" /\ m.block = frame[t].block
  /\ m.mode = frame[t].mode /\ m.addr = frame[t].respRptr % Size

(* The read is the last request of its core, at p.                         *)
QueuedAt(t, p) ==
  LET a == ActiveCore(t)
  IN /\ NoAnswer(a) /\ reqWptr[a] = Advance(p) /\ Occupied(p, reqRptr[a]) < Size
     /\ WritesUpTo(a, p) /\ Mine(reqEntry[a][p % Size], t)
Queued(t) == \E p \in Pointer : QueuedAt(t, p)

(* It has been taken, and nothing else is in the ring.                     *)
Taken(t) ==
  LET a == ActiveCore(t)
  IN reqWptr[a] = reqRptr[a] /\ respWptr[a] = Advance(respRptr[a])
Answering(t) ==
  Taken(t) /\ Mine(reading[ActiveCore(t)], t) /\ Answer(t).flags = NoFlags

(* It has been answered: the data is where the call will look for it.      *)
Delivered(t) ==
  LET m == frame[t].mode
      s == frame[t].respRptr % Size
  IN /\ m = "word" => Answer(t).data = frame[t].block
     /\ m = "block" => buffer[ActiveCore(t)][s] = frame[t].block
     /\ m = "dram" => host[s] = frame[t].block
Answered(t) ==
  /\ Taken(t) /\ reading[ActiveCore(t)] = NoCommand
  /\ Answer(t).flags = frame[t].mode /\ Delivered(t)

(* A thread has a read under way.                                          *)
ReadOut(t) ==
  /\ frame[t].type = "read"
  /\ pc[t] \in {"published", "awaiting", "flagging", "taking", "advancing"}

(* Host memory is used only where there is some.                           *)
DramAt(t) == (frame[t].dram => HostDram) /\ (frame[t].mode = "dram" => HostDram)

(* Where the read of a call can be at each of its labels.                  *)
ReadAt(t) ==
  /\ DramAt(t) /\ pc[t] # "mismatch"
  /\ pc[t] \in {"awaiting", "flagging", "taking", "advancing"} => frame[t].type = "read"
  /\ pc[t] \in Issuing /\ frame[t].type = "read" => frame[t].respRptr = respRptr[ActiveCore(t)]
  /\ ReadOut(t) =>
       /\ pc[t] \in {"published", "awaiting"} => Queued(t) \/ Answering(t) \/ Answered(t)
       /\ pc[t] = "flagging" => Answering(t) \/ Answered(t)
       /\ pc[t] \in {"taking", "advancing"} => Answered(t)
       /\ pc[t] = "advancing" => frame[t].got = frame[t].block

(* A block is in its buffer from before its command is written.            *)
Stored(c, s, m, b) ==
  /\ m = "block" => buffer[c][s] = b
  /\ m = "dram" => host[c * Size + s] = b
StoreAt(t) ==
  pc[t] \in {"stored", "commanded"} /\ frame[t].type = "write" =>
    Stored(ActiveCore(t), frame[t].wptr % Size, frame[t].mode, frame[t].block)

(* And stays there until the command is taken.                             *)
SlotAt(c, s) ==
  LET m == reqEntry[c][s]
  IN m.type = "write" =>
       /\ Stored(c, s, m.mode, m.block)
       /\ m.mode = "block" => m.addr = s
       /\ m.mode = "dram" => m.addr = c * Size + s /\ HostDram

(* A core that no read is under way at has writes only; all that it has to *)
(* take find their data.                                                   *)
NoneReads(c) == \A t \in Thread : ReadOut(t) => ActiveCore(t) # c
CoreAt(c) ==
  /\ NoneReads(c) => NoRead(c)
  /\ \A s \in Held(reqWptr[c], reqRptr[c]) : SlotAt(c, s)

DataInv ==
  /\ \A t \in Thread : ReadAt(t) /\ StoreAt(t)
  /\ \A c \in Core : CoreAt(c)

-----------------------------------------------------------------------------
(* The slots between two pointers                                          *)

\* An empty ring holds no slot.
LEMMA HeldEmpty == ASSUME NEW r \in Pointer PROVE Held(r, r) = {}
<1> USE SizeAssumption
<1>1. Occupied(r, r) = 0
  BY OccupiedIs DEF Pointer
<1> QED
  BY <1>1 DEF Held

\* The slot under the write pointer is free while there is room.
LEMMA HeldFree ==
  ASSUME NEW w \in Pointer, NEW r \in Pointer, Occupied(w, r) < Size
  PROVE  w % Size \in Slot /\ w % Size \notin Held(w, r)
BY FreeSlot, SizeAssumption DEF Held

\* A push adds that slot.
LEMMA HeldPush ==
  ASSUME NEW w \in Pointer, NEW r \in Pointer, Occupied(w, r) < Size
  PROVE  \A s \in Held(Advance(w), r) : s \in Held(w, r) \/ s = w % Size
<1> USE SizeAssumption
<1>1. Occupied(w, r) \in Nat /\ Occupied(w, r) <= Size
  BY OccupiedIs DEF Pointer
<1>2. Occupied(Advance(w), r) = Occupied(w, r) + 1
  BY <1>1, PushOccupies
<1>3. (r + Occupied(w, r)) % Size = w % Size
  BY FreeSlot
<1> SUFFICES ASSUME NEW i \in 1 .. Occupied(w, r) + 1
             PROVE  (r + i - 1) % Size \in Held(w, r) \/ (r + i - 1) % Size = w % Size
  BY <1>2 DEF Held
<1>4. CASE i = Occupied(w, r) + 1
  <2>1. r + i - 1 = r + Occupied(w, r)
    BY <1>1, <1>4 DEF Pointer
  <2> QED
    BY <1>3, <2>1
<1>5. CASE i \in 1 .. Occupied(w, r)
  BY <1>5 DEF Held
<1> QED
  BY <1>1, <1>4, <1>5

\* A pop takes away the slot under the read pointer, and no other comes in.
LEMMA HeldPop ==
  ASSUME NEW w \in Pointer, NEW r \in Pointer, w # r, Occupied(w, r) <= Size
  PROVE  /\ r % Size \in Held(w, r)
         /\ \A s \in Held(w, Advance(r)) : s \in Held(w, r)
         /\ Occupied(w, Advance(r)) < Size /\ Advance(r) \in Pointer
<1> USE SizeAssumption
<1>1. /\ Occupied(w, r) \in 1 .. Size
      /\ Occupied(w, Advance(r)) = Occupied(w, r) - 1
  BY PushOccupies
<1>2. /\ Advance(r) \in Pointer
      /\ Advance(r) = IF r = 2 * Size - 1 THEN 0 ELSE r + 1
  BY AdvanceIs
<1>3. r % Size \in Held(w, r)
  <2>1. 1 \in 1 .. Occupied(w, r) /\ r + 1 - 1 = r
    BY <1>1 DEF Pointer
  <2> QED
    BY <2>1 DEF Held
<1>4. ASSUME NEW i \in 1 .. Occupied(w, r) - 1
      PROVE  (Advance(r) + i - 1) % Size = (r + (i + 1) - 1) % Size
  <2>1. CASE r = 2 * Size - 1
    <3> DEFINE x == Advance(r) + i - 1
               y == r + (i + 1) - 1
    <3>1. x \in 0 .. Size - 1 /\ y = x + 2 * Size
      BY <1>1, <1>2, <1>4, <2>1
    <3>2. x \in 0 .. 2 * Size - 1
      BY <3>1
    <3> HIDE DEF x, y
    <3>3. y % Size = x % Size
      BY <3>1, <3>2, ModTwice
    <3> QED
      BY <3>3 DEF x, y
  <2>2. CASE r # 2 * Size - 1
    <3>1. Advance(r) + i - 1 = r + (i + 1) - 1
      BY <1>2, <2>2 DEF Pointer
    <3> QED
      BY <3>1
  <2> QED
    BY <2>1, <2>2
<1>5. ASSUME NEW s \in Held(w, Advance(r)) PROVE s \in Held(w, r)
  <2>1. PICK i \in 1 .. Occupied(w, r) - 1 : s = (Advance(r) + i - 1) % Size
    BY <1>1 DEF Held
  <2>2. i + 1 \in 1 .. Occupied(w, r) /\ s = (r + (i + 1) - 1) % Size
    BY <1>1, <1>4, <2>1
  <2> QED
    BY <2>2 DEF Held
<1> QED
  BY <1>1, <1>2, <1>3, <1>5

\* The slot behind a pointer, as the firmware computes it.
LEMMA BehindIs ==
  ASSUME NEW p \in Pointer
  PROVE  (Advance(p) + 2 * Size - 1) % Size = p % Size /\ Advance(p) # p
<1> USE SizeAssumption
<1>1. Advance(p) = IF p = 2 * Size - 1 THEN 0 ELSE p + 1
  BY AdvanceIs
<1>2. CASE p = 2 * Size - 1
  <2>1. Advance(p) + 2 * Size - 1 = p
    BY <1>1, <1>2 DEF Pointer
  <2>2. Advance(p) # p
    BY <1>1, <1>2
  <2> QED
    BY <2>1, <2>2
<1>3. CASE p # 2 * Size - 1
  <2>1. Advance(p) + 2 * Size - 1 = p + 2 * Size
    BY <1>1, <1>3 DEF Pointer
  <2>2. p \in 0 .. 2 * Size - 1 /\ Advance(p) # p
    BY <1>1, <1>3 DEF Pointer
  <2>3. (p + 2 * Size) % Size = p % Size
    BY <2>2, ModTwice
  <2> QED
    BY <2>1, <2>2, <2>3
<1> QED
  BY <1>2, <1>3

\* A pointer is the successor of one pointer only.
LEMMA AdvanceOnce ==
  ASSUME NEW p \in Pointer, NEW q \in Pointer, Advance(p) = Advance(q) PROVE p = q
BY AdvanceIs, SizeAssumption DEF Pointer

-----------------------------------------------------------------------------
(* What a step leaves alone                                                *)

(* The rings and the buffer of core c do not change.                       *)
RingsSame(c) ==
  UNCHANGED <<reqWptr[c], reqRptr[c], reqEntry[c], respWptr[c], respRptr[c],
              respEntry[c], reading[c], buffer[c]>>

\* A step that changes no ring and no buffer changes those of no core.
LEMMA AllSame ==
  ASSUME UNCHANGED <<coreVars, bufferVars>> PROVE \A c : RingsSame(c) /\ host' = host
BY DEF coreVars, requestVars, responseVars, bufferVars, RingsSame

\* A thread that is not half way through a transfer.
LEMMA OutThread ==
  ASSUME NEW u \in Thread, ~HalfWay(u)', DramAt(u)'
  PROVE  ReadAt(u)' /\ StoreAt(u)' /\ ~ReadOut(u)'
BY DEF ReadAt, StoreAt, ReadOut, HalfWay, LockedLabels, Issuing

\* A read is half way.
LEMMA OutReads == ASSUME NEW u \in Thread, ReadOut(u) PROVE HalfWay(u)
BY DEF ReadOut, HalfWay, LockedLabels

\* The stages of a read depend on what it asked for and on its core.
LEMMA SameRead ==
  ASSUME NEW u \in Thread, NEW c, c = ActiveCore(u), c = ActiveCore(u)',
         RingsSame(c), host' = host,
         frame'[u].block = frame[u].block, frame'[u].mode = frame[u].mode,
         frame'[u].respRptr = frame[u].respRptr
  PROVE  /\ (Queued(u)' <=> Queued(u)) /\ (Answering(u)' <=> Answering(u))
         /\ (Answered(u)' <=> Answered(u))
<1>1. \A m : Mine(m, u)' <=> Mine(m, u)
  BY DEF Mine
<1>2. NoAnswer(c)' <=> NoAnswer(c)
  BY DEF NoAnswer, RingsSame
<1>3. \A p : WritesUpTo(c, p)' <=> WritesUpTo(c, p)
  BY DEF WritesUpTo, RingsSame
<1>4. \A p : QueuedAt(u, p)' <=> QueuedAt(u, p)
  BY <1>1, <1>2, <1>3 DEF QueuedAt, RingsSame
<1>5. Taken(u)' <=> Taken(u)
  BY DEF Taken, RingsSame
<1>6. Answer(u)' = Answer(u)
  BY DEF Answer, RingsSame
<1>7. Answering(u)' <=> Answering(u)
  BY <1>1, <1>5, <1>6 DEF Answering, RingsSame
<1>8. Delivered(u)' <=> Delivered(u)
  BY <1>6 DEF Delivered, RingsSame
<1>9. Answered(u)' <=> Answered(u)
  BY <1>5, <1>6, <1>8 DEF Answered, RingsSame
<1> QED
  BY <1>4, <1>7, <1>9 DEF Queued

\* A thread whose call does not move, when its core does not either.
LEMMA SameThread ==
  ASSUME NEW u \in Thread, NEW c, c = ActiveCore(u), RingsSame(c), host' = host,
         UNCHANGED <<pc[u], frame[u], active[InstanceOf[u]]>>, ReadAt(u), StoreAt(u)
  PROVE  ReadAt(u)' /\ StoreAt(u)' /\ (ReadOut(u)' <=> ReadOut(u))
<1>1. c = ActiveCore(u)'
  BY DEF ActiveCore
<1>2. /\ (Queued(u)' <=> Queued(u)) /\ (Answering(u)' <=> Answering(u))
      /\ (Answered(u)' <=> Answered(u))
  BY <1>1, SameRead
<1>3. ReadOut(u)' <=> ReadOut(u)
  BY DEF ReadOut
<1>4. DramAt(u)' /\ respRptr'[c] = respRptr[c]
  BY DEF DramAt, ReadAt, RingsSame
<1>5. ReadAt(u)'
  BY <1>1, <1>2, <1>3, <1>4 DEF ReadAt
<1>6. StoreAt(u)'
  BY <1>1 DEF StoreAt, Stored, RingsSame
<1> QED
  BY <1>3, <1>5, <1>6

\* A core whose rings and buffers do not change.
LEMMA SameCore ==
  ASSUME NEW c \in Core, CoreAt(c), NoneReads(c)' => NoneReads(c), RingsSame(c), host' = host
  PROVE  CoreAt(c)'
<1>1. NoRead(c)' <=> NoRead(c)
  BY DEF NoRead, NoAnswer, WritesUpTo, RingsSame
<1>2. \A s : SlotAt(c, s)' <=> SlotAt(c, s)
  BY DEF SlotAt, Stored, RingsSame
<1> QED
  BY <1>1, <1>2 DEF CoreAt, RingsSame

(* A thread is half way through no transfer, before the step or after it,  *)
(* or does not move.                                                       *)
Aside(u) == ~HalfWay(u) /\ ~HalfWay(u)' /\ DramAt(u)'
Untouched(u) == UNCHANGED <<pc[u], frame[u], active[InstanceOf[u]]>>

\* A step that no transfer under way takes part in.
LEMMA AsideData ==
  ASSUME Inv, DataInv, UNCHANGED <<coreVars, bufferVars>>,
         \A u \in Thread : Aside(u) \/ Untouched(u)
  PROVE  DataInv'
<1>1. \A c : RingsSame(c) /\ host' = host
  BY AllSame
<1>2. ASSUME NEW u \in Thread
      PROVE  /\ ReadAt(u)' /\ StoreAt(u)' /\ (ReadOut(u)' <=> ReadOut(u))
             /\ ReadOut(u) => ActiveCore(u)' = ActiveCore(u)
  <2>1. CASE Aside(u)
    BY <2>1, OutThread, OutReads DEF Aside
  <2>2. CASE Untouched(u)
    <3>1. ReadAt(u) /\ StoreAt(u)
      BY DEF DataInv
    <3>2. ActiveCore(u)' = ActiveCore(u)
      BY <2>2 DEF Untouched, ActiveCore
    <3>3. PICK c : c = ActiveCore(u)
      OBVIOUS
    <3>4. RingsSame(c) /\ host' = host
      BY <1>1
    <3> QED
      BY <2>2, <3>1, <3>2, <3>3, <3>4, SameThread DEF Untouched
  <2> QED
    BY <2>1, <2>2
<1>3. ASSUME NEW c \in Core PROVE CoreAt(c)'
  <2>1. NoneReads(c)' => NoneReads(c)
    BY <1>2 DEF NoneReads
  <2> QED
    BY <1>1, <2>1, SameCore DEF DataInv
<1> QED
  BY <1>2, <1>3 DEF DataInv

-----------------------------------------------------------------------------
(* The steps of the thread that has the lock                               *)

(* A step of thread t that takes its call to label l with the variables f. *)
Moves(t, f, l) ==
  /\ pc[t] \in LockedLabels
  /\ pc' = [pc EXCEPT ![t] = l] /\ frame' = [frame EXCEPT ![t] = f]

\* The other threads have no transfer under way.
LEMMA HolderOthers ==
  ASSUME Inv, DataInv, NEW t \in Thread, NEW f, NEW l, Moves(t, f, l)
  PROVE  /\ frame'[t] = f /\ pc'[t] = l
         /\ \A u \in Thread \ {t} : ReadAt(u)' /\ StoreAt(u)' /\ ~ReadOut(u) /\ ~ReadOut(u)'
         /\ \A c : NoneReads(c) <=> ~(ReadOut(t) /\ ActiveCore(t) = c)
         /\ \A c : NoneReads(c)' <=> ~(ReadOut(t)' /\ ActiveCore(t)' = c)
<1>1. /\ frame \in [Thread -> Frame]
      /\ pc \in [Thread -> {"idle"} \cup LockedLabels \cup FlushLabels]
  BY DEF Inv, TypeOK
<1>2. frame'[t] = f /\ pc'[t] = l
  BY <1>1 DEF Moves
<1>3. ASSUME NEW u \in Thread \ {t}
      PROVE  ReadAt(u)' /\ StoreAt(u)' /\ ~ReadOut(u) /\ ~ReadOut(u)'
  <2>1. frame'[u] = frame[u] /\ pc'[u] = pc[u]
    BY <1>1 DEF Moves
  <2>2. pc[u] \notin LockedLabels
    BY HolderFacts DEF Moves
  <2>3. ~HalfWay(u) /\ ~HalfWay(u)'
    BY <2>1, <2>2 DEF HalfWay
  <2>4. DramAt(u)'
    BY <2>1 DEF DataInv, ReadAt, DramAt
  <2> QED
    BY <2>3, <2>4, OutThread, OutReads
<1>4. \A c : NoneReads(c) <=> ~(ReadOut(t) /\ ActiveCore(t) = c)
  BY <1>3 DEF NoneReads
<1>5. \A c : NoneReads(c)' <=> ~(ReadOut(t)' /\ ActiveCore(t)' = c)
  BY <1>3 DEF NoneReads
<1> QED
  BY <1>2, <1>3, <1>4, <1>5

\* It is enough to look at the thread and at the cores.
LEMMA HolderData ==
  ASSUME Inv, DataInv, NEW t \in Thread, NEW f, NEW l, Moves(t, f, l),
         ReadAt(t)', StoreAt(t)', \A c \in Core : CoreAt(c)'
  PROVE  DataInv'
BY HolderOthers DEF DataInv

\* And at the thread alone when no ring and no buffer changes.
LEMMA QuietData ==
  ASSUME Inv, DataInv, NEW t \in Thread, NEW f, NEW l, Moves(t, f, l),
         UNCHANGED <<coreVars, bufferVars>>,
         ReadOut(t) => ReadOut(t)' /\ ActiveCore(t)' = ActiveCore(t),
         ReadAt(t)', StoreAt(t)'
  PROVE  DataInv'
<1>1. ASSUME NEW c \in Core PROVE CoreAt(c)'
  <2>1. NoneReads(c)' => NoneReads(c)
    BY HolderOthers
  <2> QED
    BY <2>1, AllSame, SameCore DEF DataInv
<1> QED
  BY <1>1, HolderData

(* A call reads pointers.                                                  *)
LEMMA PointersData ==
  ASSUME Inv, DataInv, NEW t \in Thread, ReadPtrs(t) \/ PollRptr(t) PROVE DataInv'
<1>0. /\ frame \in [Thread -> Frame] /\ frame[t] \in Frame
      /\ pc \in [Thread -> {"idle"} \cup LockedLabels \cup FlushLabels]
  BY DEF Inv, TypeOK
<1>1. PICK c : c = ActiveCore(t) /\ c = ActiveCore(t)'
  BY DEF ReadPtrs, PollRptr, ActiveCore, instanceVars
<1>2. PICK f : /\ Moves(t, f, "filling") /\ f.dram = frame[t].dram
               /\ f.mode = frame[t].mode /\ f.type = frame[t].type
               /\ pc[t] = "filling" => f.respRptr = frame[t].respRptr
               /\ pc[t] # "filling" => f.respRptr = respRptr[c]
  <2>1. CASE ReadPtrs(t)
    <3> DEFINE f == [frame[t] EXCEPT !.wptr = reqWptr[c], !.rptr = reqRptr[c],
                                     !.respRptr = respRptr[c]]
    <3>1. frame' = [frame EXCEPT ![t] = f] /\ pc[t] = "locked"
      BY <1>0, <1>1, <2>1 DEF ReadPtrs, WithPtrsOf, At
    <3>2. /\ f.dram = frame[t].dram /\ f.mode = frame[t].mode /\ f.type = frame[t].type
          /\ f.respRptr = respRptr[c]
      BY <1>0 DEF Frame
    <3> HIDE DEF f
    <3>3. Moves(t, f, "filling")
      BY <2>1, <3>1 DEF ReadPtrs, Goto, Moves, LockedLabels
    <3> QED
      BY <3>1, <3>2, <3>3
  <2>2. CASE PollRptr(t)
    <3> DEFINE f == [frame[t] EXCEPT !.rptr = reqRptr[c]]
    <3>1. frame' = [frame EXCEPT ![t] = f] /\ pc[t] = "filling"
      BY <1>0, <1>1, <2>2 DEF PollRptr, At
    <3>2. /\ f.dram = frame[t].dram /\ f.mode = frame[t].mode /\ f.type = frame[t].type
          /\ f.respRptr = frame[t].respRptr
      BY <1>0 DEF Frame
    <3> HIDE DEF f
    <3>3. Moves(t, f, "filling")
      BY <1>0, <2>2, <3>1 DEF PollRptr, Moves, LockedLabels
    <3> QED
      BY <3>1, <3>2, <3>3
  <2> QED
    BY <2>1, <2>2
<1>3. frame'[t] = f /\ pc'[t] = "filling"
  BY <1>2, HolderOthers
<1>4. pc[t] \in {"locked", "filling"} /\ UNCHANGED <<coreVars, bufferVars>>
  BY DEF ReadPtrs, PollRptr, At
<1>5. ~ReadOut(t) /\ ~ReadOut(t)' /\ StoreAt(t)'
  BY <1>3, <1>4 DEF ReadOut, StoreAt
<1>6. ReadAt(t)'
  <2>1. ReadAt(t) /\ respRptr' = respRptr
    BY <1>4 DEF DataInv, coreVars, responseVars
  <2>2. DramAt(t)'
    BY <1>2, <1>3, <2>1 DEF ReadAt, DramAt
  <2> QED
    BY <1>1, <1>2, <1>3, <1>5, <2>1, <2>2 DEF ReadAt, Issuing
<1> QED
  BY <1>2, <1>4, <1>5, <1>6, QuietData

\* Going on to the next block, for a call that is a write or has taken its answer.
LEMMA NextBlockMoves ==
  ASSUME Inv, NEW t \in Thread, pc[t] \in LockedLabels, NEW g \in Frame,
         NEW h, h = [frame EXCEPT ![t] = g], NextBlock(t, h)
  PROVE  \E f, l : /\ Moves(t, f, l) /\ l \in {"filling", "returning"}
                   /\ f.dram = g.dram /\ f.mode = g.mode /\ f.type = g.type
                   /\ f.respRptr = g.respRptr
<1>1. frame \in [Thread -> Frame]
  BY DEF Inv, TypeOK
<1> DEFINE f == [g EXCEPT !.left = g.left - 1,
                          !.block = IF g.left > 1 THEN g.block + 1 ELSE g.block]
           l == IF g.left > 1 THEN "filling" ELSE "returning"
<1>2. frame' = [frame EXCEPT ![t] = f] /\ pc' = [pc EXCEPT ![t] = l]
  BY <1>1 DEF NextBlock, Goto, Frame
<1>3. /\ f.dram = g.dram /\ f.mode = g.mode /\ f.type = g.type
      /\ f.respRptr = g.respRptr /\ l \in {"filling", "returning"}
  BY DEF Frame
<1>4. Moves(t, f, l)
  BY <1>2 DEF Moves
<1> QED
  BY <1>3, <1>4

(* A write goes on, to the next core when its ring looks full.             *)
LEMMA AfterWriteData ==
  ASSUME Inv, DataInv, NEW t \in Thread, AfterWrite(t) PROVE DataInv'
<1>0. /\ frame \in [Thread -> Frame] /\ frame[t] \in Frame
      /\ reqWptr \in [Core -> Pointer] /\ reqRptr \in [Core -> Pointer]
      /\ ActiveCore(t) \in Core
  BY RemoteAssumption DEF Inv, TypeOK, ActiveCore
<1>1. PICK c \in Core : c = NextCore(ActiveCore(t))
  BY <1>0, NextCoreIs
<1>2. pc[t] = "published" /\ pc[t] \in LockedLabels /\ frame[t].type = "write"
  BY DEF AfterWrite, At, LockedLabels
<1>3. PICK f, l : /\ Moves(t, f, l) /\ l \in {"filling", "returning"}
                  /\ f.dram = frame[t].dram /\ f.mode = frame[t].mode /\ f.type = "write"
  <2> DEFINE g == [frame[t] EXCEPT !.wptr = reqWptr[c], !.rptr = reqRptr[c]]
  <2>1. /\ g \in Frame /\ g.type = frame[t].type /\ g.mode = frame[t].mode
        /\ g.dram = frame[t].dram /\ WithPtrsOf(c, t) = [frame EXCEPT ![t] = g]
    BY <1>0 DEF Frame, WithPtrsOf
  <2>2. frame = [frame EXCEPT ![t] = frame[t]]
    BY <1>0
  <2>3. NextBlock(t, WithPtrsOf(c, t)) \/ NextBlock(t, frame)
    BY <1>1 DEF AfterWrite
  <2> HIDE DEF g
  <2>4. CASE NextBlock(t, WithPtrsOf(c, t))
    <3>1. \E f, l : /\ Moves(t, f, l) /\ l \in {"filling", "returning"}
                   /\ f.dram = g.dram /\ f.mode = g.mode /\ f.type = g.type
                   /\ f.respRptr = g.respRptr
      <4>1. PICK x, k : x = g /\ k = WithPtrsOf(c, t) /\ x \in Frame /\ k = [frame EXCEPT ![t] = x] /\ NextBlock(t, k)
        BY <2>1, <2>4
      <4>2. \E f, l : /\ Moves(t, f, l) /\ l \in {"filling", "returning"}
                      /\ f.dram = x.dram /\ f.mode = x.mode /\ f.type = x.type
                      /\ f.respRptr = x.respRptr
        BY ONLY Inv, t \in Thread, <1>2, <4>1, NextBlockMoves, Zenon
      <4> QED
        BY <4>1, <4>2
    <3> QED
      BY <1>2, <2>1, <3>1
  <2>5. CASE NextBlock(t, frame)
    <3>1. \E f, l : /\ Moves(t, f, l) /\ l \in {"filling", "returning"}
                   /\ f.dram = frame[t].dram /\ f.mode = frame[t].mode
                   /\ f.type = frame[t].type /\ f.respRptr = frame[t].respRptr
      BY <1>0, <1>2, <2>2, <2>5, NextBlockMoves
    <3> QED
      BY <1>2, <3>1
  <2> QED
    BY <2>3, <2>4, <2>5
<1>4. frame'[t] = f /\ pc'[t] = l
  BY <1>3, HolderOthers
<1>5. ~ReadOut(t) /\ ~ReadOut(t)' /\ StoreAt(t)'
  BY <1>2, <1>3, <1>4 DEF ReadOut, StoreAt
<1>6. ReadAt(t)'
  <2>1. DramAt(t)'
    BY <1>3, <1>4 DEF DataInv, ReadAt, DramAt
  <2> QED
    BY <1>3, <1>4, <1>5, <2>1 DEF ReadAt
<1>7. UNCHANGED <<coreVars, bufferVars>>
  BY DEF AfterWrite
<1> QED
  BY <1>3, <1>5, <1>6, <1>7, QuietData

\* A read under way, as the invariant has it.
LEMMA ReadFacts ==
  ASSUME Inv, DataInv, NEW t \in Thread,
         pc[t] \in {"awaiting", "flagging", "taking", "advancing"}
  PROVE  /\ ReadAt(t) /\ ReadOut(t) /\ frame[t].type = "read" /\ DramAt(t)
         /\ frame[t].respRptr = respRptr[ActiveCore(t)]
         /\ frame[t] \in Frame /\ ActiveCore(t) \in Core /\ pc[t] \in LockedLabels
<1>1. ReadAt(t)
  BY DEF DataInv
<1> QED
  BY <1>1, RemoteAssumption DEF ReadAt, ReadOut, Issuing, LockedLabels, Inv, TypeOK, ActiveCore

(* A read waits for its answer.                                            *)
LEMMA AfterReadData ==
  ASSUME Inv, DataInv, NEW t \in Thread, AfterRead(t) PROVE DataInv'
<1>0. frame \in [Thread -> Frame] /\ frame[t] \in Frame
  BY DEF Inv, TypeOK
<1>1. PICK c : c = ActiveCore(t) /\ c = ActiveCore(t)'
  BY DEF AfterRead, ActiveCore, instanceVars
<1>2. pc[t] = "published" /\ pc[t] \in LockedLabels /\ frame[t].type = "read"
  BY DEF AfterRead, At, LockedLabels
<1>3. PICK f : /\ Moves(t, f, "awaiting") /\ f.dram = frame[t].dram
               /\ f.mode = frame[t].mode /\ f.type = "read"
               /\ f.respRptr = frame[t].respRptr /\ f.block = frame[t].block
  <2> DEFINE g == [frame[t] EXCEPT !.wptr = reqWptr[c], !.rptr = reqRptr[c]]
  <2>1. /\ g.type = frame[t].type /\ g.mode = frame[t].mode /\ g.dram = frame[t].dram
        /\ g.respRptr = frame[t].respRptr /\ g.block = frame[t].block
        /\ WithPtrsOf(c, t) = [frame EXCEPT ![t] = g]
    BY <1>0 DEF Frame, WithPtrsOf
  <2>2. frame = [frame EXCEPT ![t] = frame[t]]
    BY <1>0
  <2>3. PICK f \in {g, frame[t]} : frame' = [frame EXCEPT ![t] = f]
    BY <1>1, <2>1, <2>2 DEF AfterRead
  <2> HIDE DEF g
  <2>4. Moves(t, f, "awaiting")
    BY <1>2, <2>3 DEF AfterRead, Goto, Moves
  <2> QED
    BY <1>2, <2>1, <2>3, <2>4
<1>4. frame'[t] = f /\ pc'[t] = "awaiting"
  BY <1>3, HolderOthers
<1>5. ReadOut(t) /\ ReadOut(t)' /\ StoreAt(t)'
  BY <1>2, <1>3, <1>4 DEF ReadOut, StoreAt
<1>6. UNCHANGED <<coreVars, bufferVars>>
  BY DEF AfterRead
<1>7. RingsSame(c) /\ host' = host /\ respRptr' = respRptr
  BY <1>6, AllSame DEF coreVars, responseVars
<1>8. /\ (Queued(t)' <=> Queued(t)) /\ (Answering(t)' <=> Answering(t))
      /\ (Answered(t)' <=> Answered(t))
  BY <1>1, <1>3, <1>4, <1>7, SameRead
<1>9. ReadAt(t)'
  <2>1. ReadAt(t)
    BY DEF DataInv
  <2>2. DramAt(t)'
    BY <1>3, <1>4, <2>1 DEF ReadAt, DramAt
  <2>3. Queued(t)' \/ Answering(t)' \/ Answered(t)'
    BY <1>2, <1>5, <1>8, <2>1 DEF ReadAt
  <2>4. frame'[t].respRptr = respRptr'[ActiveCore(t)']
    BY <1>1, <1>2, <1>3, <1>4, <1>7, <2>1 DEF ReadAt, Issuing
  <2> QED
    BY <1>3, <1>4, <2>2, <2>3, <2>4 DEF ReadAt
<1> QED
  BY <1>1, <1>3, <1>5, <1>6, <1>9, QuietData

(* It finds its answer.                                                    *)
LEMMA AnswerData ==
  ASSUME Inv, DataInv, NEW t \in Thread, ResponseWptrMoved(t) \/ ResponseFlagsSet(t)
  PROVE  DataInv'
<1>0. frame \in [Thread -> Frame] /\ frame = [frame EXCEPT ![t] = frame[t]]
  BY DEF Inv, TypeOK
<1>1. PICK c : c = ActiveCore(t) /\ c = ActiveCore(t)'
  BY DEF ResponseWptrMoved, ResponseFlagsSet, ActiveCore, instanceVars
<1>2. pc[t] \in {"awaiting", "flagging"}
  BY DEF ResponseWptrMoved, ResponseFlagsSet, At
<1>3. /\ ReadAt(t) /\ ReadOut(t) /\ frame[t].type = "read" /\ DramAt(t)
      /\ frame[t].respRptr = respRptr[c] /\ frame[t].mode \in Modes
      /\ pc[t] \in LockedLabels
  BY <1>1, <1>2, ReadFacts DEF Frame
<1>4. PICK l : /\ pc' = [pc EXCEPT ![t] = l]
               /\ \/ l = "flagging" /\ (Answering(t) \/ Answered(t))
                  \/ l = "taking" /\ Answered(t)
  <2>1. CASE ResponseWptrMoved(t)
    <3>1. pc[t] = "awaiting" /\ respWptr[c] # respRptr[c] /\ pc' = [pc EXCEPT ![t] = "flagging"]
      BY <1>1, <1>3, <2>1 DEF ResponseWptrMoved, At, Goto
    <3>2. ~Queued(t)
      BY <1>1, <3>1 DEF Queued, QueuedAt, NoAnswer
    <3>3. Answering(t) \/ Answered(t)
      BY <1>3, <3>1, <3>2 DEF ReadAt
    <3> QED
      BY <3>1, <3>3
  <2>2. CASE ResponseFlagsSet(t)
    <3>1. /\ pc[t] = "flagging" /\ Answer(t).flags # NoFlags
          /\ pc' = [pc EXCEPT ![t] = IF Answer(t).flags = frame[t].mode
                                       THEN "taking" ELSE "mismatch"]
      BY <2>2 DEF ResponseFlagsSet, At, Goto
    <3>2. Answered(t)
      BY <1>3, <3>1 DEF ReadAt, Answering
    <3>3. Answer(t).flags = frame[t].mode
      BY <3>2 DEF Answered
    <3> QED
      BY <3>1, <3>2, <3>3
  <2> QED
    BY <2>1, <2>2
<1>5. UNCHANGED <<coreVars, bufferVars>> /\ frame' = frame
  BY DEF ResponseWptrMoved, ResponseFlagsSet
<1>6. Moves(t, frame[t], l)
  BY <1>0, <1>3, <1>4, <1>5 DEF Moves
<1>7. frame'[t] = frame[t] /\ pc'[t] = l
  BY <1>6, HolderOthers
<1>8. ReadOut(t)' /\ StoreAt(t)'
  BY <1>3, <1>4, <1>7 DEF ReadOut, StoreAt
<1>9. RingsSame(c) /\ host' = host /\ respRptr' = respRptr
  BY <1>5, AllSame DEF coreVars, responseVars
<1>10. (Answering(t)' <=> Answering(t)) /\ (Answered(t)' <=> Answered(t))
  BY <1>1, <1>7, <1>9, SameRead
<1>11. DramAt(t)'
  BY <1>3, <1>7 DEF DramAt
<1>12. ReadAt(t)'
  BY <1>1, <1>3, <1>4, <1>7, <1>9, <1>10, <1>11 DEF ReadAt
<1> QED
  BY <1>1, <1>5, <1>6, <1>8, <1>12, QuietData

(* And takes the data, which is its own.                                   *)
LEMMA TakeDataData ==
  ASSUME Inv, DataInv, NEW t \in Thread, TakeData(t) PROVE DataInv'
<1>0. frame \in [Thread -> Frame] /\ frame[t] \in Frame /\ pc[t] = "taking"
  BY DEF Inv, TypeOK, TakeData, At
<1>1. PICK c : c = ActiveCore(t) /\ c = ActiveCore(t)'
  BY DEF TakeData, ActiveCore, instanceVars
<1>2. /\ ReadAt(t) /\ ReadOut(t) /\ frame[t].type = "read" /\ DramAt(t)
      /\ frame[t].respRptr = respRptr[c] /\ frame[t].mode \in Modes
      /\ pc[t] \in LockedLabels
  BY <1>0, <1>1, ReadFacts DEF Frame
<1>3. Answered(t)
  BY <1>0, <1>2 DEF ReadAt
<1> DEFINE v == CASE frame[t].mode = "word"  -> Answer(t).data
                  [] frame[t].mode = "block" -> buffer[c][BufferAddr(t, "block")]
                  [] frame[t].mode = "dram"  -> host[BufferAddr(t, "dram")]
<1>4. v = frame[t].block
  <2>1. \A m : BufferAddr(t, m) = frame[t].respRptr % Size
    BY <1>2 DEF BufferAddr
  <2> QED
    BY <1>1, <1>2, <1>3, <2>1 DEF Answered, Delivered, Modes
<1> DEFINE f == [frame[t] EXCEPT !.got = v]
<1>5. frame' = [frame EXCEPT ![t] = f]
  BY <1>0, <1>1 DEF TakeData
<1> HIDE DEF v
<1>6. /\ f.type = frame[t].type /\ f.mode = frame[t].mode /\ f.dram = frame[t].dram
      /\ f.respRptr = frame[t].respRptr /\ f.block = frame[t].block /\ f.got = v
  BY <1>0 DEF Frame
<1> HIDE DEF f
<1>7. Moves(t, f, "advancing")
  BY <1>2, <1>5 DEF Moves, TakeData, Goto
<1>8. frame'[t] = f /\ pc'[t] = "advancing"
  BY <1>7, HolderOthers
<1>9. ReadOut(t)' /\ StoreAt(t)'
  BY <1>2, <1>6, <1>8 DEF ReadOut, StoreAt
<1>10. UNCHANGED <<coreVars, bufferVars>>
  BY DEF TakeData
<1>11. RingsSame(c) /\ host' = host /\ respRptr' = respRptr
  BY <1>10, AllSame DEF coreVars, responseVars
<1>12. Answered(t)'
  BY <1>1, <1>3, <1>6, <1>8, <1>11, SameRead
<1>13. DramAt(t)'
  BY <1>2, <1>6, <1>8 DEF DramAt
<1>14. ReadAt(t)'
  BY <1>1, <1>2, <1>4, <1>6, <1>8, <1>11, <1>12, <1>13 DEF ReadAt
<1> QED
  BY <1>1, <1>7, <1>9, <1>10, <1>14, QuietData

-----------------------------------------------------------------------------
(* The steps that put a block, a command and a pointer                     *)

\* The slots of a ring.
LEMMA HeldSlots == ASSUME NEW w \in Pointer, NEW r \in Pointer PROVE Held(w, r) \subseteq Slot
<1>1. ASSUME NEW i \in 1 .. Occupied(w, r) PROVE (r + i - 1) % Size \in Slot
  <2>1. r + i - 1 \in Int
    BY SizeAssumption DEF Pointer
  <2> QED
    BY <2>1, SizeAssumption, ModRange DEF Slot
<1> QED
  BY <1>1 DEF Held

\* A call that is about to put something at the write pointer puts it at a free slot.
LEMMA RoomFacts ==
  ASSUME Inv, DataInv, NEW t \in Thread,
         \/ pc[t] = "filling" /\ ~SeesFull(t)
         \/ pc[t] \in {"stored", "commanded"}
  PROVE  LET a == ActiveCore(t)
             x == frame[t].wptr % Size
         IN /\ pc[t] \in LockedLabels /\ frame[t] \in Frame /\ a \in Core
            /\ frame \in [Thread -> Frame]
            /\ frame[t].wptr = reqWptr[a] /\ reqWptr[a] \in Pointer /\ reqRptr[a] \in Pointer
            /\ InRing(a) < Size /\ x \in Slot /\ x \notin Held(reqWptr[a], reqRptr[a])
            /\ ReadAt(t) /\ StoreAt(t) /\ DramAt(t) /\ ~ReadOut(t)
            /\ frame[t].type = "read" => frame[t].respRptr = respRptr[a]
<1>1. pc[t] \in LockedLabels /\ pc[t] \in Issuing /\ frame \in [Thread -> Frame]
  BY DEF LockedLabels, Issuing, Inv, TypeOK
<1>2. PICK a \in Core : a = ActiveCore(t)
  BY <1>1, HolderFacts
<1>3. /\ frame[t] \in Frame /\ frame[t].wptr \in Pointer /\ frame[t].rptr \in Pointer
      /\ reqWptr[a] \in Pointer /\ reqRptr[a] \in Pointer /\ InRing(a) \in 0 .. Size
      /\ PushAt(t)
  BY <1>1, HolderFacts
<1>4. /\ frame[t].wptr = reqWptr[a] /\ InRing(a) <= Seen(t) /\ Seen(t) <= Size
      /\ pc[t] \in {"stored", "commanded"} => Seen(t) < Size
  BY <1>1, <1>2, <1>3 DEF PushAt
<1>5. Seen(t) \in Nat
  BY <1>3, OccupiedNat DEF Seen
<1>6. Seen(t) < Size
  <2>1. CASE pc[t] = "filling" /\ ~SeesFull(t)
    <3>1. Seen(t) # Size
      BY <1>3, <1>4, <2>1, FullIs DEF SeesFull, Seen
    <3> QED
      BY <1>4, <1>5, <3>1, SizeAssumption
  <2> QED
    BY <1>4, <2>1
<1>7. InRing(a) < Size
  BY <1>3, <1>4, <1>5, <1>6, SizeAssumption
<1>8. reqWptr[a] % Size \in Slot /\ reqWptr[a] % Size \notin Held(reqWptr[a], reqRptr[a])
  BY <1>3, <1>7, HeldFree DEF InRing
<1>9. ReadAt(t) /\ StoreAt(t) /\ DramAt(t) /\ ~ReadOut(t)
  BY DEF DataInv, ReadAt, ReadOut
<1>10. frame[t].type = "read" => frame[t].respRptr = respRptr[a]
  BY <1>1, <1>2, <1>9 DEF ReadAt
<1> QED
  BY <1>1, <1>2, <1>3, <1>4, <1>7, <1>8, <1>9, <1>10

(* Steps of a call that is not waiting: the slots the cores have yet to    *)
(* take stay as they are, and with them the cores.                         *)
LEMMA SlotsKept ==
  ASSUME Inv, DataInv, NEW c \in Core, NoneReads(c),
         UNCHANGED <<reqWptr, reqRptr, respWptr, respRptr, reading>>,
         \A s \in Held(reqWptr[c], reqRptr[c]) :
           /\ reqEntry'[c][s] = reqEntry[c][s] /\ buffer'[c][s] = buffer[c][s]
           /\ HostDram => host'[c * Size + s] = host[c * Size + s]
  PROVE  CoreAt(c)'
<1>1. NoRead(c) /\ \A s \in Held(reqWptr[c], reqRptr[c]) : SlotAt(c, s)
  BY DEF DataInv, CoreAt
<1>2. NoRead(c)'
  BY <1>1 DEF NoRead, NoAnswer, WritesUpTo
<1>3. ASSUME NEW s \in Held(reqWptr[c], reqRptr[c]) PROVE SlotAt(c, s)'
  BY <1>1, <1>3 DEF SlotAt, Stored
<1> QED
  BY <1>2, <1>3 DEF CoreAt

(* The data of a block is put into the buffer of a free slot.              *)
LEMMA StoreData ==
  ASSUME OwnBuffers, Inv, DataInv, NEW t \in Thread, StoreBlock(t) PROVE DataInv'
<1>1. PICK a \in Core, x \in Slot :
        /\ a = ActiveCore(t) /\ x = frame[t].wptr % Size
        /\ pc[t] \in LockedLabels /\ frame[t] \in Frame
        /\ frame \in [Thread -> Frame] /\ x \notin Held(reqWptr[a], reqRptr[a])
        /\ DramAt(t) /\ ~ReadOut(t)
  BY RoomFacts DEF StoreBlock, At
<1>2. a = ActiveCore(t)' /\ frame[t].type = "write"
  BY <1>1 DEF StoreBlock, ActiveCore, instanceVars
<1> DEFINE f == [frame[t] EXCEPT !.mode = BlockMode(t)]
<1>3. frame' = [frame EXCEPT ![t] = f]
  BY <1>1 DEF StoreBlock
<1>4. /\ f.type = "write" /\ f.mode = BlockMode(t) /\ f.dram = frame[t].dram
      /\ f.wptr = frame[t].wptr /\ f.block = frame[t].block
  BY <1>1, <1>2 DEF Frame
<1> HIDE DEF f
<1>5. Moves(t, f, "stored")
  BY <1>1, <1>3 DEF Moves, StoreBlock, Goto
<1>6. /\ frame'[t] = f /\ pc'[t] = "stored" /\ \A c : NoneReads(c) /\ NoneReads(c)'
  BY <1>1, <1>4, <1>5, HolderOthers DEF ReadOut
<1>7. ReadAt(t)'
  <2>1. DramAt(t)'
    BY <1>1, <1>4, <1>6 DEF DramAt, BlockMode
  <2> QED
    BY <1>4, <1>6, <2>1 DEF ReadAt, ReadOut
<1>8. /\ host \in [0 .. NumCores * Size - 1 -> 0 .. MaxBlocks]
      /\ buffer \in [Core -> [Slot -> 0 .. MaxBlocks]]
      /\ \A c \in Core : \A s \in Held(reqWptr[c], reqRptr[c]) : s \in Slot
  BY HeldSlots DEF Inv, TypeOK
<1>9. UNCHANGED <<reqWptr, reqRptr, reqEntry, respWptr, respRptr, reading>>
  BY DEF StoreBlock, coreVars, requestVars, responseVars
<1>10. CASE ~frame[t].dram
  <2>1. /\ buffer' = [buffer EXCEPT ![a][x] = frame[t].block] /\ host' = host
    BY <1>1, <1>2, <1>10 DEF StoreBlock, BufferAddr
  <2>2. StoreAt(t)'
    BY <1>1, <1>2, <1>4, <1>6, <1>8, <1>10, <2>1 DEF StoreAt, Stored, BlockMode
  <2>3. ASSUME NEW c \in Core, NEW s \in Held(reqWptr[c], reqRptr[c])
        PROVE  buffer'[c][s] = buffer[c][s]
    BY <1>1, <1>8, <2>1, <2>3
  <2>4. ASSUME NEW c \in Core PROVE CoreAt(c)'
    BY <1>6, <1>9, <2>1, <2>3, SlotsKept
  <2> QED
    BY <1>5, <1>7, <2>2, <2>4, HolderData
<1>11. CASE frame[t].dram
  <2>1. host' = [host EXCEPT ![a * Size + x] = frame[t].block] /\ buffer' = buffer
    BY <1>1, <1>2, <1>11 DEF StoreBlock, BufferAddr
  <2>2. \A c \in Core : c = a
    BY <1>1, <1>11, RemoteAssumption DEF OwnBuffers, Core, DramAt
  <2>3. \A s \in Slot : a * Size + s \in 0 .. NumCores * Size - 1
    BY AddrIs
  <2>4. StoreAt(t)'
    <3>1. host'[a * Size + x] = frame[t].block
      BY <1>8, <2>1, <2>3
    <3> QED
      BY <1>1, <1>2, <1>4, <1>6, <1>11, <3>1 DEF StoreAt, Stored, BlockMode
  <2>5. ASSUME NEW s \in Held(reqWptr[a], reqRptr[a])
        PROVE  host'[a * Size + s] = host[a * Size + s]
    <3>1. s \in Slot /\ s # x
      BY <1>1, <1>8
    <3>2. a \in Int /\ Size \in Int /\ a * Size \in Int /\ s \in Int /\ x \in Int
      BY <3>1, SizeAssumption, RemoteAssumption DEF Core, Slot
    <3>3. a * Size + s # a * Size + x
      BY <3>1, <3>2
    <3> QED
      BY <1>8, <2>1, <2>3, <3>1, <3>3
  <2>6. ASSUME NEW c \in Core PROVE CoreAt(c)'
    <3>1. c = a
      BY <2>2
    <3> QED
      BY <1>6, <1>9, <2>1, <2>5, <3>1, SlotsKept
  <2> QED
    BY <1>5, <1>7, <2>4, <2>6, HolderData
<1> QED
  BY <1>10, <1>11

(* The command goes to the same slot.                                      *)
LEMMA CommandData ==
  ASSUME Inv, DataInv, NEW t \in Thread, WriteCommand(t) PROVE DataInv'
<1>1. PICK a \in Core, x \in Slot :
        /\ a = ActiveCore(t) /\ x = frame[t].wptr % Size
        /\ pc[t] \in LockedLabels /\ frame[t] \in Frame
        /\ frame \in [Thread -> Frame] /\ x \notin Held(reqWptr[a], reqRptr[a])
        /\ DramAt(t) /\ StoreAt(t) /\ ~ReadOut(t)
        /\ frame[t].type = "read" => frame[t].respRptr = respRptr[a]
  BY RoomFacts DEF WriteCommand, At
<1>2. PICK m : /\ PutCommand(t, m) /\ (m = "dram" => HostDram)
               /\ m # "word" /\ frame[t].type = "write" =>
                    pc[t] = "stored" /\ m = frame[t].mode
  BY <1>1 DEF WriteCommand, BlockMode, DramAt, At, Frame
<1>3. a = ActiveCore(t)'
  BY <1>1, <1>2 DEF PutCommand, ActiveCore, instanceVars
<1> DEFINE f == [frame[t] EXCEPT !.mode = m]
<1>4. frame' = [frame EXCEPT ![t] = f]
  BY <1>1, <1>2 DEF PutCommand
<1>5. /\ f.type = frame[t].type /\ f.mode = m /\ f.dram = frame[t].dram
      /\ f.wptr = frame[t].wptr /\ f.block = frame[t].block
      /\ f.respRptr = frame[t].respRptr
  BY <1>1 DEF Frame
<1> HIDE DEF f
<1>6. Moves(t, f, "commanded")
  BY <1>1, <1>2, <1>4 DEF Moves, PutCommand, Goto
<1>7. /\ frame'[t] = f /\ pc'[t] = "commanded"
  BY <1>6, HolderOthers
<1>8. \A c : NoneReads(c)
  BY <1>1, <1>6, HolderOthers
<1>9. UNCHANGED <<reqWptr, reqRptr, respWptr, respRptr, reading, host, buffer>>
  BY <1>2 DEF PutCommand, responseVars, bufferVars
<1>10. ReadAt(t)'
  <2>1. DramAt(t)'
    BY <1>1, <1>2, <1>5, <1>7 DEF DramAt
  <2>2. frame'[t].type = "read" => frame'[t].respRptr = respRptr'[ActiveCore(t)']
    BY <1>1, <1>3, <1>5, <1>7, <1>9
  <2> QED
    BY <1>7, <2>1, <2>2 DEF ReadAt, ReadOut
<1>11. StoreAt(t)'
  BY <1>1, <1>2, <1>3, <1>5, <1>7, <1>9 DEF StoreAt, Stored
<1>12. /\ \E e : reqEntry' = [reqEntry EXCEPT ![a][x] = e]
       /\ reqEntry \in [Core -> [Slot -> Entry]]
  BY <1>1, <1>2 DEF PutCommand, Inv, TypeOK, Entry
<1>13. ASSUME NEW c \in Core PROVE CoreAt(c)'
  <2>1. Held(reqWptr[c], reqRptr[c]) \subseteq Slot
    BY HeldSlots DEF Inv, TypeOK
  <2>2. \A s \in Held(reqWptr[c], reqRptr[c]) : reqEntry'[c][s] = reqEntry[c][s]
    BY <1>1, <1>12, <2>1
  <2> QED
    BY <1>8, <1>9, <2>2, SlotsKept
<1> QED
  BY <1>6, <1>10, <1>11, <1>13, HolderData

(* The command is published: a write whose block is in its buffer, or a    *)
(* read that is alone in the rings of its core with writes before it.      *)
LEMMA PublishData ==
  ASSUME Inv, DataInv, NEW t \in Thread, WriteWptr(t) PROVE DataInv'
<1>0. pc[t] = "commanded"
  BY DEF WriteWptr, At
<1>1. PICK a \in Core, w \in Pointer, r \in Pointer :
        /\ a = ActiveCore(t) /\ w = frame[t].wptr /\ w = reqWptr[a] /\ r = reqRptr[a]
        /\ pc[t] \in LockedLabels /\ frame[t] \in Frame
        /\ frame \in [Thread -> Frame] /\ Occupied(w, r) < Size
        /\ DramAt(t) /\ StoreAt(t) /\ ~ReadOut(t)
        /\ frame[t].type = "read" => frame[t].respRptr = respRptr[a]
  BY <1>0, RoomFacts DEF InRing
<1>2. PICK m \in Command :
        /\ m = reqEntry[a][w % Size] /\ m.type = frame[t].type /\ m.block = frame[t].block
        /\ m.mode = frame[t].mode /\ m.addr = BufferAddr(t, m.mode)
  <2>1. Written(t)
    BY <1>0, <1>1, HolderFacts DEF PushAt, Issuing
  <2> QED
    BY <1>1, <2>1 DEF Written
<1>3. /\ a = ActiveCore(t)' /\ reqWptr' = [reqWptr EXCEPT ![a] = Advance(w)]
      /\ UNCHANGED <<reqRptr, reqEntry, respWptr, respRptr, respEntry, reading, host, buffer>>
      /\ reqWptr \in [Core -> Pointer]
  BY <1>1 DEF WriteWptr, ActiveCore, instanceVars, responseVars, bufferVars, Inv, TypeOK
<1>4. reqWptr'[a] = Advance(w)
  BY <1>3
<1> DEFINE f == [frame[t] EXCEPT !.wptr = Advance(w)]
<1>5. frame' = [frame EXCEPT ![t] = f]
  BY <1>1 DEF WriteWptr
<1>6. /\ f.type = frame[t].type /\ f.mode = frame[t].mode /\ f.dram = frame[t].dram
      /\ f.block = frame[t].block /\ f.respRptr = frame[t].respRptr
      /\ f.type \in {"write", "read"}
  BY <1>1 DEF Frame
<1> HIDE DEF f
<1>7. Moves(t, f, "published")
  BY <1>1, <1>5 DEF Moves, WriteWptr, Goto
<1>8. frame'[t] = f /\ pc'[t] = "published"
  BY <1>7, HolderOthers
<1>9. \A c : NoneReads(c) /\ (NoneReads(c)' <=> ~(ReadOut(t)' /\ c = a))
  BY <1>1, <1>3, <1>7, HolderOthers
<1>10. StoreAt(t)' /\ DramAt(t)' /\ (ReadOut(t)' <=> f.type = "read")
  BY <1>1, <1>6, <1>8 DEF StoreAt, DramAt, ReadOut
<1>11. NoRead(a) /\ \A s \in Held(w, r) : SlotAt(a, s)
  BY <1>1, <1>9 DEF DataInv, CoreAt
<1>12. WritesUpTo(a, w)' /\ NoAnswer(a)'
  BY <1>1, <1>3, <1>11 DEF NoRead, NoAnswer, WritesUpTo
<1>13. ReadAt(t)'
  <2>1. CASE f.type = "write"
    BY <1>8, <1>10, <2>1 DEF ReadAt
  <2>2. CASE f.type = "read"
    <3>1. Mine(m, t)' /\ m = reqEntry'[a][w % Size]
      BY <1>1, <1>2, <1>3, <1>6, <1>8, <2>2 DEF Mine, BufferAddr
    <3>2. Occupied(w, reqRptr'[a]) < Size
      BY <1>1, <1>3
    <3>3. QueuedAt(t, w)'
      BY <1>3, <1>4, <1>12, <3>1, <3>2 DEF QueuedAt
    <3>4. Queued(t)'
      BY <3>3 DEF Queued
    <3>5. frame'[t].respRptr = respRptr'[ActiveCore(t)']
      BY <1>1, <1>3, <1>6, <1>8, <2>2
    <3> QED
      BY <1>8, <1>10, <3>4, <3>5 DEF ReadAt
  <2> QED
    BY <1>6, <2>1, <2>2
<1>14. \A s \in Held(Advance(w), r) : s \in Held(w, r) \/ s = w % Size
  BY <1>1, HeldPush
<1>15. NoneReads(a)' => NoRead(a)'
  <2> SUFFICES ASSUME f.type = "write" PROVE WritesUpTo(a, Advance(w))'
    BY <1>4, <1>6, <1>9, <1>10, <1>12 DEF NoRead
  <2> QED
    BY <1>1, <1>2, <1>3, <1>6, <1>12, <1>14 DEF WritesUpTo
<1>16. SlotAt(a, w % Size)'
  <2> SUFFICES ASSUME m.type = "write" PROVE SlotAt(a, w % Size)'
    BY <1>2, <1>3 DEF SlotAt
  <2>1. Stored(a, w % Size, m.mode, m.block)
    BY <1>0, <1>1, <1>2 DEF StoreAt
  <2>2. Stored(a, w % Size, m.mode, m.block)'
    BY <1>3, <2>1 DEF Stored
  <2>3. /\ m.mode = "block" => m.addr = w % Size
        /\ m.mode = "dram" => m.addr = a * Size + (w % Size) /\ HostDram
    BY <1>1, <1>2 DEF BufferAddr, DramAt
  <2> QED
    BY <1>2, <1>3, <2>2, <2>3 DEF SlotAt
<1>17. \A s \in Held(w, r) : SlotAt(a, s)'
  BY <1>3, <1>11 DEF SlotAt, Stored
<1>18. CoreAt(a)'
  BY <1>1, <1>3, <1>4, <1>14, <1>15, <1>16, <1>17 DEF CoreAt
<1>19. ASSUME NEW c \in Core, c # a PROVE CoreAt(c)'
  <2>1. RingsSame(c) /\ host' = host
    BY <1>3, <1>19 DEF RingsSame
  <2> QED
    BY <1>9, <2>1, SameCore DEF DataInv
<1> QED
  BY <1>7, <1>10, <1>13, <1>18, <1>19, HolderData

(* The answer is taken out of the ring of its core, which is then empty.   *)
LEMMA ResponseData ==
  ASSUME Inv, DataInv, NEW t \in Thread, WriteResponseRptr(t) PROVE DataInv'
<1>0. frame \in [Thread -> Frame] /\ pc[t] = "advancing"
  BY DEF WriteResponseRptr, At, DataInv, ReadAt, Inv, TypeOK
<1>1. PICK a \in Core :
        /\ a = ActiveCore(t) /\ ReadAt(t) /\ ReadOut(t) /\ frame[t].type = "read"
        /\ DramAt(t) /\ frame[t].respRptr = respRptr[a] /\ frame[t] \in Frame
        /\ pc[t] \in LockedLabels
  BY <1>0, ReadFacts
<1>2. /\ reqWptr[a] = reqRptr[a] /\ respWptr[a] = Advance(respRptr[a])
      /\ reading[a] = NoCommand
  BY <1>0, <1>1 DEF ReadAt, Answered, Taken
<1>3. /\ a = ActiveCore(t)' /\ respRptr' = [respRptr EXCEPT ![a] = respWptr[a]]
      /\ UNCHANGED <<reqWptr, reqRptr, reqEntry, respWptr, respEntry, reading, host, buffer>>
      /\ respRptr \in [Core -> Pointer]
  BY <1>1, <1>2 DEF WriteResponseRptr, ActiveCore, instanceVars, requestVars, bufferVars,
     Inv, TypeOK
<1>4. respRptr'[a] = respWptr[a]
  BY <1>3
<1>5. PICK f, l : /\ Moves(t, f, l) /\ l \in {"filling", "returning"}
                  /\ f.dram = frame[t].dram /\ f.mode = frame[t].mode
                  /\ f.respRptr = respWptr[a]
  <2> DEFINE g == [frame[t] EXCEPT !.respRptr = respWptr[a]]
             h == [frame EXCEPT ![t].respRptr = respWptr[a]]
  <2>1. h = [frame EXCEPT ![t] = g]
    BY <1>0
  <2>2. g \in Frame /\ g.mode = frame[t].mode /\ g.dram = frame[t].dram
        /\ g.respRptr = respWptr[a]
    BY <1>1 DEF Frame, Inv, TypeOK
  <2>3. NextBlock(t, h)
    BY <1>0, <1>1, <1>2 DEF WriteResponseRptr, At
  <2> HIDE DEF g, h
  <2>4. \E f, l : /\ Moves(t, f, l) /\ l \in {"filling", "returning"}
                  /\ f.dram = g.dram /\ f.mode = g.mode /\ f.type = g.type
                  /\ f.respRptr = g.respRptr
    <3>1. PICK x, k : x = g /\ x \in Frame /\ k = [frame EXCEPT ![t] = x] /\ NextBlock(t, k)
      BY <2>1, <2>2, <2>3
    <3>2. \E f, l : /\ Moves(t, f, l) /\ l \in {"filling", "returning"}
                    /\ f.dram = x.dram /\ f.mode = x.mode /\ f.type = x.type
                    /\ f.respRptr = x.respRptr
      BY ONLY Inv, t \in Thread, <1>1, <3>1, NextBlockMoves, Zenon
    <3> QED
      BY <3>1, <3>2
  <2> QED
    BY <2>2, <2>4
<1>6. frame'[t] = f /\ pc'[t] = l
  BY <1>5, HolderOthers
<1>7. ~ReadOut(t)' /\ StoreAt(t)' /\ DramAt(t)'
  BY <1>1, <1>5, <1>6 DEF ReadOut, StoreAt, DramAt
<1>8. ReadAt(t)'
  BY <1>3, <1>4, <1>5, <1>6, <1>7 DEF ReadAt
<1>9. ASSUME NEW c \in Core, c # a PROVE CoreAt(c)'
  <2>1. RingsSame(c) /\ host' = host
    BY <1>3, <1>9 DEF RingsSame
  <2>2. NoneReads(c)
    BY <1>1, <1>5, <1>9, HolderOthers
  <2> QED
    BY <2>1, <2>2, SameCore DEF DataInv
<1>10. CoreAt(a)'
  <2>1. reqWptr'[a] = reqRptr'[a] /\ reqRptr'[a] \in Pointer
    BY <1>2, <1>3 DEF Inv, TypeOK
  <2>2. Held(reqWptr'[a], reqRptr'[a]) = {}
    BY <2>1, HeldEmpty
  <2>3. NoRead(a)'
    BY <1>2, <1>3, <1>4, <2>2 DEF NoRead, NoAnswer, WritesUpTo
  <2> QED
    BY <2>2, <2>3 DEF CoreAt
<1> QED
  BY <1>5, <1>7, <1>8, <1>9, <1>10, HolderData

-----------------------------------------------------------------------------
(* The firmware                                                            *)

(* A firmware step of core c moves no thread.                              *)
FirmwareMoves(c) ==
  /\ UNCHANGED <<pc, frame, active, reqWptr, reqEntry, respRptr>>
  /\ \A d \in Core \ {c} : RingsSame(d)

\* Firmware steps change the rings of their own core only.
LEMMA FirmwareStep ==
  ASSUME Inv, NEW c \in Core, Firmware(c) PROVE FirmwareMoves(c)
<1>1. /\ reqRptr \in [Core -> Pointer] /\ respWptr \in [Core -> Pointer]
      /\ reading \in [Core -> Command \cup {NoCommand}]
      /\ DOMAIN respEntry = Core /\ DOMAIN buffer = Core
  BY DEF Inv, TypeOK
<1>2. UNCHANGED <<pc, frame, active, reqWptr, reqEntry, respRptr>>
  BY DEF Firmware, FwWrite, FwAck, FwStartRead, FwFinishRead, callVars, instanceVars,
     requestVars, responseVars
<1>3. ASSUME NEW d \in Core \ {c} PROVE RingsSame(d)
  <2>1. CASE FwWrite(c)
    BY <1>1, <1>2, <2>1 DEF FwWrite, responseVars, bufferVars, RingsSame
  <2>2. CASE FwAck(c)
    BY <1>2, <2>2 DEF FwAck, requestVars, responseVars, bufferVars, RingsSame
  <2>3. CASE FwStartRead(c)
    BY <1>1, <1>2, <2>3 DEF FwStartRead, bufferVars, RingsSame
  <2>4. CASE FwFinishRead(c)
    <3>1. respEntry'[d] = respEntry[d] /\ reading'[d] = reading[d] /\ buffer'[d] = buffer[d]
      BY <1>1, <2>4 DEF FwFinishRead
    <3> QED
      BY <1>2, <2>4, <3>1 DEF FwFinishRead, requestVars, RingsSame
  <2> QED
    BY <2>1, <2>2, <2>3, <2>4 DEF Firmware
<1> QED
  BY <1>2, <1>3 DEF FirmwareMoves

\* What a thread has under way stays under way.
LEMMA FirmwareReads ==
  ASSUME NEW c \in Core, FirmwareMoves(c)
  PROVE  /\ \A u \in Thread : ActiveCore(u)' = ActiveCore(u) /\ (ReadOut(u)' <=> ReadOut(u))
         /\ \A d : NoneReads(d)' <=> NoneReads(d)
<1>1. ASSUME NEW u \in Thread
      PROVE  ActiveCore(u)' = ActiveCore(u) /\ (ReadOut(u)' <=> ReadOut(u))
  BY DEF FirmwareMoves, ActiveCore, ReadOut
<1> QED
  BY <1>1 DEF NoneReads

(* A write is taken: the requests left are among those there were.         *)
LEMMA FwWriteData ==
  ASSUME Inv, DataInv, NEW c \in Core, FwWrite(c) PROVE DataInv'
<1>0. FirmwareMoves(c)
  BY FirmwareStep DEF Firmware
<1>1. PICK w \in Pointer, r \in Pointer :
        /\ w = reqWptr[c] /\ r = reqRptr[c] /\ w # r /\ Occupied(w, r) <= Size
        /\ reqEntry[c][r % Size].type = "write" /\ reqRptr'[c] = Advance(r)
  BY DEF FwWrite, Pending, Oldest, Inv, TypeOK, RingInv, InRing
<1>2. /\ UNCHANGED <<pc, frame, active, reqWptr, reqEntry, respWptr, respRptr, respEntry,
                     reading, host, buffer>>
  BY DEF FwWrite, callVars, instanceVars, responseVars, bufferVars
<1>3. \A s \in Held(w, Advance(r)) : s \in Held(w, r)
  BY <1>1, HeldPop
<1>4. ASSUME NEW d \in Core \ {c} PROVE CoreAt(d)'
  BY <1>0, <1>2, <1>4, FirmwareReads, SameCore DEF FirmwareMoves, DataInv
<1>5. CoreAt(c)'
  <2>1. CoreAt(c)
    BY DEF DataInv
  <2>2. NoneReads(c)' => NoneReads(c)
    BY <1>0, FirmwareReads
  <2>3. NoRead(c) => NoRead(c)'
    BY <1>1, <1>2, <1>3 DEF NoRead, NoAnswer, WritesUpTo
  <2>4. ASSUME NEW s \in Held(w, Advance(r)) PROVE SlotAt(c, s)'
    <3>1. SlotAt(c, s)
      BY <1>1, <1>3, <2>1, <2>4 DEF CoreAt
    <3> QED
      BY <1>2, <3>1 DEF SlotAt, Stored
  <2> QED
    BY <1>1, <1>2, <2>1, <2>2, <2>3, <2>4 DEF CoreAt
<1>6. ASSUME NEW t \in Thread PROVE ReadAt(t)' /\ StoreAt(t)'
  <2>0. ReadAt(t) /\ StoreAt(t)
    BY DEF DataInv
  <2>1. StoreAt(t)'
    BY <1>2, <2>0 DEF StoreAt, Stored, ActiveCore
  <2>2. ActiveCore(t)' = ActiveCore(t) /\ (ReadOut(t)' <=> ReadOut(t))
    BY <1>0, FirmwareReads
  <2>3. DramAt(t)' /\ pc'[t] = pc[t] /\ frame'[t] = frame[t] /\ respRptr' = respRptr
    BY <1>2, <2>0 DEF ReadAt, DramAt
  <2>4. CASE ActiveCore(t) = c
    <3>1. ~Answering(t) /\ ~Answered(t)
      BY <1>1, <2>4 DEF Answering, Answered, Taken
    <3>2. ASSUME NEW p \in Pointer, QueuedAt(t, p) PROVE QueuedAt(t, p)'
      <4>1. /\ NoAnswer(c) /\ w = Advance(p) /\ Occupied(p, r) < Size
            /\ WritesUpTo(c, p) /\ Mine(reqEntry[c][p % Size], t)
        BY <1>1, <2>4, <3>2 DEF QueuedAt
      <4>2. p # r
        BY <1>1, <4>1 DEF Mine
      <4>3. Occupied(p, r) <= Size
        BY <4>1, OccupiedNat, SizeAssumption
      <4>4. /\ \A s \in Held(p, Advance(r)) : s \in Held(p, r)
            /\ Occupied(p, Advance(r)) < Size
        BY <4>2, <4>3, HeldPop
      <4>5. WritesUpTo(c, p)' /\ NoAnswer(c)'
        BY <1>1, <1>2, <4>1, <4>4 DEF WritesUpTo, NoAnswer
      <4>6. \A m : Mine(m, t)' <=> Mine(m, t)
        BY <2>3 DEF Mine
      <4> QED
        BY <1>1, <1>2, <2>2, <2>4, <4>1, <4>4, <4>5, <4>6 DEF QueuedAt
    <3>3. Queued(t) => Queued(t)'
      BY <3>2 DEF Queued
    <3>4. ReadAt(t)'
      BY <2>0, <2>2, <2>3, <3>1, <3>3 DEF ReadAt
    <3> QED
      BY <2>1, <3>4
  <2>5. CASE ActiveCore(t) # c
    <3>1. PICK d \in Core : d = ActiveCore(t)
      BY RemoteAssumption DEF Inv, TypeOK, ActiveCore
    <3>2. RingsSame(d)
      BY <1>0, <2>5, <3>1 DEF FirmwareMoves
    <3>3. UNCHANGED <<pc[t], frame[t], active[InstanceOf[t]]>> /\ host' = host
      BY <1>2
    <3> QED
      BY <2>0, <3>1, <3>2, <3>3, SameThread
  <2> QED
    BY <2>4, <2>5
<1> QED
  BY <1>4, <1>5, <1>6 DEF DataInv

(* An acknowledgement changes neither rings nor buffers.                   *)
LEMMA FwAckData ==
  ASSUME Inv, DataInv, NEW c \in Core, FwAck(c) PROVE DataInv'
<1>1. /\ FirmwareMoves(c) /\ host' = host
      /\ UNCHANGED <<pc, frame, active>> /\ \A d : RingsSame(d)
  BY FirmwareStep DEF Firmware, FwAck, callVars, instanceVars, requestVars, responseVars,
     bufferVars, RingsSame
<1>2. ASSUME NEW d \in Core PROVE CoreAt(d)'
  BY <1>1, FirmwareReads, SameCore DEF DataInv
<1>3. ASSUME NEW t \in Thread PROVE ReadAt(t)' /\ StoreAt(t)'
  <2>1. PICK d : d = ActiveCore(t)
    OBVIOUS
  <2>2. /\ RingsSame(d) /\ host' = host /\ ReadAt(t) /\ StoreAt(t)
        /\ UNCHANGED <<pc[t], frame[t], active[InstanceOf[t]]>>
    BY <1>1 DEF DataInv
  <2> QED
    BY <2>1, <2>2, SameThread
<1> QED
  BY <1>2, <1>3 DEF DataInv

(* What can be behind the head of a ring that is not a write: the read of  *)
(* the one thread that has a transfer under way.                           *)
LEMMA ReaderAt ==
  ASSUME Inv, DataInv, NEW c \in Core, ~NoRead(c)
  PROVE  \E t \in Thread :
           /\ ReadOut(t) /\ ActiveCore(t) = c /\ ReadAt(t) /\ DramAt(t)
           /\ frame[t] \in Frame /\ frame[t].respRptr = respRptr[c]
           /\ pc[t] \notin {"stored", "commanded"}
           /\ \A u \in Thread \ {t} : ~HalfWay(u) /\ DramAt(u)
<1>1. PICK t \in Thread : ReadOut(t) /\ ActiveCore(t) = c
  BY DEF DataInv, CoreAt, NoneReads
<1>2. /\ ReadAt(t) /\ pc[t] \in Issuing /\ pc[t] \in LockedLabels
      /\ pc[t] \notin {"stored", "commanded"} /\ frame[t].type = "read"
  BY <1>1 DEF DataInv, ReadOut, Issuing, LockedLabels
<1>3. frame[t] \in Frame /\ DramAt(t) /\ frame[t].respRptr = respRptr[c]
  BY <1>1, <1>2 DEF Inv, TypeOK, ReadAt
<1>4. \A u \in Thread \ {t} : ~HalfWay(u) /\ DramAt(u)
  BY <1>2, HolderFacts DEF HalfWay, DataInv, ReadAt
<1> QED
  BY <1>1, <1>2, <1>3, <1>4

(* A firmware step while thread t has its read at core c.                  *)
LEMMA FirmwareData ==
  ASSUME OwnBuffers, Inv, DataInv, NEW c \in Core, FirmwareMoves(c), NEW t \in Thread,
         ReadOut(t), ActiveCore(t) = c, ReadAt(t)',
         pc[t] \notin {"stored", "commanded"},
         \A u \in Thread \ {t} : ~HalfWay(u) /\ DramAt(u),
         reqWptr'[c] = reqRptr'[c], reqRptr'[c] \in Pointer,
         host' = host \/ NumCores = 1
  PROVE  DataInv'
<1>1. ReadOut(t)' /\ ActiveCore(t)' = c /\ \A d : NoneReads(d)' <=> NoneReads(d)
  BY FirmwareReads
<1>2. ASSUME NEW u \in Thread \ {t} PROVE ReadAt(u)' /\ StoreAt(u)'
  <2>1. ~HalfWay(u)' /\ DramAt(u)'
    BY DEF FirmwareMoves, HalfWay, DramAt
  <2> QED
    BY <2>1, OutThread
<1>3. StoreAt(t)'
  BY DEF FirmwareMoves, StoreAt
<1>4. CoreAt(c)'
  <2>1. ~NoneReads(c)'
    BY <1>1 DEF NoneReads
  <2>2. Held(reqWptr'[c], reqRptr'[c]) = {}
    BY HeldEmpty
  <2> QED
    BY <2>1, <2>2 DEF CoreAt
<1>5. ASSUME NEW d \in Core \ {c} PROVE CoreAt(d)'
  <2>1. NumCores # 1
    BY <1>5, RemoteAssumption DEF Core
  <2>2. RingsSame(d) /\ host' = host
    BY <2>1 DEF FirmwareMoves
  <2> QED
    BY <1>1, <2>2, SameCore DEF DataInv
<1> QED
  BY <1>2, <1>3, <1>4, <1>5 DEF DataInv

(* A read is taken: it is the last request of its core.                    *)
LEMMA FwStartReadData ==
  ASSUME OwnBuffers, Inv, DataInv, NEW c \in Core, FwStartRead(c) PROVE DataInv'
<1>0. FirmwareMoves(c)
  BY FirmwareStep DEF Firmware
<1>1. PICK w \in Pointer, r \in Pointer :
        /\ w = reqWptr[c] /\ r = reqRptr[c] /\ w # r /\ Occupied(w, r) <= Size
        /\ reqEntry[c][r % Size].type = "read" /\ reqRptr'[c] = Advance(r)
  BY DEF FwStartRead, Pending, Oldest, Inv, TypeOK, RingInv, InRing
<1>2. /\ UNCHANGED <<pc, frame, active, reqWptr, reqEntry, respRptr, host, buffer>>
      /\ reading'[c] = reqEntry[c][r % Size] /\ respWptr'[c] = Advance(respWptr[c])
  BY <1>1 DEF FwStartRead, callVars, instanceVars, bufferVars, Oldest, Inv, TypeOK
<1>3. r % Size \in Held(w, r)
  BY <1>1, HeldPop
<1>4. ~NoRead(c)
  BY <1>1, <1>3 DEF NoRead, WritesUpTo
<1>5. PICK t \in Thread :
        /\ ReadOut(t) /\ ActiveCore(t) = c /\ ReadAt(t) /\ DramAt(t)
        /\ frame[t] \in Frame /\ frame[t].respRptr = respRptr[c]
        /\ pc[t] \notin {"stored", "commanded"}
        /\ \A u \in Thread \ {t} : ~HalfWay(u) /\ DramAt(u)
  BY <1>4, ReaderAt
<1>6. ~Answering(t) /\ ~Answered(t)
  BY <1>1, <1>5 DEF Answering, Answered, Taken
<1>7. pc[t] \in {"published", "awaiting"} /\ Queued(t)
  BY <1>5, <1>6 DEF ReadAt, ReadOut
<1>8. PICK p \in Pointer :
        /\ NoAnswer(c) /\ w = Advance(p) /\ Occupied(p, r) < Size
        /\ WritesUpTo(c, p) /\ Mine(reqEntry[c][p % Size], t)
  BY <1>1, <1>5, <1>7 DEF Queued, QueuedAt
<1>9. p = r
  <2> SUFFICES ASSUME p # r PROVE FALSE
    OBVIOUS
  <2>1. Occupied(p, r) <= Size
    BY <1>8, OccupiedNat, SizeAssumption
  <2>2. r % Size \in Held(p, r)
    BY <2>1, HeldPop
  <2> QED
    BY <1>1, <1>8, <2>2 DEF WritesUpTo
<1>10. reqWptr'[c] = reqRptr'[c] /\ reqRptr'[c] \in Pointer
  BY <1>1, <1>2, <1>8, <1>9
<1>11. ActiveCore(t)' = c
  BY <1>0, <1>5, FirmwareReads
<1>12. Taken(t)'
  BY <1>2, <1>8, <1>10, <1>11 DEF Taken, NoAnswer
<1>13. Mine(reading'[c], t)
  BY <1>1, <1>2, <1>8, <1>9
<1>14. Answer(t)'.flags = NoFlags
  <2>1. respWptr[c] = frame[t].respRptr /\ respWptr[c] \in Pointer
    BY <1>5, <1>8 DEF NoAnswer, Inv, TypeOK
  <2>2. respWptr[c] % Size \in Slot
    BY <2>1, SlotOf
  <2>3. respEntry'[c][respWptr[c] % Size].flags = NoFlags
    BY <2>2 DEF FwStartRead, Inv, TypeOK
  <2> QED
    BY <1>2, <1>11, <2>1, <2>3 DEF Answer
<1>15. Answering(t)'
  BY <1>2, <1>11, <1>12, <1>13, <1>14 DEF Answering, Mine
<1>16. ReadAt(t)'
  BY <1>2, <1>5, <1>7, <1>11, <1>15 DEF ReadAt, DramAt
<1> QED
  BY <1>0, <1>2, <1>5, <1>10, <1>16, FirmwareData

(* And answered: the data goes where the call will look for it.            *)
LEMMA FwFinishReadData ==
  ASSUME OwnBuffers, Inv, DataInv, NEW c \in Core, FwFinishRead(c) PROVE DataInv'
<1>0. FirmwareMoves(c)
  BY FirmwareStep DEF Firmware
<1>1. /\ UNCHANGED <<pc, frame, active, reqWptr, reqRptr, reqEntry, respWptr, respRptr>>
      /\ reading[c] # NoCommand /\ reading'[c] = NoCommand
  BY DEF FwFinishRead, callVars, instanceVars, requestVars, Inv, TypeOK
<1>2. ~NoRead(c)
  BY <1>1 DEF NoRead, NoAnswer
<1>3. PICK t \in Thread :
        /\ ReadOut(t) /\ ActiveCore(t) = c /\ ReadAt(t) /\ DramAt(t)
        /\ frame[t] \in Frame /\ frame[t].respRptr = respRptr[c]
        /\ pc[t] \notin {"stored", "commanded"}
        /\ \A u \in Thread \ {t} : ~HalfWay(u) /\ DramAt(u)
  BY <1>2, ReaderAt
<1>4. ~Queued(t) /\ ~Answered(t)
  BY <1>1, <1>3 DEF Queued, QueuedAt, NoAnswer, Answered
<1>5. pc[t] \in {"published", "awaiting", "flagging"} /\ Answering(t)
  BY <1>3, <1>4 DEF ReadAt, ReadOut
<1>6. PICK m \in Command : m = reading[c] /\ Mine(m, t)
  BY <1>3, <1>5 DEF Answering, Mine
<1>7. /\ reqWptr[c] = reqRptr[c] /\ respWptr[c] = Advance(respRptr[c])
      /\ reqRptr[c] \in Pointer /\ respRptr[c] \in Pointer
  BY <1>3, <1>5 DEF Answering, Taken, Inv, TypeOK
<1>8. PICK x \in Slot : x = frame[t].respRptr % Size /\ x = (respWptr[c] + 2 * Size - 1) % Size
  BY <1>3, <1>7, BehindIs, SlotOf
<1>9. ActiveCore(t)' = c /\ Taken(t)'
  BY <1>0, <1>1, <1>3, <1>5, FirmwareReads DEF Answering, Taken
<1>10. /\ m.block = frame[t].block /\ m.mode = frame[t].mode /\ m.addr = x
       /\ m.mode \in Modes
  BY <1>6, <1>8 DEF Mine, Command
<1>11. /\ respEntry'[c][x].flags = m.mode
       /\ m.mode = "word" => respEntry'[c][x].data = m.block
  <2>1. respEntry' = [respEntry EXCEPT ![c][x] =
          [flags |-> m.mode, data |-> IF m.mode = "word" THEN m.block ELSE @.data]]
    BY <1>6, <1>8 DEF FwFinishRead
  <2>2. respEntry'[c][x] =
          [flags |-> m.mode, data |-> IF m.mode = "word" THEN m.block ELSE respEntry[c][x].data]
    BY <2>1 DEF Inv, TypeOK
  <2> QED
    BY <2>2
<1>12. m.mode = "block" => buffer'[c][x] = m.block
  BY <1>6, <1>10 DEF FwFinishRead, Inv, TypeOK
<1>13. m.mode = "dram" => host'[x] = m.block
  BY <1>6, <1>10, AddrIs DEF FwFinishRead, Inv, TypeOK
<1>14. Answer(t)' = respEntry'[c][x]
  BY <1>1, <1>8, <1>9 DEF Answer
<1>15. Delivered(t)'
  BY <1>1, <1>8, <1>9, <1>10, <1>11, <1>12, <1>13, <1>14 DEF Delivered
<1>16. Answered(t)'
  BY <1>1, <1>9, <1>10, <1>11, <1>14, <1>15 DEF Answered
<1>17. ReadAt(t)'
  BY <1>1, <1>3, <1>5, <1>9, <1>16 DEF ReadAt, DramAt
<1>18. host' = host \/ NumCores = 1
  BY <1>3, <1>6, <1>10 DEF FwFinishRead, DramAt, OwnBuffers
<1> QED
  BY <1>0, <1>1, <1>3, <1>7, <1>17, <1>18, FirmwareData

-----------------------------------------------------------------------------
(* The other steps, and the theorem                                        *)

(* The start and the end of a transfer, and a flush.                       *)
AsideStep(t) ==
  \/ StartTransfer(t) \/ RefuseBroadcast(t) \/ Return(t) \/ StartFlush(t)
  \/ QueueDrained(t) \/ WritesAcked(t) \/ ClearFlush(t) \/ FlushReturns(t)
  \/ TimeOut(t)

\* They have no part in what is half way, if they do not leave it so.
LEMMA AsideStepData ==
  ASSUME Inv, DataInv, NEW t \in Thread, AsideStep(t), ~Breaks PROVE DataInv'
<1>0. /\ frame \in [Thread -> Frame] /\ DramAt(t)
      /\ pc \in [Thread -> {"idle"} \cup LockedLabels \cup FlushLabels]
  BY DEF Inv, TypeOK, DataInv, ReadAt
<1>1. UNCHANGED <<coreVars, bufferVars, active>>
  BY DEF AsideStep, StartTransfer, Start, RefuseBroadcast, Return, StartFlush, QueueDrained,
     WritesAcked, Pass, ClearFlush, FlushReturns, TimeOut, instanceVars
<1>2. PICK f, l : pc' = [pc EXCEPT ![t] = l] /\ frame' = [frame EXCEPT ![t] = f]
  <2>1. CASE StartTransfer(t)
    <3>1. PICK type \in {"write", "read"}, dram \in {FALSE, HostDram},
               n \in 1 .. MaxCallBlocks : Start(t, type, dram, n)
      BY <2>1 DEF StartTransfer
    <3>2. frame' = [frame EXCEPT ![t] = [frame[t] EXCEPT !.type = type, !.dram = dram,
                                           !.left = n, !.block = issued + 1]]
      BY <1>0, <3>1 DEF Start
    <3> QED
      BY <3>1, <3>2 DEF Start, Goto
  <2>2. CASE RefuseBroadcast(t) \/ Return(t)
    BY <2>2 DEF RefuseBroadcast, Return, End, Goto
  <2>3. CASE StartFlush(t) \/ ClearFlush(t) \/ FlushReturns(t)
    <3>1. frame' = [frame EXCEPT ![t] = frame[t]]
      BY <1>0, <2>3 DEF StartFlush, ClearFlush, FlushReturns
    <3> QED
      BY <2>3, <3>1 DEF StartFlush, ClearFlush, FlushReturns, Goto
  <2>4. CASE QueueDrained(t) \/ WritesAcked(t)
    <3>1. frame' = [frame EXCEPT ![t] = [frame[t] EXCEPT !.scan = NextCore(frame[t].scan)]]
      BY <1>0, <2>4 DEF QueueDrained, WritesAcked, Pass
    <3> QED
      BY <2>4, <3>1 DEF QueueDrained, WritesAcked, Pass, Goto
  <2>5. CASE TimeOut(t)
    BY <2>5 DEF TimeOut, FlushTimesOut, End, Goto
  <2> QED
    BY <2>1, <2>2, <2>3, <2>4, <2>5 DEF AsideStep
<1>3. ASSUME NEW u \in Thread \ {t} PROVE Untouched(u)
  BY <1>0, <1>1, <1>2 DEF Untouched
<1>4. ~HalfWay(t) /\ ~HalfWay(t)'
  <2>1. CASE TimeOut(t)
    <3>1. pc'[t] = "idle"
      BY <1>0, <2>1 DEF TimeOut, FlushTimesOut, End, Goto
    <3> QED
      BY <3>1 DEF Breaks, HalfWay, LockedLabels
  <2>2. ASSUME ~TimeOut(t)
        PROVE  /\ pc[t] \in {"idle", "locked", "returning"} \cup FlushLabels
               /\ pc'[t] \in {"idle", "locked", "returning"} \cup FlushLabels
    BY <1>0, <2>2 DEF AsideStep, StartTransfer, Start, RefuseBroadcast, Return, End, StartFlush,
       QueueDrained, WritesAcked, Pass, ClearFlush, FlushReturns, At, Goto,
       FlushLabels
  <2> QED
    BY <2>1, <2>2 DEF HalfWay, LockedLabels, FlushLabels
<1>5. DramAt(t)'
  <2>1. CASE StartTransfer(t)
    <3>1. PICK type \in {"write", "read"}, dram \in {FALSE, HostDram},
               n \in 1 .. MaxCallBlocks : Start(t, type, dram, n)
      BY <2>1 DEF StartTransfer
    <3>2. frame'[t].dram = dram /\ frame'[t].mode = frame[t].mode
      BY <1>0, <3>1 DEF Start, Frame
    <3> QED
      BY <1>0, <3>2 DEF DramAt
  <2>2. CASE RefuseBroadcast(t) \/ Return(t) \/ TimeOut(t)
    <3>1. frame'[t] = NoFrame
      BY <1>0, <2>2 DEF RefuseBroadcast, Return, TimeOut, FlushTimesOut, End
    <3> QED
      BY <3>1 DEF DramAt, NoFrame
  <2>3. CASE \/ StartFlush(t) \/ ClearFlush(t) \/ FlushReturns(t)
             \/ QueueDrained(t) \/ WritesAcked(t)
    <3>1. frame'[t].dram = frame[t].dram /\ frame'[t].mode = frame[t].mode
      BY <1>0, <2>3 DEF StartFlush, ClearFlush, FlushReturns, QueueDrained, WritesAcked, Pass,
         Frame
    <3> QED
      BY <1>0, <3>1 DEF DramAt
  <2> QED
    BY <2>1, <2>2, <2>3 DEF AsideStep
<1> QED
  BY <1>1, <1>3, <1>4, <1>5, AsideData DEF Aside

\* A process dies with no transfer half way.
LEMMA CrashData ==
  ASSUME Inv, DataInv, NEW i \in Instance, Crash(i), ~Breaks PROVE DataInv'
<1>1. ASSUME NEW u \in Thread, InstanceOf[u] = i PROVE Aside(u)
  <2>1. pc'[u] = "idle" /\ frame'[u] = NoFrame
    BY <1>1 DEF Crash
  <2> QED
    BY <2>1 DEF Aside, Breaks, HalfWay, LockedLabels, DramAt, NoFrame
<1>2. ASSUME NEW u \in Thread, InstanceOf[u] # i PROVE Untouched(u)
  <2>1. active \in [Instance -> Core] /\ InstanceOf[u] \in Instance
    BY RemoteAssumption DEF Inv, TypeOK
  <2> QED
    BY <1>2, <2>1 DEF Untouched, Crash
<1>3. UNCHANGED <<coreVars, bufferVars>>
  BY DEF Crash
<1> QED
  BY <1>1, <1>2, <1>3, AsideData

\* Every step that disturbs no transfer keeps the invariant.
LEMMA DataNext ==
  ASSUME OwnBuffers, Inv, DataInv, [MCNext]_mcVars, ~disturbed' PROVE DataInv'
<1>1. ASSUME NEW t \in Thread, ~Breaks,
             StartTransfer(t) \/ RefuseBroadcast(t) \/ StartFlush(t) \/ Proceed(t)
      PROVE  DataInv'
  <2>1. \/ AsideStep(t) \/ ReadPtrs(t) \/ PollRptr(t) \/ StoreBlock(t) \/ WriteCommand(t)
        \/ WriteWptr(t) \/ AfterWrite(t) \/ AfterRead(t) \/ ResponseWptrMoved(t)
        \/ ResponseFlagsSet(t) \/ TakeData(t) \/ WriteResponseRptr(t)
    BY <1>1, Zenon DEF Proceed, AsideStep
  <2> QED
    BY <1>1, <2>1, AsideStepData, PointersData, StoreData, CommandData, PublishData,
       AfterWriteData, AfterReadData, AnswerData, TakeDataData, ResponseData
<1>2. ASSUME NEW i \in Instance, Crash(i), ~Breaks PROVE DataInv'
  BY <1>2, CrashData
<1>3. ASSUME NEW c \in Core, Firmware(c) PROVE DataInv'
  BY <1>3, FwWriteData, FwAckData, FwStartReadData, FwFinishReadData DEF Firmware
<1>4. CASE UNCHANGED mcVars
  <2>1. UNCHANGED <<coreVars, bufferVars, pc, frame, active>>
    BY <1>4 DEF mcVars, vars, callVars, instanceVars
  <2>2. \A u \in Thread : Untouched(u)
    BY <2>1 DEF Untouched
  <2> QED
    BY <2>1, <2>2, AsideData
<1>5. CASE MCNext
  <2>1. ~Breaks
    BY <1>5 DEF MCNext, Lives, Dies
  <2> QED
    BY <1>1, <1>2, <1>3, <1>5, <2>1 DEF MCNext, Lives, Dies
<1> QED
  BY <1>4, <1>5

\* Nothing is under way before the first call.
LEMMA DataInit == MCInit => DataInv
<1> SUFFICES ASSUME MCInit PROVE DataInv
  OBVIOUS
<1>1. Init
  BY DEF MCInit
<1>2. ASSUME NEW t \in Thread PROVE ReadAt(t) /\ StoreAt(t)
  <2>1. pc[t] = "idle" /\ frame[t] = NoFrame
    BY <1>1 DEF Init
  <2> QED
    BY <2>1 DEF ReadAt, StoreAt, ReadOut, DramAt, NoFrame, Issuing
<1>3. ASSUME NEW c \in Core PROVE CoreAt(c)
  <2>1. /\ reqWptr[c] = reqRptr[c] /\ reqRptr[c] \in Pointer
        /\ respWptr[c] = respRptr[c] /\ reading[c] = NoCommand
    BY <1>1, RemoteAssumption DEF Init
  <2>2. Held(reqWptr[c], reqRptr[c]) = {}
    BY <2>1, HeldEmpty
  <2> QED
    BY <2>1, <2>2 DEF CoreAt, NoRead, NoAnswer, WritesUpTo
<1> QED
  BY <1>2, <1>3 DEF DataInv

\* What the invariant says of the promises.
LEMMA DataPromise == Inv /\ DataInv => ReadOwnData /\ PendingWriteIntact
<1> SUFFICES ASSUME Inv, DataInv PROVE ReadOwnData /\ PendingWriteIntact
  OBVIOUS
<1>1. ReadOwnData
  BY DEF ReadOwnData, DataInv, ReadAt, ReadOut
<1>2. ASSUME NEW c \in Core, NEW i \in 1 .. Len(Requests(c)), NEW m, m = Requests(c)[i],
             m.type = "write"
      PROVE  /\ m.mode = "block" => buffer[c][m.addr] = m.block
             /\ m.mode = "dram" => host[m.addr] = m.block
  <2>1. Len(Requests(c)) = Occupied(reqWptr[c], reqRptr[c])
    BY RequestsAre
  <2>2. PICK s : s = (reqRptr[c] + i - 1) % Size
    OBVIOUS
  <2>3. s \in Held(reqWptr[c], reqRptr[c]) /\ m = reqEntry[c][s]
    BY <1>2, <2>1, <2>2 DEF Held, Requests, Contents
  <2>4. SlotAt(c, s)
    BY <2>3 DEF DataInv, CoreAt
  <2> QED
    BY <1>2, <2>3, <2>4 DEF SlotAt, Stored
<1> QED
  BY <1>1, <1>2 DEF PendingWriteIntact

(* read_non_mmio and write_to_non_mmio: until a call has timed out or died *)
(* half way, a read delivers the block it asked for, and a write that has  *)
(* returned finds its data in its buffer when its core takes it, for any   *)
(* number of threads and processes that use the rings at the same time;    *)
(* provided that block transfers do not go through host memory, or that    *)
(* there is one ethernet core.                                             *)
THEOREM TransfersIntact == ASSUME OwnBuffers PROVE MCSpec => []TransfersIntactUntilDisturbed
<1>1. MCInit => Inv /\ (~disturbed => DataInv)
  BY InitInvariant, DataInit DEF MCInit
<1>2. Inv /\ [MCNext]_mcVars => Inv'
  <2>1. [MCNext]_mcVars => [Next]_vars
    BY DEF MCNext, Lives, Dies, Next, mcVars
  <2> QED
    BY <2>1, NextInvariant
<1>3. Inv /\ (~disturbed => DataInv) /\ [MCNext]_mcVars => (~disturbed' => DataInv')
  <2>1. [MCNext]_mcVars /\ ~disturbed' => ~disturbed
    BY DEF MCNext, Lives, Dies, mcVars
  <2> QED
    BY <2>1, DataNext
<1>4. Inv /\ (~disturbed => DataInv) => TransfersIntactUntilDisturbed
  BY DataPromise DEF TransfersIntactUntilDisturbed, Inv
<1> QED
  BY <1>1, <1>2, <1>3, <1>4, PTL DEF MCSpec

-----------------------------------------------------------------------------
(***************************************************************************)
(* wait_for_non_mmio_flush, which looks at one core after the other and    *)
(* without the lock, while calls of other threads, timeouts, crashes and   *)
(* the firmware go on: when it returns, everything its thread wrote has    *)
(* been acknowledged.  Stated with the history variables of                *)
(* MCRemoteCommunication, for any number of threads, cores and blocks.     *)
(***************************************************************************)

(* Every thread has an instance of its own: what RemoteSharedFlush shows   *)
(* to be needed.                                                           *)
OwnInstances == \A t, u \in Thread : InstanceOf[t] = InstanceOf[u] => t = u

(* No write of t is in a sequence of commands, or waits at core c for its  *)
(* acknowledgement.                                                        *)
Clean(q, t) == \A i \in 1 .. Len(q) : q[i].type = "write" => q[i].by # t
Acked(c, t) == \A m \in unacked[c] : m.by # t

(* flush_non_mmio_ is set while anything the thread wrote is under way,    *)
(* and from the start of a write on; the scans find the cores behind them  *)
(* in the state they left them in.                                         *)
FlushAt(t) ==
  /\ pc[t] \notin {"draining", "acking"} => frame[t].scan = 0
  /\ t \notin died =>
       /\ ~flush[InstanceOf[t]] =>
            /\ \A c \in Core : Clean(Requests(c), t) /\ Acked(c, t)
            /\ pc[t] \in LockedLabels => frame[t].type = "read"
       /\ pc[t] = "draining" =>
            \A c \in Core : c < frame[t].scan => Clean(Requests(c), t)
       /\ pc[t] \in {"acking", "clearing", "flushed"} =>
            \A c \in Core : Clean(Requests(c), t)
       /\ pc[t] = "acking" => \A c \in Core : c < frame[t].scan => Acked(c, t)
       /\ pc[t] \in {"clearing", "flushed"} => \A c \in Core : Acked(c, t)

FlushInv == \A t \in Thread : FlushAt(t)

-----------------------------------------------------------------------------
(* Sequences without writes of a thread                                    *)

LEMMA CleanAppend ==
  ASSUME NEW S, NEW q \in Seq(S), NEW m \in S, NEW t, Clean(q, t),
         m.type = "write" => m.by # t
  PROVE  Clean(Append(q, m), t)
<1>1. /\ Len(Append(q, m)) = Len(q) + 1 /\ Append(q, m)[Len(q) + 1] = m
      /\ \A i \in 1 .. Len(q) : Append(q, m)[i] = q[i]
  BY AppendProperties
<1>2. Len(q) \in Nat
  BY LenProperties
<1> SUFFICES ASSUME NEW i \in 1 .. Len(q) + 1, Append(q, m)[i].type = "write"
             PROVE  Append(q, m)[i].by # t
  BY <1>1 DEF Clean
<1>3. i \in 1 .. Len(q) \/ i = Len(q) + 1
  BY <1>2
<1> QED
  BY <1>1, <1>3 DEF Clean

\* A queue without writes of a thread stays so when its head is taken.
LEMMA CleanTail ==
  ASSUME NEW S, NEW q \in Seq(S), q # <<>>, NEW t, Clean(q, t)
  PROVE  Clean(Tail(q), t) /\ (q[1].type = "write" => q[1].by # t)
<1>1. /\ Len(Tail(q)) = Len(q) - 1 /\ Len(q) \in Nat \ {0}
      /\ \A i \in 1 .. Len(Tail(q)) : Tail(q)[i] = q[i + 1]
  BY HeadTailProperties, LenProperties, EmptySeq
<1>2. Clean(Tail(q), t)
  BY <1>1 DEF Clean
<1>3. 1 \in 1 .. Len(q)
  BY <1>1
<1> QED
  BY <1>2, <1>3 DEF Clean

-----------------------------------------------------------------------------
(* What a step does to the writes of thread u: where none is pending none  *)
(* gets pending, and where none is pending none gets unacknowledged.       *)
Keeps(u) ==
  \A c \in Core :
    Clean(Requests(c), u) => /\ Clean(Requests(c), u)'
                             /\ Acked(c, u) => Acked(c, u)'

(* Where the rings and the acknowledgements are left alone.                *)
LEMMA KeepsQuiet ==
  ASSUME UNCHANGED <<requestVars, unacked>>, NEW u \in Thread PROVE Keeps(u)
<1>1. ASSUME NEW c \in Core PROVE Requests(c)' = Requests(c)
  BY DEF Requests, requestVars
<1> QED
  BY <1>1 DEF Keeps, Clean, Acked

(* A command that is written and not published.                            *)
LEMMA KeepsCommand ==
  ASSUME Inv, NEW t \in Thread, WriteCommand(t), NEW u \in Thread PROVE Keeps(u)
<1>1. ASSUME NEW c \in Core PROVE Requests(c)' = Requests(c)
  BY CommandStep
<1>2. UNCHANGED unacked
  BY DEF WriteCommand, PutCommand
<1> QED
  BY <1>1, <1>2 DEF Keeps, Clean, Acked

(* A call publishes commands of its own thread.                            *)
LEMMA KeepsPublish ==
  ASSUME Inv, NEW t \in Thread, WriteWptr(t), NEW u \in Thread,
         u # t \/ frame[t].type = "read"
  PROVE  Keeps(u)
<1>1. PICK a \in Core, m \in Command :
        /\ m.type = frame[t].type /\ m.by = t
        /\ \A c \in Core : Requests(c)' = IF c = a THEN Append(Requests(a), m)
                                                   ELSE Requests(c)
  BY PublishIs
<1>2. m \in Entry /\ (m.type = "write" => m.by # u)
  BY <1>1 DEF Entry
<1>3. Requests(a) \in Seq(Entry)
  BY RequestsAre
<1>4. ASSUME NEW c \in Core, Clean(Requests(c), u) PROVE Clean(Requests(c), u)'
  <2>1. CASE c = a
    <3>1. Clean(Append(Requests(a), m), u)
      BY <1>2, <1>3, <1>4, <2>1, CleanAppend
    <3>2. Requests(c)' = Append(Requests(a), m)
      BY <1>1, <2>1
    <3> QED
      BY <3>1, <3>2 DEF Clean
  <2>2. CASE c # a
    <3>1. Requests(c)' = Requests(c)
      BY <1>1, <2>2
    <3> QED
      BY <1>4, <3>1 DEF Clean
  <2> QED
    BY <2>1, <2>2
<1>5. UNCHANGED unacked
  BY DEF WriteWptr
<1> QED
  BY <1>4, <1>5 DEF Keeps, Acked

(* The firmware only moves a write on.                                     *)
LEMMA KeepsFirmware ==
  ASSUME Inv, NEW d \in Core, Firmware(d), NEW u \in Thread PROVE Keeps(u)
<1>0. unacked \in [Core -> SUBSET Command]
  BY DEF Inv, TypeOK
<1>1. CASE FwWrite(d) \/ FwStartRead(d)
  <2>1. /\ Requests(d) # <<>> /\ Oldest(d) = Requests(d)[1]
        /\ \A c \in Core : Requests(c)' = IF c = d THEN Tail(Requests(d)) ELSE Requests(c)
    BY <1>1, TakenIs
  <2>2. Requests(d) \in Seq(Entry)
    BY RequestsAre
  <2>3. Clean(Requests(d), u) => /\ Clean(Tail(Requests(d)), u)
                                 /\ Oldest(d).type = "write" => Oldest(d).by # u
    BY <2>1, <2>2, CleanTail
  <2>4. ASSUME NEW c \in Core, Clean(Requests(c), u)
        PROVE  Clean(Requests(c), u)' /\ (Acked(c, u) => Acked(c, u)')
    <3>1. CASE c = d
      <4>1. Requests(c)' = Tail(Requests(d))
        BY <2>1, <3>1
      <4>2. Clean(Requests(c), u)'
        BY <2>3, <2>4, <3>1, <4>1 DEF Clean
      <4>3. Acked(c, u) => Acked(c, u)'
        BY <1>0, <1>1, <2>3, <2>4, <3>1 DEF FwWrite, FwStartRead, Pending, Acked
      <4> QED
        BY <4>2, <4>3
    <3>2. CASE c # d
      <4>1. Requests(c)' = Requests(c)
        BY <2>1, <3>2
      <4>2. unacked'[c] = unacked[c]
        BY <1>0, <1>1, <3>2 DEF FwWrite, FwStartRead
      <4> QED
        BY <2>4, <4>1, <4>2 DEF Clean, Acked
    <3> QED
      BY <3>1, <3>2
  <2> QED
    BY <2>4 DEF Keeps
<1>2. CASE FwAck(d) \/ FwFinishRead(d)
  <2>1. ASSUME NEW c \in Core PROVE Requests(c)' = Requests(c)
    BY <1>2 DEF FwAck, FwFinishRead, requestVars, Requests
  <2>2. ASSUME NEW c \in Core PROVE unacked'[c] \subseteq unacked[c]
    BY <1>0, <1>2 DEF FwAck, FwFinishRead
  <2> QED
    BY <2>1, <2>2 DEF Keeps, Clean, Acked
<1> QED
  BY <1>1, <1>2 DEF Firmware

(* A step that leaves a thread and its instance alone.                     *)
LEMMA BystanderStep ==
  ASSUME Inv, Inv', NEW u \in Thread, FlushAt(u), Keeps(u), died \subseteq died',
         UNCHANGED <<pc[u], frame[u], flush[InstanceOf[u]]>>
  PROVE  FlushAt(u)'
<1>1. u \notin died' => u \notin died
  OBVIOUS
<1>2. \A c \in Core : Clean(Requests(c), u) => Clean(Requests(c), u)'
  BY DEF Keeps
<1>3. \A c \in Core : Clean(Requests(c), u) /\ Acked(c, u) => Acked(c, u)'
  BY DEF Keeps
<1> QED
  BY <1>1, <1>2, <1>3 DEF FlushAt

-----------------------------------------------------------------------------
(* The steps of a thread                                                   *)

(* Inside a transfer the type of the call and the place of the scan stay   *)
(* as they are, and the flush flags are left alone.                        *)
CallKept(t, f, l) ==
  /\ frame' = [frame EXCEPT ![t] = f] /\ pc' = [pc EXCEPT ![t] = l]
  /\ l \in LockedLabels => f.type = frame[t].type
  /\ l \in LockedLabels \cup {"idle"}
  /\ f.scan \in {frame[t].scan, 0}

TransferStep(t) ==
  \/ RefuseBroadcast(t) \/ ReadPtrs(t) \/ PollRptr(t) \/ StoreBlock(t) \/ WriteCommand(t)
  \/ WriteWptr(t) \/ AfterWrite(t) \/ AfterRead(t) \/ ResponseWptrMoved(t)
  \/ ResponseFlagsSet(t) \/ TakeData(t) \/ WriteResponseRptr(t) \/ Return(t)
  \/ (TimeOut(t) /\ pc[t] \in LockedLabels)

\* Leaving a call changes only the frame and the label of its thread.
LEMMA EndKeeps == ASSUME NEW t \in Thread, End(t) PROVE \E f, l : CallKept(t, f, l)
<1>1. CallKept(t, NoFrame, "idle")
  BY DEF End, Goto, CallKept, NoFrame, LockedLabels
<1> QED
  BY <1>1

\* Going on to the next block changes only the frame and the label of its thread.
LEMMA NextBlockKeeps ==
  ASSUME Inv, NEW t \in Thread, NEW g \in Frame, g.type = frame[t].type,
         g.scan = frame[t].scan, NEW h, h = [frame EXCEPT ![t] = g], NextBlock(t, h)
  PROVE  \E f, l : CallKept(t, f, l)
<1>1. frame \in [Thread -> Frame]
  BY DEF Inv, TypeOK
<1> DEFINE f == [g EXCEPT !.left = g.left - 1,
                          !.block = IF g.left > 1 THEN g.block + 1 ELSE g.block]
           l == IF g.left > 1 THEN "filling" ELSE "returning"
<1>2. frame' = [frame EXCEPT ![t] = f] /\ pc' = [pc EXCEPT ![t] = l]
  BY <1>1 DEF NextBlock, Goto, Frame
<1>3. f.type = frame[t].type /\ f.scan = frame[t].scan /\ l \in LockedLabels
  BY DEF Frame, LockedLabels
<1>4. CallKept(t, f, l)
  BY <1>2, <1>3 DEF CallKept
<1> QED
  BY <1>4

\* The steps of a transfer under the lock do not touch the flush flags.
LEMMA TransferKeeps ==
  ASSUME Inv, NEW t \in Thread, TransferStep(t)
  PROVE  pc[t] \in LockedLabels /\ UNCHANGED flush /\ \E f, l : CallKept(t, f, l)
<1> USE DEF instanceVars
<1>0. frame \in [Thread -> Frame] /\ frame[t] \in Frame /\ ActiveCore(t) \in Core
  BY DEF Inv, TypeOK, ActiveCore
<1>1. CASE RefuseBroadcast(t) \/ Return(t) \/ (TimeOut(t) /\ pc[t] \in LockedLabels)
  <2>1. End(t) /\ pc[t] \in LockedLabels /\ UNCHANGED flush
    BY <1>1 DEF RefuseBroadcast, Return, TimeOut, FlushTimesOut, At, LockedLabels
  <2> QED
    BY <2>1, EndKeeps
<1>2. ASSUME NEW f, f.type = frame[t].type, f.scan = frame[t].scan,
             NEW l \in LockedLabels, frame' = [frame EXCEPT ![t] = f],
             pc' = [pc EXCEPT ![t] = l]
      PROVE  \E g, k : CallKept(t, g, k)
  <2>1. CallKept(t, f, l)
    BY <1>2 DEF CallKept
  <2> QED
    BY <2>1
<1>3. CASE ReadPtrs(t)
  <2> DEFINE f == [frame[t] EXCEPT !.wptr = reqWptr[ActiveCore(t)],
                                   !.rptr = reqRptr[ActiveCore(t)],
                                   !.respRptr = respRptr[ActiveCore(t)]]
  <2>1. /\ frame' = [frame EXCEPT ![t] = f] /\ pc' = [pc EXCEPT ![t] = "filling"]
        /\ f.type = frame[t].type /\ f.scan = frame[t].scan
    BY <1>0, <1>3 DEF ReadPtrs, WithPtrsOf, Goto, Frame
  <2> HIDE DEF f
  <2> QED
    BY <1>2, <1>3, <2>1 DEF ReadPtrs, At, LockedLabels
<1>4. CASE PollRptr(t)
  <2> DEFINE f == [frame[t] EXCEPT !.rptr = reqRptr[ActiveCore(t)]]
  <2>1. /\ frame' = [frame EXCEPT ![t] = f]
        /\ f.type = frame[t].type /\ f.scan = frame[t].scan
    BY <1>0, <1>4 DEF PollRptr, Frame
  <2>2. pc' = [pc EXCEPT ![t] = pc[t]] /\ pc[t] \in LockedLabels
    BY <1>4 DEF PollRptr, At, LockedLabels, Inv, TypeOK
  <2> HIDE DEF f
  <2> QED
    BY <1>2, <1>4, <2>1, <2>2 DEF PollRptr
<1>5. CASE StoreBlock(t)
  <2> DEFINE f == [frame[t] EXCEPT !.mode = BlockMode(t)]
  <2>1. /\ frame' = [frame EXCEPT ![t] = f] /\ pc' = [pc EXCEPT ![t] = "stored"]
        /\ f.type = frame[t].type /\ f.scan = frame[t].scan
    BY <1>0, <1>5 DEF StoreBlock, Goto, Frame
  <2> HIDE DEF f
  <2> QED
    BY <1>2, <1>5, <2>1 DEF StoreBlock, At, LockedLabels
<1>6. CASE WriteCommand(t)
  <2>1. PICK m \in {"word", BlockMode(t), frame[t].mode} : PutCommand(t, m)
    BY <1>6 DEF WriteCommand
  <2> DEFINE f == [frame[t] EXCEPT !.mode = m]
  <2>2. /\ frame' = [frame EXCEPT ![t] = f] /\ pc' = [pc EXCEPT ![t] = "commanded"]
        /\ f.type = frame[t].type /\ f.scan = frame[t].scan
    BY <1>0, <2>1 DEF PutCommand, Goto, Frame
  <2> HIDE DEF f
  <2>3. pc[t] \in LockedLabels
    BY <1>6 DEF WriteCommand, At, LockedLabels
  <2> QED
    BY <1>2, <2>1, <2>2, <2>3 DEF PutCommand, LockedLabels
<1>7. CASE WriteWptr(t)
  <2> DEFINE f == [frame[t] EXCEPT !.wptr = Advance(frame[t].wptr)]
  <2>1. /\ frame' = [frame EXCEPT ![t] = f] /\ pc' = [pc EXCEPT ![t] = "published"]
        /\ f.type = frame[t].type /\ f.scan = frame[t].scan
    BY <1>0, <1>7 DEF WriteWptr, Goto, Frame
  <2> HIDE DEF f
  <2> QED
    BY <1>2, <1>7, <2>1 DEF WriteWptr, At, LockedLabels
<1>8. CASE AfterWrite(t)
  <2>1. PICK c \in Core : c = NextCore(ActiveCore(t))
    BY <1>0, NextCoreIs
  <2> DEFINE g == [frame[t] EXCEPT !.wptr = reqWptr[c], !.rptr = reqRptr[c]]
  <2>2. reqWptr[c] \in Pointer /\ reqRptr[c] \in Pointer
    BY DEF Inv, TypeOK
  <2>3. g \in Frame /\ g.type = frame[t].type /\ g.scan = frame[t].scan
    BY <1>0, <2>2 DEF Frame
  <2>4. WithPtrsOf(c, t) = [frame EXCEPT ![t] = g]
    BY <1>0 DEF WithPtrsOf, Frame
  <2>5. frame = [frame EXCEPT ![t] = frame[t]]
    BY <1>0
  <2>6. NextBlock(t, WithPtrsOf(c, t)) \/ NextBlock(t, frame)
    BY <1>8, <2>1 DEF AfterWrite
  <2> HIDE DEF g
  <2>7. \E f, l : CallKept(t, f, l)
    BY <1>0, <2>3, <2>4, <2>5, <2>6, NextBlockKeeps
  <2> QED
    BY <1>8, <2>7 DEF AfterWrite, At, LockedLabels
<1>9. CASE AfterRead(t)
  <2>1. PICK c \in Core : c = ActiveCore(t)
    BY <1>0
  <2> DEFINE g == [frame[t] EXCEPT !.wptr = reqWptr[c], !.rptr = reqRptr[c]]
  <2>2. /\ frame' = [frame EXCEPT ![t] = g] \/ frame' = [frame EXCEPT ![t] = frame[t]]
        /\ g.type = frame[t].type /\ g.scan = frame[t].scan
        /\ pc' = [pc EXCEPT ![t] = "awaiting"]
    BY <1>0, <1>9, <2>1 DEF AfterRead, WithPtrsOf, Goto, Frame
  <2> HIDE DEF g
  <2> QED
    BY <1>2, <1>9, <2>2 DEF AfterRead, At, LockedLabels
<1>10. CASE ResponseWptrMoved(t) \/ ResponseFlagsSet(t)
  <2>1. PICK l \in {"flagging", "taking", "mismatch"} : pc' = [pc EXCEPT ![t] = l]
    BY <1>10 DEF ResponseWptrMoved, ResponseFlagsSet, Goto
  <2>2. frame' = [frame EXCEPT ![t] = frame[t]]
    BY <1>0, <1>10 DEF ResponseWptrMoved, ResponseFlagsSet
  <2> QED
    BY <1>2, <1>10, <2>1, <2>2 DEF ResponseWptrMoved, ResponseFlagsSet, At, LockedLabels
<1>11. CASE TakeData(t)
  <2>1. PICK d : frame' = [frame EXCEPT ![t] = [frame[t] EXCEPT !.got = d]]
    BY <1>0, <1>11 DEF TakeData
  <2> DEFINE f == [frame[t] EXCEPT !.got = d]
  <2>2. /\ frame' = [frame EXCEPT ![t] = f] /\ pc' = [pc EXCEPT ![t] = "advancing"]
        /\ f.type = frame[t].type /\ f.scan = frame[t].scan
    BY <1>0, <1>11, <2>1 DEF TakeData, Goto, Frame
  <2> HIDE DEF f
  <2> QED
    BY <1>2, <1>11, <2>2 DEF TakeData, At, LockedLabels
<1>12. CASE WriteResponseRptr(t)
  <2> DEFINE g == [frame[t] EXCEPT !.respRptr = Advance(frame[t].respRptr)]
  <2>1. Advance(frame[t].respRptr) \in Pointer
    BY <1>0, AdvanceIs DEF Frame
  <2>2. /\ g \in Frame /\ g.type = frame[t].type /\ g.scan = frame[t].scan
        /\ [frame EXCEPT ![t].respRptr = Advance(frame[t].respRptr)] = [frame EXCEPT ![t] = g]
    BY <1>0, <2>1 DEF Frame
  <2>3. NextBlock(t, [frame EXCEPT ![t].respRptr = Advance(frame[t].respRptr)]) \/ End(t)
    BY <1>12 DEF WriteResponseRptr
  <2> HIDE DEF g
  <2>4. \E f, l : CallKept(t, f, l)
    BY <2>2, <2>3, NextBlockKeeps, EndKeeps
  <2> QED
    BY <1>12, <2>4 DEF WriteResponseRptr, At, LockedLabels
<1> QED
  BY <1>1, <1>3, <1>4, <1>5, <1>6, <1>7, <1>8, <1>9, <1>10, <1>11, <1>12 DEF TransferStep

(* A step of a transfer.                                                   *)
LEMMA TransferFlush ==
  ASSUME Inv, Inv', NEW t \in Thread, TransferStep(t), FlushInv, died' = died,
         NEW u \in Thread
  PROVE  FlushAt(u)'
<1>1. PICK f, l : CallKept(t, f, l)
  BY TransferKeeps
<1>2. pc[t] \in LockedLabels /\ UNCHANGED flush
  BY TransferKeeps
<1>3. frame \in [Thread -> Frame] /\ pc \in [Thread -> {"idle"} \cup LockedLabels \cup FlushLabels]
  BY DEF Inv, TypeOK
<1>4. u # t \/ frame[t].type = "read" => Keeps(u)
  <2>1. CASE WriteWptr(t)
    BY <2>1, KeepsPublish
  <2>2. CASE WriteCommand(t)
    BY <2>2, KeepsCommand
  <2>3. CASE Quiet(t)
    BY <2>3, KeepsQuiet, QuietStep
  <2> QED
    BY <2>1, <2>2, <2>3, Zenon DEF TransferStep, Quiet
<1>5. CASE u # t
  <2>1. UNCHANGED <<pc[u], frame[u], flush[InstanceOf[u]]>>
    BY <1>1, <1>2, <1>3, <1>5 DEF CallKept
  <2> QED
    BY <1>4, <1>5, <2>1, BystanderStep DEF FlushInv
<1>6. CASE u = t
  <2>1. pc'[t] = l /\ frame'[t] = f
    BY <1>1, <1>3 DEF CallKept
  <2>2. l \notin {"draining", "acking", "clearing", "flushed"}
    BY <1>1 DEF CallKept, LockedLabels
  <2>3. pc[t] \notin {"draining", "acking"} /\ frame[t].scan = 0 /\ f.scan = 0
    BY <1>1, <1>2 DEF FlushInv, FlushAt, CallKept, LockedLabels
  <2>4. ASSUME t \notin died, ~flush[InstanceOf[t]]
        PROVE  /\ \A c \in Core : Clean(Requests(c), t)' /\ Acked(c, t)'
               /\ l \in LockedLabels => f.type = "read"
    <3>1. /\ \A c \in Core : Clean(Requests(c), t) /\ Acked(c, t)
          /\ frame[t].type = "read"
      BY <1>2, <2>4 DEF FlushInv, FlushAt
    <3>2. Keeps(t)
      BY <1>4, <1>6, <3>1
    <3> QED
      BY <1>1, <3>1, <3>2 DEF Keeps, CallKept
  <2> QED
    BY <1>2, <1>6, <2>1, <2>2, <2>3, <2>4 DEF FlushAt
<1> QED
  BY <1>5, <1>6

(* The start of a call and the steps of a flush: nothing is sent.          *)
FlushStep(t) ==
  \/ StartTransfer(t) \/ StartFlush(t) \/ QueueDrained(t) \/ WritesAcked(t)
  \/ ClearFlush(t) \/ FlushReturns(t)
  \/ (TimeOut(t) /\ pc[t] \notin LockedLabels)

\* The steps of wait_for_non_mmio_flush keep the flush invariant of every thread.
LEMMA FlushStepFlush ==
  ASSUME OwnInstances, Inv, Inv', NEW t \in Thread, FlushStep(t), FlushInv,
         died' = died, NEW u \in Thread
  PROVE  FlushAt(u)'
<1> USE DEF instanceVars
<1>0. /\ frame \in [Thread -> Frame] /\ flush \in [Instance -> BOOLEAN]
      /\ pc \in [Thread -> {"idle"} \cup LockedLabels \cup FlushLabels]
      /\ FlushAt(t) /\ FlushAt(u)
  BY DEF Inv, TypeOK, FlushInv
<1>a. Keeps(t) /\ Keeps(u)
  BY KeepsQuiet, QuietStep, Zenon DEF FlushStep, Quiet
<1>1. \A c \in Core : Clean(Requests(c), t) => Clean(Requests(c), t)'
  BY <1>a DEF Keeps
<1>2. \A c \in Core : Clean(Requests(c), t) /\ Acked(c, t) => Acked(c, t)'
  BY <1>a DEF Keeps
<1>3. CASE u # t
  <2>1. InstanceOf[u] # InstanceOf[t]
    BY <1>3 DEF OwnInstances
  <2>2. pc'[u] = pc[u] /\ frame'[u] = frame[u]
    BY <1>0, <1>3 DEF FlushStep, StartTransfer, Start, StartFlush, QueueDrained, WritesAcked,
       ClearFlush, FlushReturns, TimeOut, FlushTimesOut, End, Pass, Goto
  <2>3. flush'[InstanceOf[u]] = flush[InstanceOf[u]]
    BY <1>0, <2>1 DEF FlushStep, StartTransfer, Start, StartFlush, QueueDrained, WritesAcked,
       ClearFlush, FlushReturns, TimeOut, Pass
  <2> QED
    BY <1>0, <1>a, <2>2, <2>3, BystanderStep
<1>4. CASE StartTransfer(t)
  <2>1. PICK type \in {"write", "read"}, dram \in {FALSE, HostDram}, n \in 1 .. MaxCallBlocks :
          Start(t, type, dram, n)
    BY <1>4 DEF StartTransfer
  <2>2. pc[t] = "idle" /\ pc'[t] = "locked"
    BY <1>0, <2>1 DEF Start, At, Goto
  <2>3. frame'[t].scan = frame[t].scan /\ frame'[t].type = type
    BY <1>0, <2>1 DEF Start, Frame
  <2>4. flush'[InstanceOf[t]] = (flush[InstanceOf[t]] \/ type = "write")
    BY <1>0, <2>1 DEF Start
  <2>5. FlushAt(t)'
    BY <1>0, <1>1, <1>2, <2>1, <2>2, <2>3, <2>4, Zenon DEF FlushAt
  <2> QED
    BY <1>3, <2>5
<1>5. CASE StartFlush(t) \/ FlushReturns(t)
  <2>1. frame' = frame /\ flush' = flush
    BY <1>5 DEF StartFlush, FlushReturns
  <2>2. /\ pc[t] \in {"idle", "flushed"} /\ pc'[t] \in {"idle", "draining", "flushed"}
        /\ pc'[t] = "flushed" => ~flush[InstanceOf[t]]
    BY <1>0, <1>5 DEF StartFlush, FlushReturns, At, Goto
  <2>3. frame[t].scan = 0
    BY <1>0, <2>2 DEF FlushAt
  <2>4. pc'[t] \notin LockedLabels /\ \A c \in Core : ~(c < 0)
    BY <2>2 DEF LockedLabels, Core
  <2>5. FlushAt(t)'
    BY <1>0, <1>1, <1>2, <2>1, <2>2, <2>3, <2>4 DEF FlushAt
  <2> QED
    BY <1>3, <2>5
<1>6. CASE QueueDrained(t) \/ WritesAcked(t)
  <2>1. PICK s \in Core : s = frame[t].scan
    BY <1>0 DEF Frame
  <2>2. /\ flush' = flush /\ frame'[t].scan = NextCore(s)
        /\ pc[t] \in {"draining", "acking"}
    BY <1>0, <1>6, <2>1 DEF QueueDrained, WritesAcked, Pass, At, Frame
  <2>3. /\ s = NumCores - 1 => /\ NextCore(s) = 0 /\ \A c \in Core : c < s \/ c = s
                               /\ \A c \in Core : ~(c < NextCore(s))
        /\ s # NumCores - 1 => \A c \in Core : c < NextCore(s) => c < s \/ c = s
    <3>1. \A k \in Nat \ {0} : \A x \in 0 .. k - 1 :
            (x + 1) % k = IF x = k - 1 THEN 0 ELSE x + 1
      BY SMT
    <3> QED
      BY <3>1 DEF NextCore, Core
  <2>4. CASE QueueDrained(t)
    <3>1. /\ pc[t] = "draining" /\ reqWptr[s] = reqRptr[s]
          /\ pc'[t] = IF s = NumCores - 1 THEN "acking" ELSE "draining"
      BY <1>0, <2>1, <2>4 DEF QueueDrained, Pass, At, Goto
    <3>2. Clean(Requests(s), t)
      <4>1. Len(Requests(s)) = 0
        BY <3>1, RequestsAre, PushOccupies
      <4> QED
        BY <4>1 DEF Clean
    <3>3. t \notin died => \A c \in Core : c < s \/ c = s => Clean(Requests(c), t)
      BY <1>0, <2>1, <3>1, <3>2 DEF FlushAt
    <3>4. FlushAt(t)'
      BY <1>0, <1>1, <1>2, <2>2, <2>3, <3>1, <3>3 DEF FlushAt, LockedLabels
    <3> QED
      BY <1>3, <3>4
  <2>5. CASE WritesAcked(t)
    <3>1. /\ pc[t] = "acking" /\ unacked[s] = {}
          /\ pc'[t] = IF s = NumCores - 1 THEN "clearing" ELSE "acking"
      BY <1>0, <2>1, <2>5 DEF WritesAcked, Pass, At, Goto
    <3>2. t \notin died => \A c \in Core : c < s \/ c = s => Acked(c, t)
      BY <1>0, <2>1, <3>1 DEF FlushAt, Acked
    <3>3. t \notin died => \A c \in Core : Clean(Requests(c), t)
      BY <1>0, <3>1 DEF FlushAt
    <3>4. FlushAt(t)'
      BY <1>0, <1>1, <1>2, <2>2, <2>3, <3>1, <3>2, <3>3 DEF FlushAt, LockedLabels
    <3> QED
      BY <1>3, <3>4
  <2> QED
    BY <1>6, <2>4, <2>5
<1>7. CASE ClearFlush(t)
  <2>1. /\ frame' = frame /\ pc[t] = "clearing" /\ pc'[t] = "flushed"
        /\ pc'[t] \notin LockedLabels
    BY <1>0, <1>7 DEF ClearFlush, At, Goto, LockedLabels
  <2>2. FlushAt(t)'
    BY <1>0, <1>1, <1>2, <2>1 DEF FlushAt
  <2> QED
    BY <1>3, <2>2
<1>8. CASE TimeOut(t) /\ pc[t] \notin LockedLabels
  <2>1. FlushTimesOut(t) /\ flush' = flush
    BY <1>8 DEF TimeOut, At, LockedLabels
  <2>2. /\ pc'[t] = "idle" /\ frame'[t].scan = 0 /\ pc'[t] \notin LockedLabels
    BY <1>0, <2>1 DEF FlushTimesOut, Goto, NoFrame, LockedLabels
  <2>3. FlushAt(t)'
    BY <1>0, <1>1, <1>2, <2>1, <2>2 DEF FlushAt
  <2> QED
    BY <1>3, <2>3
<1> QED
  BY <1>4, <1>5, <1>6, <1>7, <1>8 DEF FlushStep

-----------------------------------------------------------------------------
(* The promise of a flush                                                  *)

LEMMA FlushInit == MCInit => FlushInv
<1> SUFFICES ASSUME MCInit, NEW t \in Thread PROVE FlushAt(t)
  BY DEF FlushInv
<1>1. Inv /\ Init
  BY InitInvariant DEF MCInit
<1>2. pc[t] = "idle" /\ frame[t].scan = 0 /\ pc[t] \notin LockedLabels
  BY <1>1 DEF Init, NoFrame, LockedLabels
<1>3. ASSUME NEW c \in Core PROVE Clean(Requests(c), t) /\ Acked(c, t)
  <2>1. Len(Requests(c)) = 0
    BY <1>1, RequestsAre, PushOccupies DEF Init
  <2>2. unacked[c] = {}
    BY <1>1 DEF Init
  <2> QED
    BY <2>1, <2>2 DEF Clean, Acked
<1> QED
  BY <1>2, <1>3 DEF FlushAt

\* A step with the history variables is a step of the model.
LEMMA MCNextIs == [MCNext]_mcVars => [Next]_vars
BY DEF MCNext, Lives, Dies, Next, mcVars

\* Every step keeps the flush invariant.
LEMMA FlushNext == OwnInstances /\ Inv /\ Inv' /\ FlushInv /\ [MCNext]_mcVars => FlushInv'
<1> SUFFICES ASSUME OwnInstances, Inv, Inv', FlushInv, [MCNext]_mcVars, NEW u \in Thread
             PROVE  FlushAt(u)'
  BY DEF FlushInv
<1>1. ASSUME NEW t \in Thread, died' = died,
             StartTransfer(t) \/ RefuseBroadcast(t) \/ StartFlush(t) \/ Proceed(t)
      PROVE  FlushAt(u)'
  <2>1. TransferStep(t) \/ FlushStep(t)
    BY <1>1, Zenon DEF Proceed, TransferStep, FlushStep
  <2>2. CASE TransferStep(t)
    BY <1>1, <2>2, TransferFlush
  <2>3. CASE FlushStep(t)
    BY <1>1, <2>3, FlushStepFlush
  <2> QED
    BY <2>1, <2>2, <2>3
<1>2. ASSUME NEW i \in Instance, Dies(i) PROVE FlushAt(u)'
  <2>1. CASE InstanceOf[u] = i
    <3>1. u \in died' /\ frame'[u] = NoFrame
      BY <1>2, <2>1 DEF Dies, Crash
    <3> QED
      BY <3>1 DEF FlushAt, NoFrame
  <2>2. CASE InstanceOf[u] # i
    <3>1. pc'[u] = pc[u] /\ frame'[u] = frame[u] /\ died \subseteq died'
      BY <1>2, <2>2 DEF Dies, Crash
    <3>2. flush'[InstanceOf[u]] = flush[InstanceOf[u]]
      BY <1>2, <2>2 DEF Dies, Crash, Inv, TypeOK
    <3>3. UNCHANGED <<requestVars, unacked>>
      BY <1>2 DEF Dies, Crash, coreVars
    <3> QED
      BY <3>1, <3>2, <3>3, KeepsQuiet, BystanderStep DEF FlushInv
  <2> QED
    BY <2>1, <2>2
<1>3. ASSUME NEW c \in Core, Firmware(c), died' = died PROVE FlushAt(u)'
  <2>1. UNCHANGED <<pc, frame, flush>>
    BY <1>3 DEF Firmware, FwWrite, FwAck, FwStartRead, FwFinishRead, callVars, instanceVars
  <2>2. Keeps(u)
    BY <1>3, KeepsFirmware
  <2> QED
    BY <1>3, <2>1, <2>2, BystanderStep DEF FlushInv
<1>4. CASE UNCHANGED mcVars
  <2>1. UNCHANGED <<pc, frame, flush, requestVars, unacked, died>>
    BY <1>4 DEF mcVars, vars, callVars, instanceVars, coreVars
  <2> QED
    BY <2>1, KeepsQuiet, BystanderStep DEF FlushInv
<1> QED
  BY <1>1, <1>2, <1>3, <1>4 DEF MCNext, Lives

(* wait_for_non_mmio_flush: when it returns, no command its thread wrote   *)
(* since its process started is in any ring and none is unacknowledged,    *)
(* also those of calls that timed out half way, whatever the other threads *)
(* send while it scans; provided no other thread uses the same instance.   *)
THEOREM FlushComplete == ASSUME OwnInstances PROVE MCSpec => []FlushedSinceStart
<1>1. MCInit => Inv /\ FlushInv
  BY InitInvariant, FlushInit DEF MCInit
<1>2. Inv /\ [MCNext]_mcVars => Inv'
  BY MCNextIs, NextInvariant
<1>3. FlushInv => FlushedSinceStart
  <2> SUFFICES ASSUME FlushInv, NEW t \in Thread \ died, pc[t] = "flushed"
               PROVE  WritesDone(t)
    BY DEF FlushedSinceStart
  <2>1. \A c \in Core : Clean(Requests(c), t) /\ Acked(c, t)
    BY DEF FlushInv, FlushAt
  <2> QED
    BY <2>1 DEF WritesDone, Clean, Acked
<1>4. Inv /\ Inv' /\ FlushInv /\ [MCNext]_mcVars => FlushInv'
  BY FlushNext
<1> QED
  BY <1>1, <1>2, <1>3, <1>4, PTL DEF MCSpec

=============================================================================
