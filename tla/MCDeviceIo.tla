---------------------------- MODULE MCDeviceIo ----------------------------
(***************************************************************************)
(* Two threads, in one process or in two, a window of four bytes, words of *)
(* two bytes, and requests that cross a window, start inside a word, share *)
(* a word with another request, use both NOCs and every path.              *)
(***************************************************************************)
EXTENDS DeviceIo, TLC

CONSTANTS t1, t2, c1, c2

R(op, via, cores, addr, size, noc) ==
  [op |-> op, via |-> via, cores |-> cores, addr |-> addr, size |-> size, noc |-> noc]

\* Requests of two threads, on a Wormhole unless said otherwise.
Cross == R("write", "data", {c1}, 1, 4, 0)        \* crosses a window, both ends inside a word
Beside == R("write", "data", {c1}, 5, 2, 1)       \* shares a word with Cross
Multicast == R("write", "data", {c1, c2}, 6, 2, 0)
ReadBack == R("read", "data", {c1}, 3, 3, 0)
Ctrl == R("write", "ctrl", {c1}, 2, 4, 1)
CtrlUnaligned == R("read", "ctrl", {c1}, 1, 2, 0)
Chip == R("write", "chip", {c1}, 2, 2, 0)         \* inside the static window, where there is one
ChipRead == R("read", "chip", {c1}, 2, 1, 0)
ChipOther == R("write", "chip", {c2}, 5, 1, 1)
Reg == R("write", "reg", {c1}, 6, 2, 0)
RegBeyond == R("read", "reg", {c1}, 2, 4, 0)      \* beyond the window
Dma == R("write", "dma", {c1}, 2, 4, 0)           \* two jobs
DmaMulticast == R("write", "dma", {c1, c2}, 4, 2, 0)
DmaRead == R("read", "dma", {c1}, 0, 4, 0)
DmaUnaligned == R("write", "dma", {c1}, 1, 2, 0)
ZeroCopy == R("write", "zerocopy", {c1}, 2, 4, 0)
ZeroCopyRead == R("read", "zerocopy", {c1}, 2, 2, 0)

Pairs == { <<Cross, Beside>>, <<Cross, ReadBack>>, <<Multicast, Ctrl>>, <<Ctrl, CtrlUnaligned>>,
           <<Chip, ChipRead>>, <<Chip, ChipOther>>, <<Cross, Chip>>, <<Reg, RegBeyond>>,
           <<Dma, ReadBack>>, <<Dma, DmaRead>>, <<DmaMulticast, Dma>>, <<DmaUnaligned, ZeroCopyRead>>,
           <<ZeroCopy, ZeroCopyRead>>, <<ZeroCopy, DmaRead>> }

E(pair, arch, safe, wired, same, dmabuf, faults) ==
  [arch |-> arch, safe |-> safe, wired |-> wired, dmabuf |-> dmabuf, faults |-> faults,
   proc |-> (t1 :> 1 @@ t2 :> IF same THEN 1 ELSE 2), ask |-> (t1 :> pair[1] @@ t2 :> pair[2]),
   static |-> IF pair[1] = Chip THEN {<<c1, 2>>, <<c1, 4>>} ELSE {}]
MCEnv ==
  { E(pair, arch, safe, TRUE, same, TRUE, faults) :
      pair \in Pairs, arch \in {"wormhole", "blackhole"}, safe \in {TRUE}, same \in BOOLEAN,
      faults \in BOOLEAN }
  \cup { E(pair, "wormhole", FALSE, wired, TRUE, FALSE, TRUE) : pair \in Pairs, wired \in BOOLEAN }

-----------------------------------------------------------------------------
(* read and write through cached, static, register and DMA windows: a      *)
(* completed write has put its bytes on the cores it names, no call has    *)
(* changed another byte, and a read returns the bytes of the writes        *)
(* completed before it, whatever the other thread does with the windows    *)
(* meanwhile; and a transfer is aborted for its time only when the NOC it  *)
(* used is hung.                                                           *)
TransfersExact ==
  /\ TypeOK
  /\ WritesLand
  /\ OthersUntouched
  /\ ReadsReturn
  /\ TimeoutMeansHung
=============================================================================
