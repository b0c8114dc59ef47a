----------------------------- MODULE TlbWindow -----------------------------
(***************************************************************************)
(* A TLB window: a naturally aligned aperture of TlbSize bytes through     *)
(* which the host reaches the memory of a core (or of a rectangle of cores *)
(* for a multicast), and the sequence of device accesses that a copy       *)
(* through it consists of.  Offsets are offsets from the aligned base.     *)
(***************************************************************************)
EXTENDS Integers, Sequences, FiniteSets, SequencesExt, FiniteSetsExt

CONSTANTS
  TlbSize,       \* TlbHandle::get_size()
  Word,          \* sizeof(uint32_t)
  Widths         \* the widths of the wide accesses: 256, 32, 16 and 4 bytes

ASSUME WindowAssumption ==
  /\ Word \in Nat \ {0}
  /\ TlbSize \in Nat \ {0} /\ TlbSize % Word = 0
  /\ Word \in Widths /\ \A w \in Widths : w % Word = 0

\* What a call asks of a window: the cores (a rectangle for a multicast), address and NOC.
MakeTlbConfig(cores, addr, noc) == [cores |-> cores, addr |-> addr, noc |-> noc]

\* configure(): the aligned base goes to the handle, the remainder stays in
\* offset_from_aligned_addr.
UnalignedConfig(c) == [cores |-> c.cores, base |-> c.addr, offset |-> 0, noc |-> c.noc]   \* mutant
Configured(c) ==
  [cores |-> c.cores, base |-> c.addr - (c.addr % TlbSize), offset |-> c.addr % TlbSize, noc |-> c.noc]
TlbConfig(cores, addr, noc) == Configured(MakeTlbConfig(cores, addr, noc))
GetSize(window) == TlbSize - window.offset
GetBaseAddress(window) == window.base + window.offset
Validate(window, offset, size) == offset + size <= GetSize(window)

\* umd::memcpy_{to,from}_device: single bytes up to a word boundary, then the widest
\* access that still fits, then single bytes.
MemcpyPhases[at \in 0..TlbSize, size \in 0..TlbSize] ==
  LET width == IF at % Word # 0 \/ size < Word THEN 1
               ELSE Max({w \in Widths : w <= size})
  IN  IF size = 0 \/ at + size > TlbSize THEN <<>>
      ELSE <<[at |-> at, n |-> width]>> \o MemcpyPhases[at + width, size - width]

Accesses(kind, phases) ==
  [i \in DOMAIN phases |-> [kind |-> kind, at |-> phases[i].at, n |-> phases[i].n]]
WholeWord(at) == <<[at |-> at - (at % Word), n |-> Word]>>

\* The leading and the trailing part of a Wormhole copy that do not fill a word.
Leading(at, size) == IF at % Word = 0 THEN 0 ELSE Min({Word - (at % Word), size})
Trailing(at, size) == (size - Leading(at, size)) % Word

\* SiliconTlbWindow::memcpy_to_device: a partial word is fetched, patched and stored back.
StoresWithoutTrailer(at, size) ==            \* mutant: the trailing partial word is dropped
  LET lead == Leading(at, size)
  IN  (IF lead = 0 THEN <<>> ELSE Accesses("fetch", WholeWord(at)) \o Accesses("patch", WholeWord(at)))
      \o Accesses("store", MemcpyPhases[at + lead, size - lead - Trailing(at, size)])
WormholeStores(at, size) ==
  LET lead == Leading(at, size)
      trail == Trailing(at, size)
      patch(a) == Accesses("fetch", WholeWord(a)) \o Accesses("patch", WholeWord(a))
  IN  (IF lead = 0 THEN <<>> ELSE patch(at))
      \o Accesses("store", MemcpyPhases[at + lead, size - lead - trail])
      \o (IF trail = 0 THEN <<>> ELSE patch(at + size - trail))

\* SiliconTlbWindow::memcpy_from_device: whole words are loaded, what is needed is kept.
WormholeLoads(at, size) ==
  LET lead == Leading(at, size)
      trail == Trailing(at, size)
  IN  Accesses("load", (IF lead = 0 THEN <<>> ELSE WholeWord(at))
                       \o MemcpyPhases[at + lead, size - lead - trail]
                       \o (IF trail = 0 THEN <<>> ELSE WholeWord(at + size - trail)))

MemcpyToDevice(at, size) == Accesses("store", MemcpyPhases[at, size])
MemcpyFromDevice(at, size) == Accesses("load", MemcpyPhases[at, size])

\* read_block and write_block.
BlockAccesses(arch, op, at, size) ==
  CASE arch = "wormhole" /\ op = "write" -> WormholeStores(at, size)
    [] arch = "wormhole" /\ op = "read" -> WormholeLoads(at, size)
    [] arch = "blackhole" /\ op = "write" -> MemcpyToDevice(at, size)
    [] arch = "blackhole" /\ op = "read" -> MemcpyFromDevice(at, size)

\* read_register and write_register: size / 4 words, one by one.
RegisterAccesses(op, at, size) ==
  [i \in 1..(size \div Word) |->
     [kind |-> IF op = "write" THEN "store" ELSE "load", at |-> at + (i - 1) * Word, n |-> Word]]
=============================================================================
