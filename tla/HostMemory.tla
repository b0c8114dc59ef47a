----------------------------- MODULE HostMemory ------------------------------
(***************************************************************************)
(* The host memory a device reaches and the driver resources behind it:    *)
(* PCIDevice over tt_kmd_lib, SiliconSysmemManager, SysmemBuffer and the   *)
(* calls of LocalChip that create, pin, unpin and destroy them, for        *)
(* several processes that use one device.                                  *)
(*                                                                         *)
(* Memory is measured in units: Page units are a host page, Region units   *)
(* a host channel (1 GiB), Ch3Limit of them the usable part of channel 3   *)
(* of a Wormhole. NOC addresses are offsets from the base of host memory   *)
(* in the address space of the device (pcie_base_).                        *)
(***************************************************************************)
EXTENDS PciDevice, TLC

CONSTANTS HostProcs, HostEnv, Page, Region, Ch3Limit, DmaBufSize, NumTlbs, MaxLives, MaxStarts

ASSUME HostMemoryAssumption ==
  /\ Page \in Nat \ {0} /\ Region \in Nat /\ Region % Page = 0 /\ Ch3Limit \in Nat /\ Ch3Limit % Page = 0
  /\ Ch3Limit < Region /\ DmaBufSize \in Nat
  /\ Absent \notin HostProcs \cup {"allocated", "mapped", "huge0", "huge1", "huge2", "huge3"}
  /\ \A e \in HostEnv : e.channels \in 0..4 /\ e.machine.hugepages \in Nat /\ IsFiniteSet(DOMAIN e.machine.devs)

VARIABLES
  hostEnv,    \* the machine, what the caller asks for and what will fail
  hostProc,   \* the objects of each process
  kmd,    \* the driver: pinned ranges, TLB windows, owner of CHIP_IN_USE
  busy    \* the AICLK of the device is not at its minimum

hostVars == <<hostEnv, hostProc, kmd, busy>>

(* chan, iommu, isize and buf are the members of SysmemManager: a channel is *)
(* [map, size, phys] with map = Absent when nothing is mapped.               *)
FreshProcess == [pc |-> "none", fd |-> FALSE, handle |-> FALSE, maps |-> {}, dma |-> 0,
          chan |-> <<>>, iommu |-> FALSE, isize |-> 0, buf |-> FALSE, ubufs |-> {},
          warned |-> FALSE, tlb |-> Absent, k |-> 0, lives |-> 0, starts |-> 0]

Wormhole == hostEnv.arch = "WORMHOLE_B0"

------------------------------------------------------------------------------
(* The driver.                                                               *)

(* NOC addresses are given out from the base up, at the first gap.           *)
NocTaken(pins, a, len) == \E q \in pins : q.noc # Absent /\ a < q.noc + q.len /\ q.noc < a + len
NocFree(pins, len) ==
  CHOOSE a \in 0..(32 * Region) :
    /\ a % Page = 0 /\ ~NocTaken(pins, a, len)
    /\ \A b \in 0..(a - 1) : b % Page = 0 => NocTaken(pins, b, len)

Pin(p, of, va, len, noc) == [p |-> p, of |-> of, va |-> va, len |-> len, noc |-> noc]
Aligned(va, len) == va % Page = 0 /\ len % Page = 0
TtPinPages(p, of, va, len, toNoc) ==
  IF Aligned(va, len) /\ len > 0
  THEN {Pin(p, of, va, len, IF toNoc THEN NocFree(kmd.pins, len) ELSE Absent)} ELSE {}
TtUnpinPages(pins, p, of) == {q \in pins : ~(q.p = p /\ q.of = of)}

(* Closing the last descriptor releases what the process holds.              *)
Released(p) == [pins |-> {q \in kmd.pins : q.p # p}, tlbs |-> {t \in kmd.tlbs : t # p},
                lock |-> IF kmd.lock = p THEN Absent ELSE kmd.lock]

------------------------------------------------------------------------------
(* PCIDevice.                                                                *)

(* Half the size after each failure, until less than a page.                 *)
DmaSizes == {s \in 1..DmaBufSize : \E h \in {1, 2, 4} : s * h = DmaBufSize}
AllocatePcieDmaBuffer ==
  LET fits == {s \in DmaSizes : s >= Page /\ s <= hostEnv.dmaMax} IN
  IF hostEnv.arch \notin {"WORMHOLE_B0", "BLACKHOLE"} \/ fits = {} THEN 0
  ELSE CHOOSE s \in fits : \A t \in fits : t <= s

TryAllocateIommu(p, s) == TtPinPages(p, "dma", 0, s + Page, FALSE)

(* The ranges a call pins: none when it throws.                              *)
ReadOnlyPinning == hostEnv.iommu
MapBufferToNoc(p, of, va, len, readOnly) ==
  IF (readOnly /\ ~ReadOnlyPinning) \/ (len > Page /\ ~hostEnv.iommu) THEN {} ELSE TtPinPages(p, of, va, len, TRUE)
MapHugepageToNoc(p, of, len) == IF len > Region THEN {} ELSE TtPinPages(p, of, 0, len, TRUE)
MapForDma(p, of, va, len, readOnly) ==
  IF readOnly /\ ~ReadOnlyPinning THEN {} ELSE TtPinPages(p, of, va, len, FALSE)
UnmapForDma(pins, p, of) == TtUnpinPages(pins, p, of)

(* The constructor. What it has opened when it throws is not closed: the     *)
(* destructor of an object that was not constructed does not run.            *)
OpenDevice(p) ==
  /\ hostProc[p].pc = "none" /\ hostProc[p].lives < MaxLives
  /\ LET ids == EnumerateDevices(hostEnv.machine)
         s == AllocatePcieDmaBuffer
         opened == [FreshProcess EXCEPT !.fd = TRUE, !.lives = hostProc[p].lives + 1]
     IN  IF ids = Absent \/ ids = <<>>
         THEN hostProc' = [hostProc EXCEPT ![p] = [FreshProcess EXCEPT !.pc = "destroyed", !.lives = MaxLives]] /\ UNCHANGED kmd
         ELSE IF hostEnv.open = "old kmd"
         THEN hostProc' = [hostProc EXCEPT ![p] = [opened EXCEPT !.pc = "threw"]] /\ UNCHANGED kmd
         ELSE IF hostEnv.open = "no bar"
         THEN hostProc' = [hostProc EXCEPT ![p] = [opened EXCEPT !.pc = "threw", !.handle = TRUE, !.maps = {[of |-> "bar", len |-> Page]}]]
              /\ UNCHANGED kmd
         ELSE /\ hostProc' = [hostProc EXCEPT ![p] =
                   [opened EXCEPT !.pc = "opened", !.handle = TRUE, !.dma = s,
                      !.maps = {[of |-> "bar", len |-> Page]} \cup
                               (IF s > 0 THEN {[of |-> "dma", len |-> s + Page]} ELSE {})]]
              /\ kmd' = [kmd EXCEPT !.pins = @ \cup IF hostEnv.iommu /\ s > 0 THEN TryAllocateIommu(p, s) ELSE {}]
  /\ UNCHANGED <<hostEnv, busy>>

------------------------------------------------------------------------------
(* SiliconSysmemManager.                                                     *)

ActualSize(ch) == IF Wormhole /\ ch = 3 THEN Ch3Limit ELSE Region

IommuChannels(n) == [i \in 1..n |-> [map |-> "iommu", size |-> ActualSize(i - 1), phys |-> FALSE]]
InitIommu(s, n) ==
  IF n = 0 THEN s
  ELSE LET size == n * Region
       IN  [s EXCEPT !.iommu = TRUE,
              !.isize = IF Wormhole /\ n = 4 THEN size - (Region - Ch3Limit) ELSE size,
              !.maps = @ \cup {[of |-> "iommu", len |-> size]},
              !.chan = IommuChannels(n)]

HugepageName == <<"huge0", "huge1", "huge2", "huge3">>

(* A channel whose file cannot be opened or mapped stays empty.              *)
Files(n) == {ch \in 0..(n - 1) : ch \notin hostEnv.badFiles}
HugepageChannels(n) ==
  [i \in 1..n |-> IF i - 1 \in Files(n) THEN [map |-> HugepageName[i], size |-> Region, phys |-> FALSE]
                  ELSE [map |-> Absent, size |-> 0, phys |-> FALSE]]
HugepageMaps(n) == {[of |-> HugepageName[ch + 1], len |-> Region] : ch \in Files(n)}
InitHugepages(s, n0) ==
  LET n == IF n0 = 0 THEN 0 ELSE GetAvailableNumHostMemChannels(hostEnv.machine, n0)
  IN  IF n0 = 0 \/ ~hostEnv.hugepageDir THEN s
      ELSE [s EXCEPT !.chan = HugepageChannels(n), !.maps = @ \cup HugepageMaps(n)]

CreateSysmem(p) ==
  /\ hostProc[p].pc = "opened"
  /\ LET s == [hostProc[p] EXCEPT !.pc = "ready"]
     IN  hostProc' = [hostProc EXCEPT ![p] = IF hostEnv.iommu THEN InitIommu(s, hostEnv.channels) ELSE InitHugepages(s, hostEnv.channels)]
  /\ UNCHANGED <<hostEnv, kmd, busy>>

GetHugepageMapping(s, ch) == IF ch < Len(s.chan) THEN s.chan[ch + 1] ELSE [map |-> Absent, size |-> 0, phys |-> FALSE]

(* The offset in the mapping of the channel that write_to_sysmem() and       *)
(* read_from_sysmem() access first; Absent when they throw.                  *)
WriteToSysmem(s, ch, dest, size) ==
  LET c == GetHugepageMapping(s, ch)
  IN  IF c.map = Absent \/ c.size = 0 \/ size > c.size THEN Absent ELSE dest % c.size
ReadFromSysmem(s, ch, src) ==
  LET c == GetHugepageMapping(s, ch) IN IF c.map = Absent \/ c.size = 0 THEN Absent ELSE src % c.size

(* LocalChip::start_device takes CHIP_IN_USE, then pins.                     *)
StartLocalChip(p) ==
  /\ hostProc[p].pc = "ready" /\ hostProc[p].starts < MaxStarts /\ kmd.lock = Absent
  /\ kmd' = [kmd EXCEPT !.lock = p]
  /\ hostProc' = [hostProc EXCEPT ![p].pc = "pinning", ![p].k = 0, ![p].starts = @ + 1]
  /\ UNCHANGED <<hostEnv, busy>>

Started(s) == [s EXCEPT !.pc = "started"]

(* The buffer is kept, and each channel given its address on the device.     *)
StartedWithBuffer(s) == [Started(s) EXCEPT !.buf = TRUE, !.chan = [i \in DOMAIN @ |-> [@[i] EXCEPT !.phys = TRUE]]]

(* The bug to catch: the address is not compared. *)
AnyAddress(q) == TRUE

(* The address the driver chose must be the base.                            *)
AtBase(q) == q.noc = 0

(* A buffer the manager still has is replaced, after the new one is pinned.  *)
PinOrMapIommu(p) ==
  /\ hostEnv.iommu /\ hostProc[p].pc = "pinning"
  /\ IF ~hostProc[p].iommu
     THEN hostProc' = [hostProc EXCEPT ![p] = Started(@)] /\ busy' = TRUE /\ UNCHANGED kmd
     ELSE \E q \in MapBufferToNoc(p, "iommu", 0, hostProc[p].isize, FALSE) :
            /\ kmd' = [kmd EXCEPT !.pins = UnmapForDma(@, p, "iommu") \cup {q}]
            /\ IF AtBase(q)
               THEN /\ hostProc' = [hostProc EXCEPT ![p] = StartedWithBuffer(@)]
                    /\ busy' = TRUE
               ELSE /\ hostProc' = [hostProc EXCEPT ![p].pc = "faulted", ![p].buf = TRUE]
                    /\ UNCHANGED busy
  /\ UNCHANGED hostEnv

(* The channel has its address; one that is not where it should be is logged. *)
ChannelPinned(s, noc) ==
  [s EXCEPT !.k = s.k + 1, !.chan = [s.chan EXCEPT ![s.k + 1].phys = TRUE], !.warned = s.warned \/ noc # s.k * Region]

(* One channel; an empty channel cannot be pinned and throws, an unexpected  *)
(* address is only logged.                                                   *)
PinOrMapHugepages(p) ==
  /\ ~hostEnv.iommu /\ hostProc[p].pc = "pinning"
  /\ LET s == hostProc[p]  ch == s.k  c == s.chan[ch + 1] IN
     IF ch = Len(s.chan)
     THEN hostProc' = [hostProc EXCEPT ![p] = Started(@)] /\ busy' = TRUE /\ UNCHANGED kmd
     ELSE IF c.map = Absent
     THEN hostProc' = [hostProc EXCEPT ![p].pc = "faulted"] /\ UNCHANGED <<kmd, busy>>
     ELSE \E q \in MapHugepageToNoc(p, c.map, ActualSize(ch)) :
            /\ kmd' = [kmd EXCEPT !.pins = @ \cup {q}]
            /\ hostProc' = [hostProc EXCEPT ![p] = ChannelPinned(@, q.noc)]
            /\ UNCHANGED busy
  /\ UNCHANGED hostEnv

(* The bug to catch: the buffer of the manager is not reset first. *)
UnmapOnly(p) ==
  LET s == hostProc[p]
      huge == {s.chan[i].map : i \in {j \in DOMAIN s.chan : s.chan[j].map # Absent}}
      freed == IF s.iommu THEN {"iommu"} ELSE huge
  IN  [s |-> [s EXCEPT !.buf = FALSE, !.iommu = FALSE, !.chan = <<>>, !.maps = {m \in @ : m.of \notin freed}],
       pins |-> kmd.pins]

(* munmap() gets the size that was pinned; what was mapped beyond it stays.  *)
UnpinOrUnmap(p) ==
  LET s == hostProc[p]
      huge == {s.chan[i].map : i \in {j \in DOMAIN s.chan : s.chan[j].map # Absent}}
      freed == IF s.iommu THEN {"iommu"} ELSE huge
      rest == IF s.iommu /\ s.isize < Len(s.chan) * Region
              THEN {[of |-> "rest", len |-> Len(s.chan) * Region - s.isize]} ELSE {}
  IN  [s |-> [s EXCEPT !.buf = FALSE, !.iommu = FALSE, !.chan = <<>>,
                 !.maps = {m \in @ : m.of \notin freed} \cup rest],
       pins |-> {q \in kmd.pins : ~(q.p = p /\ q.of \in freed)}]

(* LocalChip::close_device: a device that is already idle is left as it is.  *)
CloseLocalChip(p) ==
  /\ hostProc[p].pc \in {"started", "faulted"}
  /\ LET u == UnpinOrUnmap(p) IN
     /\ hostProc' = [hostProc EXCEPT ![p] = [(IF busy THEN u.s ELSE @) EXCEPT !.pc = "ready"]]
     /\ kmd' = [kmd EXCEPT !.pins = IF busy THEN u.pins ELSE @, !.lock = Absent]
  /\ busy' = FALSE
  /\ UNCHANGED hostEnv

------------------------------------------------------------------------------
(* SysmemBuffer: user memory of any alignment, pinned in whole pages.        *)

AlignedVa(b) == b.va - (b.va % Page)
OffsetFromAligned(b) == b.va % Page
(* The bug to catch: the pages are counted from the aligned address. *)
ShortMappedSize(b) == ((b.size + Page - 1) \div Page) * Page

MappedSize(b) == ((b.size + OffsetFromAligned(b) + Page - 1) \div Page) * Page

Validate(b, offset, size) == offset < b.size /\ size <= b.size - offset
GetDeviceIoAddr(b, offset) == offset + OffsetFromAligned(b)   \* from the address of the pinned range

MapSysmemBuffer(p, b) ==
  /\ hostProc[p].pc \in {"ready", "started"} /\ b \notin hostProc[p].ubufs
  /\ \E q \in IF b.toNoc THEN MapBufferToNoc(p, b.name, AlignedVa(b), MappedSize(b), b.readOnly)
              ELSE MapForDma(p, b.name, AlignedVa(b), MappedSize(b), b.readOnly) :
       kmd' = [kmd EXCEPT !.pins = @ \cup {q}]
  /\ hostProc' = [hostProc EXCEPT ![p].ubufs = @ \cup {b}]
  /\ UNCHANGED <<hostEnv, busy>>

DestroySysmemBuffer(p, b) ==
  /\ b \in hostProc[p].ubufs
  /\ hostProc' = [hostProc EXCEPT ![p].ubufs = @ \ {b}]
  /\ kmd' = [kmd EXCEPT !.pins = UnmapForDma(@, p, b.name)]
  /\ UNCHANGED <<hostEnv, busy>>

------------------------------------------------------------------------------
(* A window taken from the driver for one call: PCIDevice::export_tlb_dmabuf *)
(* and the transfers of tt_kmd_lib.                                          *)

TtTlbAlloc(p) ==
  /\ hostEnv.tlbUser /\ hostProc[p].pc \in {"ready", "started"} /\ hostProc[p].tlb = Absent
  /\ Cardinality(kmd.tlbs) < NumTlbs
  /\ kmd' = [kmd EXCEPT !.tlbs = @ \cup {p}]
  /\ hostProc' = [hostProc EXCEPT ![p].tlb = "allocated"]
  /\ UNCHANGED <<hostEnv, busy>>

TtTlbMap(p) ==
  /\ hostProc[p].tlb = "allocated"
  /\ hostProc' = [hostProc EXCEPT ![p].tlb = "mapped"]
  /\ UNCHANGED <<hostEnv, kmd, busy>>

(* The bug to catch: the error path after the mapping leaves the window. *)
KeepTlb(p) == IF hostProc[p].tlb = "mapped" THEN kmd.tlbs ELSE kmd.tlbs \ {p}

FreeTlb(p) == kmd.tlbs \ {p}

(* The end of the call, after an error of any of its steps or with success.  *)
TtTlbFree(p) ==
  /\ hostProc[p].tlb \in {"allocated", "mapped"}
  /\ kmd' = [kmd EXCEPT !.tlbs = FreeTlb(p)]
  /\ hostProc' = [hostProc EXCEPT ![p].tlb = Absent]
  /\ UNCHANGED <<hostEnv, busy>>

------------------------------------------------------------------------------
(* LocalChip::~LocalChip: the manager first, then the device.                *)
Destroy(p) ==
  /\ hostProc[p].pc \in {"opened", "ready", "started", "faulted"}
  /\ hostProc[p].ubufs = {} /\ hostProc[p].tlb = Absent
  /\ LET u == UnpinOrUnmap(p) IN
     /\ hostProc' = [hostProc EXCEPT ![p] = [u.s EXCEPT !.pc = "destroyed", !.fd = FALSE, !.handle = FALSE, !.dma = 0,
                    !.maps = {m \in @ : m.of \notin {"bar", "dma"}}]]
     /\ kmd' = [Released(p) EXCEPT !.pins = {q \in u.pins : q.p # p}]
  /\ UNCHANGED <<hostEnv, busy>>

(* The process ends, killed or not, and may be started again.                *)
ExitProcess(p) ==
  /\ hostProc[p].pc # "none"
  /\ hostProc' = [hostProc EXCEPT ![p] = [FreshProcess EXCEPT !.lives = hostProc[p].lives]]
  /\ kmd' = Released(p)
  /\ UNCHANGED <<hostEnv, busy>>

(* Another tool resets the device: its clock is back at the minimum.         *)
DeviceReset == busy /\ hostEnv.resets /\ busy' = FALSE /\ UNCHANGED <<hostEnv, hostProc, kmd>>

HostInit ==
  /\ hostEnv \in HostEnv
  /\ hostProc = [p \in HostProcs |-> FreshProcess]
  /\ kmd = [pins |-> {}, tlbs |-> {}, lock |-> Absent]
  /\ busy = FALSE

HostNext ==
  \/ \E p \in HostProcs :
       \/ OpenDevice(p) \/ CreateSysmem(p) \/ StartLocalChip(p) \/ PinOrMapIommu(p) \/ PinOrMapHugepages(p)
       \/ CloseLocalChip(p) \/ Destroy(p) \/ ExitProcess(p)
       \/ TtTlbAlloc(p) \/ TtTlbMap(p) \/ TtTlbFree(p)
       \/ \E b \in hostEnv.ubufs : MapSysmemBuffer(p, b) \/ DestroySysmemBuffer(p, b)
  \/ DeviceReset

HostSpec == HostInit /\ [][HostNext]_hostVars

------------------------------------------------------------------------------
HostTypeOK ==
  /\ busy \in BOOLEAN /\ kmd.lock \in HostProcs \cup {Absent} /\ kmd.tlbs \subseteq HostProcs
  /\ \A p \in HostProcs :
       /\ hostProc[p].pc \in {"none", "opened", "threw", "ready", "pinning", "started", "faulted", "destroyed"}
       /\ hostProc[p].k \in 0..4 /\ Len(hostProc[p].chan) <= hostEnv.channels /\ hostProc[p].isize \in Nat
  /\ \A q \in kmd.pins : q.p \in HostProcs /\ Aligned(q.va, q.len) /\ q.noc \in Nat \cup {Absent}

(* The page behind a byte of a mapping: the files of the hugepages are the   *)
(* same for every process.                                                   *)
HostByte(p, of, va) == IF of \in Range(HugepageName) THEN <<of, va>> ELSE <<p, of, va>>
NocReaches(a) == {HostByte(q.p, q.of, q.va + a - q.noc) :
                    q \in {r \in kmd.pins : r.noc # Absent /\ r.noc <= a /\ a < r.noc + r.len}}

(* A started device finds each byte of a host channel at the NOC address the *)
(* firmware computes for it, and there is the memory write_to_sysmem() and   *)
(* read_from_sysmem() of this process access - with other processes that     *)
(* come, go, crash and pin buffers of their own. (With hugepages, unless the *)
(* driver has logged the mismatch.)                                          *)
ChannelsReachDevice ==
  \A p \in HostProcs : (hostProc[p].pc = "started" /\ ~hostProc[p].warned) =>
    \A i \in DOMAIN hostProc[p].chan :
      LET c == hostProc[p].chan[i]
          at(off) == HostByte(p, c.map, IF hostEnv.iommu THEN (i - 1) * Region + off ELSE off)
          used == IF hostEnv.iommu THEN c.size ELSE ActualSize(i - 1)
      IN  c.phys => \A off \in 0..(used - 1) :
                      /\ WriteToSysmem(hostProc[p], i - 1, off, 1) = off /\ ReadFromSysmem(hostProc[p], i - 1, off) = off
                      /\ NocReaches((i - 1) * Region + off) = {at(off)}

(* The driver never holds a range that the process has unmapped: every path  *)
(* unpins before it unmaps, with the size that was pinned.                   *)
PinnedIsMapped ==
  \A q \in kmd.pins : q.of \in {b.name : b \in hostEnv.ubufs} \/
    \E m \in hostProc[q.p].maps : m.of = q.of /\ q.va + q.len <= m.len

(* Memory that init_iommu() maps beyond the pinned size.                     *)
Carveout == hostEnv.iommu /\ Wormhole /\ hostEnv.channels = 4

(* A process that destroyed its objects holds no descriptor, no pinned page, *)
(* no mapping and no window, and one that is in no call holds no window.     *)
NothingLeft ==
  \A p \in HostProcs :
    /\ hostProc[p].pc = "destroyed" =>
         /\ ~hostProc[p].fd /\ ~hostProc[p].handle
         /\ \A q \in kmd.pins : q.p # p
         /\ \A m \in hostProc[p].maps : Carveout /\ m.of = "rest"
         /\ kmd.lock # p
    /\ hostProc[p].tlb = Absent => p \notin kmd.tlbs

(* Every transfer a SysmemBuffer accepts moves the bytes of the user's       *)
(* buffer: the address given to the DMA engine leads to them, inside the     *)
(* pinned range, whatever the alignment of the buffer.                       *)
BufferAddresses ==
  \A p \in HostProcs : \A b \in hostProc[p].ubufs : \A q \in kmd.pins :
    (q.p = p /\ q.of = b.name) =>
      \A offset, size \in 0..(b.size + 1) : Validate(b, offset, size) =>
        LET a == GetDeviceIoAddr(b, offset) IN
        q.va + a = b.va + offset /\ a + size <= q.len

(* As stated in PciDevice, for the machine of the run.                       *)
BusOrder == VisibleInBusOrder(hostEnv.machine)
SlotShares == CpusetShares(hostEnv.machine)
==============================================================================
