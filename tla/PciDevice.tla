------------------------------ MODULE PciDevice ------------------------------
(***************************************************************************)
(* What a process learns of the PCI devices of the machine and of its      *)
(* processors before it opens one: the list of visible devices, the        *)
(* processor slots of each device, and the number of host memory channels. *)
(* A machine m is a record:                                                *)
(*   devs   : sequence of [id, bdf, readable, slotted], the entries of     *)
(*            /dev/tenstorrent in directory order; a bdf is a number in    *)
(*            the order of the bus addresses                               *)
(*   tokens : Absent, or the sequence of tokens of TT_VISIBLE_DEVICES,     *)
(*            each [kind |-> "bdf", match] (the addresses that contain the *)
(*            pattern), [kind |-> "int", n] or [kind |-> "bad"]            *)
(*   slots, hugepages : L3 caches of the processor package; 1 GiB pages    *)
(***************************************************************************)
EXTENDS Integers, Sequences, FiniteSets, SequencesExt

CONSTANT Absent

Ids(m) == {m.devs[i].id : i \in DOMAIN m.devs}
BdfOf(m, id) == (CHOOSE d \in Range(m.devs) : d.id = id).bdf
Readable(m) == {d.id : d \in {e \in Range(m.devs) : e.readable}}

(* A device whose information cannot be read has no entry in the map. *)
GetBdfToDeviceIdMap(m) == SetToSortSeq(Readable(m), LAMBDA a, b : BdfOf(m, a) < BdfOf(m, b))

SortIdsBasedOnBdf(m, ids) ==
  SelectSeq(GetBdfToDeviceIdMap(m), LAMBDA id : id \in Range(ids))
    \o SelectSeq(ids, LAMBDA id : id \notin Readable(m))

GetAllDeviceIds(m) == [i \in DOMAIN m.devs |-> m.devs[i].id]

(* The devices one token selects; an integer is a position in the bus order. *)
TokenDevices(m, t) ==
  LET all == GetBdfToDeviceIdMap(m) IN
  CASE t.kind = "bdf" -> {id \in Readable(m) : BdfOf(m, id) \in t.match}
    [] t.kind = "int" -> IF t.n \in 0..(Len(all) - 1) THEN {all[t.n + 1]} ELSE {}
    [] OTHER          -> {}

(* The bug to catch: a position in directory order. *)
EnumerateUnsorted(m) ==
  IF m.tokens = Absent THEN GetAllDeviceIds(m)
  ELSE IF \E i \in DOMAIN m.tokens : TokenDevices(m, m.tokens[i]) = {} THEN Absent
  ELSE SetToSortSeq(UNION {TokenDevices(m, m.tokens[i]) : i \in DOMAIN m.tokens}, <)

(* Absent when a token throws. *)
EnumerateDevices(m) ==
  IF m.tokens = Absent THEN SortIdsBasedOnBdf(m, GetAllDeviceIds(m))
  ELSE IF \E i \in DOMAIN m.tokens : TokenDevices(m, m.tokens[i]) = {} THEN Absent
  ELSE SortIdsBasedOnBdf(m, SetToSortSeq(UNION {TokenDevices(m, m.tokens[i]) : i \in DOMAIN m.tokens}, <))

EnumerateDevicesInfo(m) ==
  LET ids == EnumerateDevices(m) IN IF ids = Absent THEN Absent ELSE SelectSeq(ids, LAMBDA id : id \in Readable(m))

------------------------------------------------------------------------------
(* The processor slots of the devices of a package, cpuset_allocator. *)

SlottedDevices(m) == {d.id : d \in {e \in Range(m.devs) : e.slotted}}
FindTtPciDevices(m) == SetToSortSeq(SlottedDevices(m), <)
SlotsPerDevice(m) == m.slots \div Len(FindTtPciDevices(m))

(* The bug to catch: the turn is one slot late. *)
LateDeviceOfSlot(m, s) ==
  LET ds == FindTtPciDevices(m) IN ds[((s \div (SlotsPerDevice(m) + 1)) % Len(ds)) + 1]

(* Slot s goes to the device reached after s \div per turns; the surplus     *)
(* starts over with the first device.                                        *)
DeviceOfSlot(m, s) ==
  LET ds == FindTtPciDevices(m) IN ds[((s \div SlotsPerDevice(m)) % Len(ds)) + 1]

CpusetOf(m, id) == {s \in 0..(m.slots - 1) : DeviceOfSlot(m, s) = id}

(* The division above is a division by zero when devices outnumber slots. *)
CpusetsDefined(m) == FindTtPciDevices(m) # <<>> /\ SlotsPerDevice(m) > 0

------------------------------------------------------------------------------
(* The bug to catch: the share of the device is not limited by the request. *)
WholeShare(m, target) ==
  LET n == Cardinality(SlottedDevices(m)) IN IF n = 0 THEN 0 ELSE m.hugepages \div n

GetAvailableNumHostMemChannels(m, target) ==
  LET n == Cardinality(SlottedDevices(m)) IN
  IF n = 0 THEN 0
  ELSE LET share == m.hugepages \div n
           least == IF share < 1 THEN 1 ELSE share
       IN  IF target < least THEN target ELSE least

------------------------------------------------------------------------------
(* The logical numbers users and tools refer to are positions on the bus:    *)
(* whatever the directory order, the tokens and the devices that cannot be   *)
(* read, the list is in bus order, with the unreadable devices last, and     *)
(* holds exactly the devices some token selects (pci_device.cpp,             *)
(* enumerate_devices).                                                       *)
VisibleInBusOrder(m) ==
  LET ids == EnumerateDevices(m)
      asked(id) == \/ m.tokens = Absent
                   \/ \E i \in DOMAIN m.tokens : id \in TokenDevices(m, m.tokens[i])
      before(a, b) == a \in Readable(m) /\ (b \in Readable(m) => BdfOf(m, a) < BdfOf(m, b))
  IN  ids # Absent =>
        /\ Range(ids) = {id \in Ids(m) : asked(id)}
        /\ EnumerateDevicesInfo(m) = SelectSeq(GetBdfToDeviceIdMap(m), LAMBDA id : asked(id))
        /\ \A i, j \in DOMAIN ids : (i < j /\ ids[i] \in Readable(m)) => before(ids[i], ids[j])
        /\ \A i, j \in DOMAIN ids : (i < j /\ ids[j] \in Readable(m)) => ids[i] \in Readable(m)

(* Every device gets its share of the slots and no slot is lost, where the   *)
(* allocation is defined at all (cpuset_lib.cpp,                             *)
(* init_determine_cpuset_allocations).                                       *)
CpusetShares(m) ==
  CpusetsDefined(m) =>
    /\ \A i \in DOMAIN FindTtPciDevices(m) :
         Cardinality(CpusetOf(m, FindTtPciDevices(m)[i])) >= SlotsPerDevice(m)
    /\ UNION {CpusetOf(m, FindTtPciDevices(m)[i]) : i \in DOMAIN FindTtPciDevices(m)} = 0..(m.slots - 1)
==============================================================================
