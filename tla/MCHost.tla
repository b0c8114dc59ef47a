------------------------------- MODULE MCHost --------------------------------
(* Processes that use the devices of one host. A behaviour is about their    *)
(* memory and driver resources (HostMemory) or about the chips of their      *)
(* clusters (Cluster): the two share no state, the locks of a chip apart,    *)
(* which each module holds for the calls it models.                          *)
EXTENDS HostMemory, MCCluster

(* Machines, requests and faults for HostMemory. *)
Dev(id, bdf, readable) == [id |-> id, bdf |-> bdf, readable |-> readable, slotted |-> TRUE]
Machine(devs, tokens, slots, huge) == [devs |-> devs, tokens |-> tokens, slots |-> slots, hugepages |-> huge]
Two == Machine(<<Dev(0, 20, TRUE), Dev(1, 10, TRUE)>>, Absent, 4, 8)

HostBase == [arch |-> "BLACKHOLE", iommu |-> TRUE, channels |-> 2, open |-> "ok", dmaMax |-> DmaBufSize, machine |-> Two,
         badFiles |-> {}, hugepageDir |-> TRUE, ubufs |-> {}, tlbUser |-> FALSE, resets |-> FALSE]

Odd == [name |-> "odd", va |-> 3, size |-> 4, toNoc |-> TRUE, readOnly |-> TRUE]
Small == [name |-> "small", va |-> 3, size |-> 1, toNoc |-> FALSE, readOnly |-> FALSE]

Machines ==
  {Machine(<<Dev(2, 30, TRUE), Dev(0, 20, TRUE), Dev(1, 10, r)>>, t, s, 2) : r \in BOOLEAN, s \in {2, 3, 7},
     t \in {Absent, <<>>, <<[kind |-> "int", n |-> 1]>>, <<[kind |-> "int", n |-> 0], [kind |-> "bdf", match |-> {20, 30}]>>,
            <<[kind |-> "int", n |-> 3]>>, <<[kind |-> "bdf", match |-> {}]>>, <<[kind |-> "bad"]>>}}
    \cup {Machine(<<>>, Absent, 4, 0)}

MCHostEnv ==
  {[HostBase EXCEPT !.channels = n, !.resets = TRUE] : n \in {0, 2}}
  \cup {[HostBase EXCEPT !.arch = "WORMHOLE_B0", !.channels = 4, !.iommu = i, !.resets = TRUE] : i \in BOOLEAN}
  \cup {[HostBase EXCEPT !.iommu = FALSE, !.badFiles = f, !.hugepageDir = d] : f \in {{}, {1}}, d \in BOOLEAN}
  \cup {[HostBase EXCEPT !.ubufs = {Odd, Small}], [HostBase EXCEPT !.iommu = FALSE, !.ubufs = {Small}, !.dmaMax = 4]}
  \cup {[HostBase EXCEPT !.open = o] : o \in {"old kmd", "no bar"}}
  \cup {[HostBase EXCEPT !.tlbUser = TRUE, !.dmaMax = 0], [HostBase EXCEPT !.arch = "Invalid"]}
  \cup {[HostBase EXCEPT !.machine = m, !.channels = 0] : m \in Machines}
  \cup {[HostBase EXCEPT !.iommu = FALSE, !.machine.hugepages = 2]}

VARIABLE part   \* the module this behaviour is about

(* The other module rests in a state of its own.                             *)
Elsewhere == CHOOSE e \in HostEnv : e.channels = 0
Nowhere == CHOOSE e \in Env : e.calls = {} /\ e.cores = {}

HostsInit ==
  /\ part \in {"memory", "cluster"}
  /\ hostEnv \in (IF part = "memory" THEN HostEnv ELSE {Elsewhere})
  /\ env \in (IF part = "cluster" THEN Env ELSE {Nowhere})
  /\ HostInit /\ Init

MemoryNext == part = "memory" /\ HostNext /\ UNCHANGED <<vars, part>>
ClusterNext == part = "cluster" /\ Next /\ UNCHANGED <<hostVars, part>>

HostsSpec == HostsInit /\ [][MemoryNext \/ ClusterNext]_<<hostVars, vars, part>>

-----------------------------------------------------------------------------
(* The ends of a process, of a SysmemManager and of a buffer, ordered or   *)
(* not: no page stays pinned after it is unmapped, and a process that has  *)
(* ended has left no pin, mapping, window or lock behind.                  *)
NothingLeftOver ==
  /\ PinnedIsMapped
  /\ NothingLeft

(* What the device reaches is what the host gave it: each byte of a host  *)
(* channel is at the address the firmware computes, every page of a buffer, *)
(* aligned or not, has the address the device was given for it, processes  *)
(* number the devices in the order of the bus under every                  *)
(* TT_VISIBLE_DEVICES, and the cpuset allocator shares the slots among     *)
(* them.                                                                   *)
HostTablesAgree ==
  /\ HostTypeOK
  /\ ChannelsReachDevice
  /\ BufferAddresses
  /\ BusOrder
  /\ SlotShares
==============================================================================
