-------------------------- MODULE SimulationBackend --------------------------
(***************************************************************************)
(* The in-process simulator, libttsim (TTSimCommunicator).  Each simulated *)
(* chip has a communicator, made by the chip's device in its constructor   *)
(* and driven by its own thread; they share one dlopen of the library when *)
(* it hosts several chips, counted by s_shared_refcount_, and load it on   *)
(* their own otherwise: a copy each, or the file itself, which the dynamic *)
(* linker loads once however many open it.  The simulated chips reach host *)
(* memory by callbacks, which dma_route() hands to the communicator whose  *)
(* host window holds the address.                                          *)
(*                                                                         *)
(* Chip c owns the host addresses from c * Stride on; the first Channels   *)
(* of its sysmem offsets are covered by its outbound iATU, the ones above  *)
(* are the arena of mapped buffers.  A section under s_shared_init_mutex_  *)
(* or dma_ranges_mutex_ is one step, one under device_lock_ is one step    *)
(* unless it takes another lock in between.  libttsim is external.         *)
(***************************************************************************)
EXTENDS Integers, Sequences, FiniteSets

CONSTANTS
  SimChips,        \* chip ids: numbers from 0
  Stride,          \* PER_CHIP_HOST_STRIDE
  Channels,        \* host memory channels of a chip
  MaxDmaDevices,   \* MAX_DMA_DEVICES
  BackendScenarios,
  NoChip

(* What is at the path: a library with the multichip ABI, one that lacks a *)
(* symbol of it; one with a cluster descriptor beside it, the same without *)
(* the library or without a symbol; and the same of one for a single chip. *)
Libraries == {"multichip", "incomplete", "bdf", "bdf_absent", "bdf_broken", "legacy", "absent", "broken"}

ASSUME BackendBounds ==
  /\ SimChips \subseteq Nat /\ Stride \in Nat /\ Channels \in 1 .. Stride - 1 /\ MaxDmaDevices \in Nat \ {0}
  /\ NoChip \notin SimChips /\ IsFiniteSet(SimChips)
  /\ BackendScenarios \subseteq
       [lib : Libraries, copy : SUBSET SimChips, windows : BOOLEAN, ours : BOOLEAN, lives : [SimChips -> Nat], ios : [SimChips -> Nat]]

VARIABLES
  scene,       \* the library, the chips with copy_sim_binary_, and how much each is used
  comm,        \* the communicator of each chip
  shared,      \* s_shared_handle_, s_shared_refcount_, s_sim_initialized_
  deviceLock,  \* device_lock_
  image,       \* the libraries opened, in order: what libttsim was told
  dmaRanges,   \* dma_ranges_[0 .. dma_range_count_): the instances, with the chip of the window
  callbackInstance,
  dma,         \* the callback in progress
  torn         \* a communicator was destroyed between dma_route() and its callback

backendVars == <<scene, comm, shared, deviceLock, image, dmaRanges, callbackInstance, dma, torn>>

(* A communicator is named by its chip and how many of the chip are still  *)
(* to come.                                                                *)
NoInst == [chip |-> NoChip, life |-> 0]
NoDma == [from |-> NoChip, off |-> 0, to |-> NoInst, at |-> 0]
NoComm == [pc |-> "none", mode |-> "none", handle |-> 0, closed |-> FALSE]

BackendInit ==
  /\ scene \in BackendScenarios
  /\ comm = [c \in SimChips |-> NoComm]
  /\ shared = [handle |-> 0, refs |-> 0, init |-> FALSE]
  /\ deviceLock = NoChip /\ image = <<>>
  /\ dmaRanges = <<>> /\ callbackInstance = NoInst
  /\ dma = NoDma /\ torn = FALSE

Inst(c) == [chip |-> c, life |-> scene.lives[c]]
UsesShared(c) == comm[c].mode \in {"multichip", "bdf"}
dmaState == <<dmaRanges, callbackInstance, dma, torn>>

OnImage(h, f, v) == [image EXCEPT ![h][f] = v]

(* dlopen() loads an image.  by: who has opened and not closed it, NoChip  *)
(* standing for s_shared_handle_; load: how, "joint" once two have opened  *)
(* the file itself.                                                        *)
Dlopen(who, load) ==
  Append(image, [by |-> {who}, load |-> load, inits |-> 0, exits |-> 0, running |-> FALSE, hooked |-> FALSE, rehooked |-> FALSE, iatu |-> {}])

-----------------------------------------------------------------------------
(* TTSimCommunicator::initialize().                                        *)

(* Under device_lock_, the library is opened, unless it is, and probed for *)
(* the multichip ABI; only then is a fresh handle kept.                    *)
Probe(c) ==
  /\ comm[c].pc = "none" /\ scene.lives[c] > 0 /\ deviceLock = NoChip
  /\ deviceLock' = c
  /\ LET multi == scene.lib \in {"multichip", "incomplete"} IN
       /\ comm' = [comm EXCEPT ![c].pc = IF multi THEN "probed" ELSE "unshared"]
       /\ IF multi /\ shared.handle = 0
            THEN image' = Dlopen(NoChip, "shared") /\ shared' = [shared EXCEPT !.handle = Len(image) + 1]
            ELSE UNCHANGED <<image, shared>>
  /\ UNCHANGED <<scene, dmaState>>

(* initialize() throws: the device's constructor too, and only the         *)
(* communicator's destructor runs.                                         *)
InitFails(c, handle) ==
  /\ comm' = [comm EXCEPT ![c].pc = "unregister", ![c].handle = handle]
  /\ deviceLock' = NoChip

Committed(c, mode, handle) ==
  /\ comm' = [comm EXCEPT ![c].pc = "ready", ![c].mode = mode, ![c].handle = handle]
  /\ deviceLock' = NoChip
  /\ shared' = [shared EXCEPT !.handle = handle, !.refs = @ + 1]

(* release_uncommitted_shared_handle() closes what nobody has committed to.*)
ReleaseUncommitted ==
  IF shared.refs = 0 /\ shared.handle # 0
    THEN image' = OnImage(shared.handle, "by", {}) /\ shared' = [shared EXCEPT !.handle = 0]
    ELSE UNCHANGED <<image, shared>>

(* The second section: a missing symbol, or a handle that the destructor   *)
(* of the last user has closed since the probe, makes it throw.            *)
CommitShared(c) ==
  /\ comm[c].pc = "probed"
  /\ \/ /\ scene.lib = "multichip" /\ shared.handle # 0
        /\ Committed(c, "multichip", shared.handle) /\ UNCHANGED image
     \/ /\ scene.lib = "incomplete" \/ shared.handle = 0
        /\ InitFails(c, 0) /\ ReleaseUncommitted
  /\ UNCHANGED <<scene, dmaState>>

(* A library with a cluster descriptor beside it: shared, chips named by   *)
(* their BDF.  It throws where there is none, or a symbol is missing: the  *)
(* handle it opened is then closed again in the same section.              *)
CommitBdf(c) ==
  /\ comm[c].pc = "unshared" /\ scene.lib \in {"bdf", "bdf_absent", "bdf_broken"}
  /\ \/ /\ scene.lib = "bdf" /\ shared.handle = 0
        /\ image' = Dlopen(NoChip, "shared") /\ Committed(c, "bdf", Len(image) + 1)
     \/ /\ scene.lib = "bdf" /\ shared.handle # 0
        /\ UNCHANGED image /\ Committed(c, "bdf", shared.handle)
     \/ scene.lib # "bdf" /\ InitFails(c, 0) /\ ReleaseUncommitted
  /\ UNCHANGED <<scene, dmaState>>

(* The file itself, where it is loaded.                                    *)
InPlace == {h \in DOMAIN image : image[h].load \in {"sole", "joint"} /\ image[h].by # {}}

(* load_simulator_library(): of a copy in a memfd, or of the file.         *)
OpenLibrary(c, h) ==
  \/ /\ h = Len(image) + 1
     /\ \/ c \in scene.copy /\ image' = Dlopen(c, "copy")
        \/ c \notin scene.copy /\ InPlace = {} /\ image' = Dlopen(c, "sole")
  \/ /\ h \in InPlace /\ c \notin scene.copy
     /\ image' = [image EXCEPT ![h].by = @ \cup {c}, ![h].load = "joint"]

(* Otherwise every chip loads the library; any of the steps may fail, the  *)
(* last after the dlopen.                                                  *)
LoadLibrary(c) ==
  /\ comm[c].pc = "unshared" /\ scene.lib \in {"legacy", "absent", "broken"}
  /\ \/ scene.lib = "absent" /\ InitFails(c, 0) /\ UNCHANGED image
     \/ \E h \in 1 .. Len(image) + 1 :
          /\ OpenLibrary(c, h)
          /\ \/ scene.lib = "broken" /\ InitFails(c, h)
             \/ /\ scene.lib = "legacy" /\ deviceLock' = NoChip
                /\ comm' = [comm EXCEPT ![c].pc = "ready", ![c].mode = "legacy", ![c].handle = h]
  /\ UNCHANGED <<scene, shared, dmaState>>

-----------------------------------------------------------------------------
(* TTSimTTDevice::initialize_backend(), continued.                         *)

Slots(c) == {i \in DOMAIN dmaRanges : dmaRanges[i].chip = c /\ dmaRanges[i].life = scene.lives[c]}

\* Mutant: the hole is not filled, the last window is lost.
CompactedLast(i) == SubSeq(dmaRanges, 1, Len(dmaRanges) - 1)

(* Drop window i: the last one moves into the hole.                        *)
Compacted(i) ==
  SubSeq([dmaRanges EXCEPT ![i] = dmaRanges[Len(dmaRanges)]], 1, Len(dmaRanges) - 1)

(* set_pcie_dma_mem_callbacks(): a full table makes it throw, after        *)
(* callback_instance_ is set.  A host size of 0 registers no window.  The  *)
(* library is told once, by the first chip, before it runs.                *)
SetCallbacks(c) ==
  /\ comm[c].pc = "ready" /\ deviceLock = NoChip
  /\ callbackInstance' = Inst(c)
  /\ LET full == scene.windows /\ Len(dmaRanges) = MaxDmaDevices IN
       /\ comm' = [comm EXCEPT ![c].pc = IF full THEN "unregister" ELSE "hooked"]
       /\ dmaRanges' = IF scene.windows /\ ~full THEN Append(dmaRanges, Inst(c)) ELSE dmaRanges
       /\ image' = IF full \/ (UsesShared(c) /\ shared.init) THEN image
                   ELSE [image EXCEPT ![comm[c].handle].hooked = TRUE, ![comm[c].handle].rehooked = image[comm[c].handle].running]
  /\ UNCHANGED <<scene, shared, deviceLock, dma, torn>>

\* Mutant: every communicator initialises the library.
StartSimEach(c) == [image EXCEPT ![comm[c].handle].running = TRUE, ![comm[c].handle].inits = @ + 1]

(* start_sim(): libttsim_init() once for a shared library.                 *)
Started(c) ==
  IF UsesShared(c) /\ shared.init THEN image
  ELSE [image EXCEPT ![comm[c].handle].running = TRUE, ![comm[c].handle].inits = @ + 1]

StartSim(c) ==
  /\ comm[c].pc = "hooked" /\ deviceLock = NoChip
  /\ image' = Started(c)
  /\ shared' = IF UsesShared(c) THEN [shared EXCEPT !.init = TRUE] ELSE shared
  /\ comm' = [comm EXCEPT ![c].pc = "started"]
  /\ UNCHANGED <<scene, deviceLock, dmaState>>

(* An unexpected vendor id ends the constructor; else the iATU is          *)
(* programmed, a region per channel.                                       *)
ConfigureIatu(c) ==
  /\ comm[c].pc = "started" /\ deviceLock = NoChip
  /\ \/ ~scene.ours /\ comm' = [comm EXCEPT ![c].pc = "unregister"] /\ UNCHANGED image
     \/ scene.ours /\ comm' = [comm EXCEPT ![c].pc = "up"] /\ image' = OnImage(comm[c].handle, "iatu", image[comm[c].handle].iatu \cup {c})
  /\ UNCHANGED <<scene, shared, deviceLock, dmaState>>

-----------------------------------------------------------------------------
(* I/O.  Any call clocks the library, and chips hosted by it, also those   *)
(* of other threads, may access host memory meanwhile.                     *)

BeginIo(c) ==
  /\ comm[c].pc = "up" /\ ~comm[c].closed /\ deviceLock = NoChip /\ scene.ios[c] > 0
  /\ deviceLock' = c /\ comm' = [comm EXCEPT ![c].pc = "io"]
  /\ scene' = [scene EXCEPT !.ios[c] = @ - 1]
  /\ UNCHANGED <<shared, image, dmaState>>

EndIo(c) ==
  /\ comm[c].pc = "io"
  /\ deviceLock' = NoChip /\ comm' = [comm EXCEPT ![c].pc = "up"]
  /\ UNCHANGED <<scene, shared, image, dmaState>>

(* The host address a chip emits: rebased by the iATU, or passed through.  *)
Emitted(d, off) == IF off < Channels THEN d * Stride + off ELSE off

\* Mutant: the first window at or below the address is taken.
HoldsFrom(i, a) == a >= dmaRanges[i].chip * Stride

Holds(i, a) == a >= dmaRanges[i].chip * Stride /\ a - dmaRanges[i].chip * Stride < Stride

(* dma_route(): the first window that holds the address, with the offset   *)
(* in it; no match is an error with more than one window registered, and   *)
(* goes to callback_instance_ otherwise.                                   *)
DmaRoute(a) ==
  LET hits == {i \in DOMAIN dmaRanges : Holds(i, a)} IN
  IF hits # {} THEN LET i == CHOOSE i \in hits : \A j \in hits : i <= j
                    IN [to |-> dmaRanges[i], at |-> a - dmaRanges[i].chip * Stride]
  ELSE [to |-> IF Len(dmaRanges) <= 1 THEN callbackInstance ELSE NoInst, at |-> a]

RouteDma(c) ==
  /\ comm[c].pc = "io"
  /\ \E d \in image[comm[c].handle].iatu, off \in 0 .. Stride - 1 :
       LET r == DmaRoute(Emitted(d, off)) IN
       /\ dma' = [from |-> d, off |-> off, to |-> r.to, at |-> r.at]
       /\ comm' = [comm EXCEPT ![c].pc = "routed"]
  /\ UNCHANGED <<scene, shared, deviceLock, image, dmaRanges, callbackInstance, torn>>

(* The callback, outside of dma_ranges_mutex_.                             *)
DmaCallback(c) ==
  /\ comm[c].pc = "routed"
  /\ dma' = NoDma
  /\ comm' = [comm EXCEPT ![c].pc = "up"] /\ deviceLock' = NoChip
  /\ UNCHANGED <<scene, shared, image, dmaRanges, callbackInstance, torn>>

-----------------------------------------------------------------------------
(* Closing and destroying a device.                                        *)

(* close_device(): mark_closed(), after which shutdown() returns at once.  *)
CloseTTSim(c) ==
  /\ comm[c].pc = "up" /\ ~comm[c].closed /\ deviceLock = NoChip
  /\ comm' = [comm EXCEPT ![c].closed = TRUE]
  /\ UNCHANGED <<scene, shared, deviceLock, image, dmaState>>

(* ~TTSimTTDevice: shutdown() tells a library it does not share by the     *)
(* reference count to exit, also one that others have opened.              *)
ShutdownSim(c) ==
  /\ comm[c].pc = "up" /\ deviceLock = NoChip
  /\ comm' = [comm EXCEPT ![c].pc = "unregister"]
  /\ image' = IF comm[c].closed \/ UsesShared(c) THEN image
              ELSE [image EXCEPT ![comm[c].handle].exits = @ + 1, ![comm[c].handle].running = FALSE]
  /\ UNCHANGED <<scene, shared, deviceLock, dmaState>>

(* ~TTSimCommunicator, without device_lock_: first out of the table.       *)
Unregister(c) ==
  /\ comm[c].pc = "unregister"
  /\ comm' = [comm EXCEPT ![c].pc = "release"]
  /\ \/ Slots(c) = {} /\ UNCHANGED dmaRanges
     \/ \E i \in Slots(c) : dmaRanges' = Compacted(i)
  /\ callbackInstance' = IF callbackInstance = Inst(c) THEN NoInst ELSE callbackInstance
  /\ torn' = (torn \/ dma.to = Inst(c))
  /\ UNCHANGED <<scene, shared, deviceLock, image, dma>>

(* dlclose(), after libttsim_exit() or without; the image is unloaded when *)
(* nobody has it any more.                                                 *)
Closed(h, who, exit) ==
  [image EXCEPT ![h].by = @ \ {who}, ![h].running = @ /\ ~exit, ![h].exits = @ + (IF exit THEN 1 ELSE 0)]

\* Mutant: each communicator of a shared library ends it.
LastOfAny(c) == UsesShared(c)

LastUser(c) == UsesShared(c) /\ shared.refs = 1

(* The last user of a shared library calls libttsim_exit() and closes it;  *)
(* a library of its own is closed, unless it is the shared handle.         *)
Release(c) ==
  /\ comm[c].pc = "release"
  /\ \/ /\ LastUser(c)
        /\ image' = Closed(shared.handle, NoChip, TRUE)
        /\ shared' = [handle |-> 0, refs |-> shared.refs - 1, init |-> FALSE]
     \/ /\ UsesShared(c) /\ ~LastUser(c)
        /\ shared' = [shared EXCEPT !.refs = @ - 1] /\ UNCHANGED image
     \/ /\ ~UsesShared(c) /\ UNCHANGED shared
        /\ image' = IF comm[c].handle # 0 /\ comm[c].handle # shared.handle THEN Closed(comm[c].handle, c, FALSE) ELSE image
  /\ comm' = [comm EXCEPT ![c] = NoComm]
  /\ scene' = [scene EXCEPT !.lives[c] = @ - 1]
  /\ UNCHANGED <<deviceLock, dmaState>>

-----------------------------------------------------------------------------
BackendNext ==
  \E c \in SimChips :
    \/ Probe(c) \/ CommitShared(c) \/ CommitBdf(c) \/ LoadLibrary(c)
    \/ SetCallbacks(c) \/ StartSim(c) \/ ConfigureIatu(c)
    \/ BeginIo(c) \/ EndIo(c) \/ RouteDma(c) \/ DmaCallback(c)
    \/ CloseTTSim(c) \/ ShutdownSim(c) \/ Unregister(c) \/ Release(c)

BackendSpec == BackendInit /\ [][BackendNext]_backendVars

-----------------------------------------------------------------------------
Users == {c \in SimChips : UsesShared(c)}
HasImage(c) == comm[c].pc \notin {"none", "probed", "unshared", "release"} /\ comm[c].mode # "none"

Loaded(h) == image[h].by # {}

(* Two communicators opened the file itself, each as if it were alone.     *)
Joint(h) == image[h].load = "joint"

(* The library under a chip in use stays loaded, through constructions,    *)
(* failures and destructions of the other chips by other threads, and none *)
(* stays when the last chip is gone; the reference count is the number of  *)
(* users.  It is told the callbacks before it is initialised.  Unless two  *)
(* chips without copy_sim_binary_ have loaded the file of a library that   *)
(* hosts one, it is initialised once, never told the callbacks while it    *)
(* runs, runs while a chip uses it, and exits at most once, after it was   *)
(* initialised.                                                            *)
SharedLibrarySound ==
  /\ shared.refs = Cardinality(Users)
  /\ \A c \in SimChips : HasImage(c) => Loaded(comm[c].handle)
  /\ \A c \in Users : comm[c].handle = shared.handle /\ ~Joint(shared.handle)
  /\ \A c \in SimChips : comm[c].pc \in {"started", "up", "io", "routed"} => image[comm[c].handle].running \/ Joint(comm[c].handle)
  /\ \A h \in DOMAIN image :
       /\ ~Joint(h) => image[h].inits <= 1 /\ image[h].exits <= image[h].inits /\ ~image[h].rehooked
       /\ image[h].inits > 0 => image[h].hooked
       /\ ~Loaded(h) => h # shared.handle
  /\ (\A c \in SimChips : comm[c].pc = "none") => \A h \in DOMAIN image : ~Loaded(h)

(* A chip's access through its iATU reaches the host memory of that chip,  *)
(* at its offset, while the chip's communicator is registered, whichever   *)
(* others came and went; and no destroyed communicator is called, unless   *)
(* one was destroyed by its thread while another thread's call was routed  *)
(* to it.                                                                  *)
DmaReachesOwner ==
  /\ dma.from # NoChip /\ dma.off < Channels /\ Slots(dma.from) # {} => dma.to = Inst(dma.from) /\ dma.at = dma.off
  /\ dma.to # NoInst /\ ~torn => comm[dma.to.chip].pc # "none" /\ dma.to = Inst(dma.to.chip)
  /\ \A i \in DOMAIN dmaRanges : dmaRanges[i] = Inst(dmaRanges[i].chip) /\ comm[dmaRanges[i].chip].pc \notin {"none", "release"}

(* libttsim under several chips: the library outlives its users and the    *)
(* accesses the simulated devices make reach the memory of their chips.    *)
BackendSound ==
  /\ SharedLibrarySound
  /\ DmaReachesOwner
=============================================================================
