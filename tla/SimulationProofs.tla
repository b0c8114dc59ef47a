-------------------------- MODULE SimulationProofs --------------------------
(***************************************************************************)
(* Proofs about the simulation components, for any number of chips,        *)
(* windows and threads: the shared library and the host windows outlive    *)
(* their users (SimulationBackend), and over the nameless messages of the  *)
(* RTL simulator readers get their own replies, resets keep their order    *)
(* and host memory is consistent (RtlSimulation).  With the proofs about   *)
(* the servers, requests and commands are answered.                        *)
(***************************************************************************)
EXTENDS SimulationServerProofs

-----------------------------------------------------------------------------
(* SimulationBackend.                                                      *)

(* Where a communicator is: before initialize() has committed, in use by   *)
(* its device, and being destroyed.                                        *)
Starting == {"none", "probed", "unshared"}
Running == {"started", "up", "io", "routed"}
Registered == {"hooked", "unregister"} \cup Running
CommLabels == Starting \cup Registered \cup {"ready", "release"}

BackendScene ==
  [lib : Libraries, copy : SUBSET SimChips, windows : BOOLEAN, ours : BOOLEAN, lives : [SimChips -> Int], ios : [SimChips -> Int]]
BackendComm == [pc : CommLabels, mode : {"none", "multichip", "bdf", "legacy"}, handle : Nat, closed : BOOLEAN]
BackendImage ==
  [by : SUBSET (SimChips \cup {NoChip}), load : {"shared", "copy", "sole", "joint"}, inits : Nat, exits : Nat, running : BOOLEAN, hooked : BOOLEAN, rehooked : BOOLEAN, iatu : SUBSET SimChips]
Instance == [chip : SimChips \cup {NoChip}, life : Int]

BackendTypes ==
  /\ scene \in BackendScene
  /\ comm \in [SimChips -> BackendComm]
  /\ shared \in [handle : Nat, refs : Int, init : BOOLEAN]
  /\ image \in Seq(BackendImage)
  /\ dmaRanges \in Seq(Instance) /\ callbackInstance \in Instance
  /\ dma \in [from : SimChips \cup {NoChip}, off : Int, to : Instance, at : Int]
  /\ torn \in BOOLEAN

(* device_lock_, and what a communicator knows of the library where.       *)
CommInv == \A c \in SimChips :
  /\ comm[c].pc \in {"probed", "unshared", "io", "routed"} => deviceLock = c
  /\ comm[c].pc \in Starting => comm[c].mode = "none" /\ comm[c].handle = 0
  /\ comm[c].mode = "none" => comm[c].pc \in Starting \cup {"unregister", "release"}
  /\ comm[c].mode # "none" => comm[c].mode = scene.lib
  /\ comm[c].pc = "probed" => scene.lib \in {"multichip", "incomplete"}

(* A chip that has opened a library itself.                                *)
Owns(c) == comm[c].handle # 0 /\ ~UsesShared(c)
Holder(c, h) == (c = NoChip /\ h = shared.handle) \/ (c \in SimChips /\ Owns(c) /\ comm[c].handle = h)

(* What is true of an image at any time, and of a library of its own when  *)
(* its communicator is at l; unless two have opened the same.              *)
ImageOk(r) ==
  /\ r.load # "joint" => r.inits <= 1 /\ r.exits <= r.inits /\ ~r.rehooked
  /\ r.inits > 0 => r.hooked

CopyAt(l, r) ==
  /\ r.load # "joint" /\ l \in {"ready", "hooked"} => r.inits = 0 /\ r.exits = 0 /\ ~r.running
  /\ l = "hooked" => r.hooked
  /\ r.load # "joint" /\ l \in Running => r.inits = 1 /\ r.exits = 0 /\ r.running

(* The shared handle is open while it has users, or the thread that opened *)
(* it is about to commit; it has been initialised as s_sim_initialized_    *)
(* says, and a user that is past start_sim(), or fails before it, has or   *)
(* leaves somebody who has initialised it or will.                         *)
SharedInv ==
  /\ shared.refs = Cardinality(Users)
  /\ shared.handle # 0 => shared.handle \in DOMAIN image /\ Loaded(shared.handle) /\ image[shared.handle].load = "shared"
  /\ shared.handle # 0 /\ Users = {} => \E c \in SimChips : comm[c].pc = "probed"
  /\ Users # {} => shared.handle # 0
  /\ shared.init => Users # {}
  /\ \A c \in Users : comm[c].handle = shared.handle
  /\ shared.handle # 0 =>
       /\ image[shared.handle].exits = 0
       /\ shared.init => image[shared.handle].inits = 1 /\ image[shared.handle].running
       /\ ~shared.init => image[shared.handle].inits = 0 /\ ~image[shared.handle].running
  /\ \A c \in Users :
       /\ comm[c].pc \in Running => shared.init
       /\ comm[c].pc = "hooked" => image[shared.handle].hooked
       /\ comm[c].pc \in {"unregister", "release"} => shared.init \/ \E d \in Users : comm[d].pc = "hooked"

(* A library of its own belongs to one communicator, unless two have       *)
(* opened the file, and is at the point of its life where it is.           *)
CopyInv ==
  /\ \A c \in SimChips : Owns(c) =>
       /\ comm[c].handle \in DOMAIN image /\ c \in image[comm[c].handle].by /\ comm[c].handle # shared.handle
       /\ ~Joint(comm[c].handle) => \A d \in SimChips : d # c => comm[d].handle # comm[c].handle
       /\ CopyAt(comm[c].pc, image[comm[c].handle])
  /\ \A c \in SimChips : comm[c].mode = "legacy" => comm[c].handle # 0

ImageInv == \A h \in DOMAIN image : ImageOk(image[h]) /\ \A c \in image[h].by : Holder(c, h)

(* A communicator that is in the table, or is the callback instance, has   *)
(* not begun its destructor; no two windows are of one chip.               *)
LiveInst(i) == i.chip \in SimChips /\ i = Inst(i.chip) /\ comm[i.chip].pc \in Registered
SlotInv ==
  /\ \A i \in DOMAIN dmaRanges :
       /\ LiveInst(dmaRanges[i]) /\ comm[dmaRanges[i].chip].mode # "none"
       /\ comm[dmaRanges[i].chip].pc = "unregister" /\ UsesShared(dmaRanges[i].chip) => shared.init
  /\ \A i, j \in DOMAIN dmaRanges : dmaRanges[i].chip = dmaRanges[j].chip => i = j
  /\ callbackInstance # NoInst => LiveInst(callbackInstance)

(* An access is under way only in a call that has device_lock_, so that no *)
(* window is added meanwhile.                                              *)
DmaInv ==
  /\ dma.from # NoChip => \E c \in SimChips : comm[c].pc = "routed"
  /\ dma.from = NoChip => dma.to = NoInst
  /\ dma.to # NoInst /\ ~torn => LiveInst(dma.to)
  /\ dma.from # NoChip /\ dma.off < Channels /\ Slots(dma.from) # {} => dma.to = Inst(dma.from) /\ dma.at = dma.off

BackendInv == BackendTypes /\ CommInv /\ SharedInv /\ CopyInv /\ ImageInv /\ SlotInv /\ DmaInv

LEMMA CommMove ==
  ASSUME BackendTypes, NEW c \in SimChips, NEW l \in CommLabels, comm' = [comm EXCEPT ![c].pc = l]
  PROVE  /\ comm' \in [SimChips -> BackendComm]
         /\ comm'[c].pc = l /\ comm'[c].mode = comm[c].mode /\ comm'[c].handle = comm[c].handle
         /\ \A d \in SimChips : d # c => comm'[d] = comm[d]
<1> DEFINE r == [comm[c] EXCEPT !.pc = l]
<1>1. comm[c] \in BackendComm /\ comm \in [SimChips -> BackendComm]
  BY DEF BackendTypes
<1>2. r \in BackendComm /\ r.pc = l /\ r.mode = comm[c].mode /\ r.handle = comm[c].handle
  BY <1>1 DEF BackendComm
<1>3. comm' = [comm EXCEPT ![c] = r]
  BY <1>1
<1> HIDE DEF r
<1> QED
  BY <1>1, <1>2, <1>3

(* The users of the library are the same while the modes are.              *)
SameModes == \A d \in SimChips : comm'[d].mode = comm[d].mode /\ comm'[d].handle = comm[d].handle

LEMMA SameUsers ==
  ASSUME SameModes
  PROVE  Users' = Users /\ (\A d \in SimChips : UsesShared(d)' <=> UsesShared(d)) /\ (\A d \in SimChips : Owns(d)' <=> Owns(d))
BY DEF SameModes, Users, UsesShared, Owns

(* A chip moves on and the libraries are left alone.                       *)
LibraryMove(c) ==
  \/ comm'[c].pc = comm[c].pc
  \/ comm[c].pc = "none" /\ comm'[c].pc \in {"probed", "unshared"}
  \/ comm[c].pc \in Running /\ comm'[c].pc \in Running
  \/ comm[c].pc \in Running \cup {"unregister"} /\ comm'[c].pc \in {"unregister", "release"}

LEMMA LibraryKept ==
  ASSUME BackendTypes, SharedInv, CopyInv, ImageInv, NEW c \in SimChips, image' = image, shared' = shared,
         SameModes, \A d \in SimChips : d # c => comm'[d] = comm[d], LibraryMove(c)
  PROVE  SharedInv' /\ CopyInv' /\ ImageInv'
<1>1. Users' = Users /\ (\A d \in SimChips : UsesShared(d)' <=> UsesShared(d)) /\ (\A d \in SimChips : Owns(d)' <=> Owns(d))
  BY SameUsers
<1>2. \A d \in SimChips : (comm[d].pc = "probed" => comm'[d].pc = "probed") /\ (comm'[d].pc = "hooked" <=> comm[d].pc = "hooked")
  BY DEF LibraryMove, Running
<1>3. \A d \in SimChips : comm'[d].pc \in Running => comm[d].pc \in Running
  BY DEF LibraryMove, Running
<1>4. \A d \in SimChips : comm'[d].pc \in {"unregister", "release"} => comm[d].pc \in Running \cup {"unregister", "release"}
  BY DEF LibraryMove, Running
<1>5. \A d \in SimChips : comm'[d].pc = "ready" => comm[d].pc = "ready"
  BY DEF LibraryMove, Running
<1>6. Users \subseteq SimChips
  BY DEF Users
<1>7. SharedInv'
  BY <1>1, <1>2, <1>3, <1>4, <1>6 DEF SharedInv, SameModes, Loaded
<1>8. CopyInv'
  <2>1. ASSUME NEW d \in SimChips, NEW m, CopyAt(comm[d].pc, m) PROVE CopyAt(comm'[d].pc, m)
    BY <2>1, <1>2, <1>3, <1>5 DEF CopyAt
  <2> QED
    BY <1>1, <2>1 DEF CopyInv, SameModes, Joint
<1>9. ImageInv'
  BY <1>1 DEF ImageInv, SameModes, Holder
<1> QED
  BY <1>7, <1>8, <1>9

(* No communicator leaves the table by moving on, unless it is destroyed.  *)
LEMMA LiveKept ==
  ASSUME NEW i, LiveInst(i), scene'.lives = scene.lives, comm'[i.chip].pc \in Registered
  PROVE  LiveInst(i)'
BY DEF LiveInst, Inst

LEMMA SlotsKept ==
  ASSUME BackendTypes, SlotInv, dmaRanges' = dmaRanges, callbackInstance' = callbackInstance,
         scene'.lives = scene.lives, SameModes, shared'.init \/ ~shared.init,
         \A d \in SimChips : comm[d].pc \in Registered => comm'[d].pc \in Registered,
         \A d \in SimChips : comm'[d].pc = "unregister" /\ UsesShared(d) /\ (\E i \in DOMAIN dmaRanges : dmaRanges[i].chip = d) =>
                               comm[d].pc = "unregister" \/ shared'.init
  PROVE  SlotInv'
<1>1. \A d \in SimChips : UsesShared(d)' <=> UsesShared(d)
  BY SameUsers
<1>2. \A i \in DOMAIN dmaRanges : LiveInst(dmaRanges[i])'
  BY LiveKept DEF SlotInv, LiveInst
<1>3. callbackInstance # NoInst => LiveInst(callbackInstance)'
  BY LiveKept DEF SlotInv, LiveInst
<1>4. \A i \in DOMAIN dmaRanges : dmaRanges[i].chip \in SimChips
  BY DEF SlotInv, LiveInst
<1>5. \A i \in DOMAIN dmaRanges : comm'[dmaRanges[i].chip].mode # "none"
  BY <1>4 DEF SlotInv, SameModes
<1>6. \A i \in DOMAIN dmaRanges :
        comm'[dmaRanges[i].chip].pc = "unregister" /\ UsesShared(dmaRanges[i].chip)' => shared'.init
  BY <1>1, <1>4 DEF SlotInv
<1> QED
  BY <1>2, <1>3, <1>5, <1>6 DEF SlotInv, LiveInst, NoInst

(* The access under way goes on while no window is added.                  *)
LEMMA DmaKept ==
  ASSUME BackendTypes, DmaInv, dmaRanges' = dmaRanges, dma' = dma, torn' = torn, scene'.lives = scene.lives,
         \A d \in SimChips : comm[d].pc \in Registered => comm'[d].pc \in Registered,
         (\E d \in SimChips : comm[d].pc = "routed") => \E d \in SimChips : comm'[d].pc = "routed"
  PROVE  DmaInv'
<1>1. dma.to # NoInst /\ ~torn => LiveInst(dma.to)'
  BY LiveKept DEF DmaInv, LiveInst
<1>2. \A d \in SimChips : Slots(d)' = Slots(d) /\ Inst(d)' = Inst(d)
  BY DEF Slots, Inst
<1>3. dma.from \in SimChips \cup {NoChip}
  BY DEF BackendTypes
<1>4. ASSUME dma.from # NoChip, dma.off < Channels, Slots(dma.from)' # {} PROVE dma.to = Inst(dma.from)' /\ dma.at = dma.off
  <2>1. PICK d \in SimChips : d = dma.from
    BY <1>3, <1>4
  <2>2. Slots(d)' = Slots(dma.from)' /\ Slots(d) = Slots(dma.from) /\ Inst(d)' = Inst(dma.from)' /\ Inst(d) = Inst(dma.from)
    BY <2>1 DEF Slots, Inst
  <2> QED
    BY <1>2, <1>4, <2>2 DEF DmaInv
<1>5. /\ dma'.from # NoChip => \E c \in SimChips : comm'[c].pc = "routed"
      /\ dma'.from = NoChip => dma'.to = NoInst
  BY DEF DmaInv
<1> QED
  BY <1>1, <1>4, <1>5 DEF DmaInv, LiveInst, NoInst

(* device_lock_ is taken by c when nobody has it, kept by c or released.   *)
LockStep(c) ==
  \/ deviceLock = NoChip /\ deviceLock' = NoChip
  \/ deviceLock = NoChip /\ deviceLock' = c
  \/ deviceLock = c /\ deviceLock' \in {c, NoChip}
  \/ deviceLock' = deviceLock /\ comm'[c].pc \notin {"probed", "unshared", "io", "routed"}

LEMMA CommKept ==
  ASSUME CommInv, NEW c \in SimChips, scene'.lib = scene.lib, LockStep(c),
         \A d \in SimChips : d # c => comm'[d] = comm[d],
         /\ comm'[c].pc \in {"probed", "unshared", "io", "routed"} => deviceLock' = c
         /\ comm'[c].pc \in Starting => comm'[c].mode = "none" /\ comm'[c].handle = 0
         /\ comm'[c].mode = "none" => comm'[c].pc \in Starting \cup {"unregister", "release"}
         /\ comm'[c].mode # "none" => comm'[c].mode = scene.lib
         /\ comm'[c].pc = "probed" => scene.lib \in {"multichip", "incomplete"}
  PROVE  CommInv'
<1>1. NoChip \notin SimChips
  BY BackendBounds
<1>2. \A d \in SimChips : d # c /\ comm'[d].pc \in {"probed", "unshared", "io", "routed"} => deviceLock' = d
  BY <1>1 DEF CommInv, LockStep
<1> QED
  BY <1>2 DEF CommInv

LEMMA SceneChange ==
  ASSUME NEW s \in BackendScene, NEW c \in SimChips
  PROVE  /\ [s EXCEPT !.ios[c] = @ - 1] \in BackendScene
         /\ [s EXCEPT !.ios[c] = @ - 1].lives = s.lives /\ [s EXCEPT !.ios[c] = @ - 1].lib = s.lib
         /\ [s EXCEPT !.lives[c] = @ - 1] \in BackendScene
         /\ \A d \in SimChips : d # c => [s EXCEPT !.lives[c] = @ - 1].lives[d] = s.lives[d]
         /\ [s EXCEPT !.lives[c] = @ - 1].lib = s.lib
BY DEF BackendScene

(* I/O and callbacks.                                                      *)
LEMMA BeginIoInv ==
  ASSUME BackendInv, NEW c \in SimChips, BeginIo(c) \/ EndIo(c)
  PROVE  BackendInv'
<1> USE DEF BackendInv
<1>1. PICK l \in {"io", "up"} : comm' = [comm EXCEPT ![c].pc = l] /\ (l = "io" => deviceLock' = c)
  BY DEF BeginIo, EndIo
<1>2. /\ UNCHANGED <<shared, image, dmaState>> /\ comm[c].pc \in {"up", "io"}
      /\ scene'.lives = scene.lives /\ scene'.lib = scene.lib /\ scene' \in BackendScene
  <2>1. UNCHANGED <<shared, image, dmaState>> /\ comm[c].pc \in {"up", "io"}
    BY DEF BeginIo, EndIo
  <2>2. scene \in BackendScene /\ (scene' = scene \/ scene' = [scene EXCEPT !.ios[c] = @ - 1])
    BY DEF BeginIo, EndIo, BackendTypes
  <2> QED
    BY <2>1, <2>2, SceneChange, ZenonT(60)
<1>3. /\ comm' \in [SimChips -> BackendComm]
      /\ comm'[c].pc = l /\ comm'[c].mode = comm[c].mode /\ comm'[c].handle = comm[c].handle
      /\ \A d \in SimChips : d # c => comm'[d] = comm[d]
  BY <1>1, CommMove DEF CommLabels, Registered, Running
<1>4. BackendTypes'
  BY <1>2, <1>3 DEF BackendTypes, dmaState
<1>5. LockStep(c)
  BY <1>2 DEF BeginIo, EndIo, LockStep, CommInv
<1>6. CommInv'
  BY <1>1, <1>2, <1>3, <1>5, CommKept DEF CommInv, Starting
<1>7. SameModes /\ LibraryMove(c)
  BY <1>2, <1>3 DEF SameModes, LibraryMove, Running
<1>8. SharedInv' /\ CopyInv' /\ ImageInv'
  BY <1>2, <1>3, <1>7, LibraryKept
<1>9. \A d \in SimChips : comm[d].pc \in Registered => comm'[d].pc \in Registered
  BY <1>3 DEF Registered, Running
<1>10. SlotInv'
  BY <1>2, <1>3, <1>7, <1>9, SlotsKept DEF dmaState
<1>11. DmaInv'
  BY <1>2, <1>3, <1>9, DmaKept DEF dmaState
<1> QED
  BY <1>4, <1>6, <1>8, <1>10, <1>11

LEMMA CloseTTSimInv ==
  ASSUME BackendInv, NEW c \in SimChips, CloseTTSim(c)
  PROVE  BackendInv'
<1> USE DEF BackendInv
<1>1. UNCHANGED <<scene, shared, deviceLock, image, dmaState>> /\ comm[c].pc = "up" /\ deviceLock = NoChip
  BY DEF CloseTTSim
<1>2. comm[c] \in BackendComm /\ comm' = [comm EXCEPT ![c] = [comm[c] EXCEPT !.closed = TRUE]]
  BY DEF CloseTTSim, BackendTypes
<1>3. /\ comm' \in [SimChips -> BackendComm]
      /\ comm'[c].pc = comm[c].pc /\ comm'[c].mode = comm[c].mode /\ comm'[c].handle = comm[c].handle
      /\ \A d \in SimChips : d # c => comm'[d] = comm[d]
  BY <1>2 DEF BackendComm, BackendTypes
<1>4. BackendTypes'
  BY <1>1, <1>3 DEF BackendTypes, dmaState
<1>6. CommInv'
  BY <1>1, <1>3, CommKept DEF CommInv, Starting, LockStep
<1>7. SameModes /\ LibraryMove(c)
  BY <1>3 DEF SameModes, LibraryMove
<1>8. SharedInv' /\ CopyInv' /\ ImageInv'
  BY <1>1, <1>3, <1>7, LibraryKept
<1>9. \A d \in SimChips : comm'[d].pc = comm[d].pc
  BY <1>3
<1>10. SlotInv'
  BY <1>1, <1>7, <1>9, SlotsKept DEF dmaState
<1>11. DmaInv'
  BY <1>1, <1>9, DmaKept DEF dmaState
<1> QED
  BY <1>4, <1>6, <1>8, <1>10, <1>11

LEMMA DmaCallbackInv ==
  ASSUME BackendInv, NEW c \in SimChips, DmaCallback(c)
  PROVE  BackendInv'
<1> USE DEF BackendInv
<1>1. /\ UNCHANGED <<scene, shared, image, dmaRanges, callbackInstance, torn>>
      /\ comm[c].pc = "routed" /\ comm' = [comm EXCEPT ![c].pc = "up"] /\ deviceLock' = NoChip /\ dma' = NoDma
  BY DEF DmaCallback
<1>2. deviceLock = c
  BY <1>1 DEF CommInv
<1>3. /\ comm' \in [SimChips -> BackendComm]
      /\ comm'[c].pc = "up" /\ comm'[c].mode = comm[c].mode /\ comm'[c].handle = comm[c].handle
      /\ \A d \in SimChips : d # c => comm'[d] = comm[d]
  BY <1>1, CommMove DEF CommLabels, Registered, Running
<1>4. BackendTypes'
  BY <1>1, <1>3 DEF BackendTypes, NoDma, NoInst, Instance
<1>6. CommInv'
  BY <1>1, <1>2, <1>3, CommKept DEF CommInv, Starting, LockStep
<1>7. SameModes /\ LibraryMove(c)
  BY <1>1, <1>3 DEF SameModes, LibraryMove, Running
<1>8. SharedInv' /\ CopyInv' /\ ImageInv'
  BY <1>1, <1>3, <1>7, LibraryKept
<1>9. \A d \in SimChips : comm[d].pc \in Registered => comm'[d].pc \in Registered
  BY <1>3 DEF Registered, Running
<1>10. SlotInv'
  BY <1>1, <1>3, <1>7, <1>9, SlotsKept
<1>11. DmaInv'
  BY <1>1 DEF DmaInv, NoDma, NoInst
<1> QED
  BY <1>4, <1>6, <1>8, <1>10, <1>11

(* A communicator that has committed has an open library.                  *)
LEMMA HandleOpen ==
  ASSUME BackendTypes, SharedInv, CopyInv, NEW c \in SimChips, comm[c].mode # "none"
  PROVE  comm[c].handle \in DOMAIN image /\ image[comm[c].handle].by # {}
<1>1. comm[c].mode \in {"multichip", "bdf", "legacy"}
  BY DEF BackendTypes, BackendComm
<1>2. CASE UsesShared(c)
  BY <1>2 DEF SharedInv, Users, Loaded
<1>3. CASE ~UsesShared(c)
  BY <1>1, <1>3 DEF CopyInv, UsesShared, Owns
<1> QED
  BY <1>2, <1>3

(* The windows of two chips do not overlap.                                *)
LEMMA WindowsDisjoint ==
  ASSUME NEW c \in Nat, NEW d \in Nat, NEW S \in Nat, NEW o \in Nat, o < S,
         d * S + o >= c * S, d * S + o - c * S < S
  PROVE  c = d
<1>1. CASE c < d
  <2>1. PICK k \in Nat : d = c + 1 + k
    <3>1. d - c - 1 \in Nat /\ d = c + 1 + (d - c - 1)
      BY <1>1
    <3> QED
      BY <3>1
  <2>2. d * S = c * S + S + k * S /\ k * S \in Nat
    BY <2>1
  <2> QED
    BY <2>2
<1>2. CASE d < c
  <2>1. PICK k \in Nat : c = d + 1 + k
    <3>1. c - d - 1 \in Nat /\ c = d + 1 + (c - d - 1)
      BY <1>2
    <3> QED
      BY <3>1
  <2>2. c * S = d * S + S + k * S /\ k * S \in Nat /\ d * S \in Nat
    BY <2>1
  <2> QED
    BY <2>2
<1> QED
  BY <1>1, <1>2

(* dma_route() finds the one window of the chip that made the access.      *)
LEMMA RouteToOwner ==
  ASSUME BackendTypes, SlotInv, NEW d \in SimChips, NEW off \in 0 .. Stride - 1, off < Channels, Slots(d) # {}
  PROVE  DmaRoute(Emitted(d, off)) = [to |-> Inst(d), at |-> off]
<1> DEFINE a == d * Stride + off
           hits == {i \in DOMAIN dmaRanges : Holds(i, a)}
<1>1. PICK i \in Slots(d) : TRUE
  OBVIOUS
<1>2. i \in DOMAIN dmaRanges /\ dmaRanges[i].chip = d /\ dmaRanges[i] = Inst(d)
  BY <1>1 DEF Slots, SlotInv, LiveInst
<1>3. d \in Nat /\ Stride \in Nat /\ off \in Nat /\ off < Stride /\ d * Stride \in Nat
  BY BackendBounds
<1>4. Holds(i, a) /\ a - dmaRanges[i].chip * Stride = off
  BY <1>2, <1>3 DEF Holds
<1>5. ASSUME NEW j \in DOMAIN dmaRanges, Holds(j, a) PROVE j = i
  <2>1. dmaRanges[j].chip \in Nat
    BY BackendBounds DEF SlotInv, LiveInst
  <2>2. a >= dmaRanges[j].chip * Stride /\ a - dmaRanges[j].chip * Stride < Stride
    BY <1>5, Zenon DEF Holds
  <2>3. dmaRanges[j].chip = d
    BY ONLY <1>3, <2>1, <2>2, WindowsDisjoint
  <2> QED
    BY <1>2, <2>3 DEF SlotInv
<1>6. hits = {i}
  BY <1>2, <1>4, <1>5
<1>7. (CHOOSE k \in hits : \A j \in hits : k <= j) = i
  <2>1. i \in Nat
    BY <1>2 DEF BackendTypes
  <2> QED
    BY <1>6, <2>1
<1>8. Emitted(d, off) = a
  BY DEF Emitted
<1> QED
  BY <1>2, <1>4, <1>6, <1>7, <1>8 DEF DmaRoute

LEMMA RouteDmaInv ==
  ASSUME BackendInv, NEW c \in SimChips, RouteDma(c)
  PROVE  BackendInv'
<1> USE DEF BackendInv
<1>1. /\ UNCHANGED <<scene, shared, deviceLock, image, dmaRanges, callbackInstance, torn>>
      /\ comm[c].pc = "io" /\ comm' = [comm EXCEPT ![c].pc = "routed"]
  BY DEF RouteDma
<1>2. PICK d \in image[comm[c].handle].iatu, off \in 0 .. Stride - 1 :
        dma' = [from |-> d, off |-> off, to |-> DmaRoute(Emitted(d, off)).to, at |-> DmaRoute(Emitted(d, off)).at]
  BY DEF RouteDma
<1>3. /\ comm' \in [SimChips -> BackendComm]
      /\ comm'[c].pc = "routed" /\ comm'[c].mode = comm[c].mode /\ comm'[c].handle = comm[c].handle
      /\ \A e \in SimChips : e # c => comm'[e] = comm[e]
  BY <1>1, CommMove DEF CommLabels, Registered, Running
<1>4. comm[c].mode # "none" /\ deviceLock = c
  BY <1>1 DEF CommInv, Starting
<1>5. d \in SimChips
  <2>1. PICK m \in BackendImage : m = image[comm[c].handle]
    BY <1>4, HandleOpen DEF BackendTypes
  <2> QED
    BY <1>2, <2>1 DEF BackendImage
<1>6. PICK a \in Int : a = Emitted(d, off)
  BY <1>5, BackendBounds DEF Emitted
<1>7. DmaRoute(a).at \in Int /\ (DmaRoute(a).to \in {callbackInstance, NoInst} \/ \E i \in DOMAIN dmaRanges : DmaRoute(a).to = dmaRanges[i])
  <2> DEFINE hits == {i \in DOMAIN dmaRanges : Holds(i, a)}
  <2>1. CASE hits # {}
    <3>1. hits \subseteq Nat
      BY DEF BackendTypes
    <3>2. PICK i \in hits : i = (CHOOSE k \in hits : \A j \in hits : k <= j)
      <4>1. Min(hits) \in hits /\ \A j \in hits : Min(hits) <= j
        BY <2>1, <3>1, LeastIs
      <4> QED
        BY <4>1
    <3>3. DmaRoute(a) = [to |-> dmaRanges[i], at |-> a - dmaRanges[i].chip * Stride]
      BY <2>1, <3>2 DEF DmaRoute
    <3>4. PICK e \in Nat : dmaRanges[i].chip = e
      BY BackendBounds DEF SlotInv, LiveInst
    <3>5. a - e * Stride \in Int
      BY <1>6, BackendBounds
    <3> QED
      BY <3>3, <3>4, <3>5
  <2>2. CASE hits = {}
    BY <1>6, <2>2 DEF DmaRoute
  <2> QED
    BY <2>1, <2>2
<1>8. PICK t : t = DmaRoute(a).to
  OBVIOUS
<1>9. dma'.to = t /\ dma'.from = d /\ dma'.off = off /\ dma'.at = DmaRoute(a).at
  BY <1>2, <1>6, <1>8
<1>10. t \in Instance
  <2>1. callbackInstance \in Instance /\ \A i \in DOMAIN dmaRanges : dmaRanges[i] \in Instance
    BY DEF BackendTypes
  <2>2. NoInst \in Instance
    BY DEF Instance, NoInst
  <2> QED
    BY <1>7, <1>8, <2>1, <2>2
<1>11. BackendTypes'
  BY <1>1, <1>2, <1>3, <1>5, <1>6, <1>7, <1>8, <1>10 DEF BackendTypes
<1>12. CommInv'
  BY <1>1, <1>3, <1>4, CommKept DEF CommInv, Starting, LockStep
<1>13. SameModes /\ LibraryMove(c)
  BY <1>1, <1>3 DEF SameModes, LibraryMove, Running
<1>14. SharedInv' /\ CopyInv' /\ ImageInv'
  BY <1>1, <1>3, <1>13, LibraryKept
<1>15. \A e \in SimChips : comm[e].pc \in Registered => comm'[e].pc \in Registered
  BY <1>3 DEF Registered, Running
<1>16. SlotInv'
  BY <1>1, <1>3, <1>13, <1>15, SlotsKept
<1>17. t # NoInst => LiveInst(t)'
  BY <1>1, <1>7, <1>8, <1>15, LiveKept DEF SlotInv, LiveInst
<1>18. d # NoChip
  BY <1>5, BackendBounds
<1>19. off < Channels /\ Slots(d)' # {} => t = Inst(d)' /\ DmaRoute(a).at = off
  <2>1. Slots(d)' = Slots(d) /\ Inst(d)' = Inst(d)
    BY <1>1 DEF Slots, Inst
  <2> QED
    BY <1>5, <1>6, <1>8, <2>1, RouteToOwner
<1>20. Slots(dma.from)' = Slots(d)' /\ Inst(dma.from)' = Inst(d)'
  BY <1>9 DEF Slots, Inst
<1>21. dma'.to # NoInst => LiveInst(dma.to)'
  BY <1>9, <1>17 DEF LiveInst, Inst
<1>22. DmaInv'
  BY <1>3, <1>9, <1>18, <1>19, <1>20, <1>21 DEF DmaInv, NoInst
<1> QED
  BY <1>11, <1>12, <1>14, <1>16, <1>22

(* A communicator that has committed changes its own image.                *)
LEMMA CopyStep ==
  ASSUME BackendTypes, SharedInv, CopyInv, ImageInv, NEW c \in SimChips, comm[c].mode # "none",
         SameModes, \A d \in SimChips : d # c => comm'[d] = comm[d], shared'.handle = shared.handle,
         NEW h, h = comm[c].handle, NEW r \in BackendImage, image' = [image EXCEPT ![h] = r],
         r.by = image[h].by, r.load = image[h].load, image[h].hooked => r.hooked, ImageOk(r),
         ~UsesShared(c) => CopyAt(comm'[c].pc, r)
  PROVE  /\ image' \in Seq(BackendImage) /\ DOMAIN image' = DOMAIN image /\ image'[h] = r /\ h \in DOMAIN image
         /\ \A k \in DOMAIN image : k # h => image'[k] = image[k]
         /\ CopyInv' /\ ImageInv'
<1>1. h \in DOMAIN image
  BY HandleOpen
<1>2. image \in Seq(BackendImage)
  BY DEF BackendTypes
<1>3. /\ image' \in Seq(BackendImage) /\ DOMAIN image' = DOMAIN image /\ image'[h] = r
      /\ \A k \in DOMAIN image : k # h => image'[k] = image[k]
  BY ONLY <1>1, <1>2, image' = [image EXCEPT ![h] = r], r \in BackendImage
<1>4. Users' = Users /\ (\A d \in SimChips : UsesShared(d)' <=> UsesShared(d)) /\ (\A d \in SimChips : Owns(d)' <=> Owns(d))
  BY SameUsers
<1>5. \A k \in DOMAIN image : image'[k].by = image[k].by /\ image'[k].load = image[k].load
  BY <1>3
<1>6. ImageInv'
  <2>1. \A d, k : Holder(d, k) => Holder(d, k)'
    BY <1>4 DEF Holder, SameModes
  <2>2. \A k \in DOMAIN image : ImageOk(image'[k])
    BY <1>3 DEF ImageInv
  <2> QED
    BY <1>3, <1>5, <2>1, <2>2 DEF ImageInv
<1>7. CopyInv'
  <2>1. \A d \in SimChips : comm'[d].mode = "legacy" => comm'[d].handle # 0
    BY DEF CopyInv, SameModes
  <2>2. ASSUME NEW d \in SimChips, Owns(d)'
        PROVE  /\ comm'[d].handle \in DOMAIN image' /\ d \in image'[comm'[d].handle].by /\ comm'[d].handle # shared'.handle
               /\ ~Joint(comm[d].handle)' => \A e \in SimChips : e # d => comm'[e].handle # comm'[d].handle
               /\ CopyAt(comm'[d].pc, image'[comm'[d].handle])
    <3>1. PICK k : k = comm[d].handle
      OBVIOUS
    <3>2. Owns(d) /\ comm'[d].handle = k
      BY <1>4, <2>2, <3>1 DEF SameModes
    <3>3. k \in DOMAIN image /\ d \in image[k].by /\ k # shared.handle /\ CopyAt(comm[d].pc, image[k])
      BY <3>1, <3>2 DEF CopyInv
    <3>4. image[k].load # "joint" => \A e \in SimChips : e # d => comm'[e].handle # k
      BY <3>1, <3>2 DEF CopyInv, SameModes, Joint
    <3>5. CopyAt(comm'[d].pc, image'[k])
      <4>1. CASE d = c
        <5>1. k = h /\ ~UsesShared(c)
          BY <3>1, <3>2, <4>1 DEF Owns
        <5> QED
          BY <1>3, <4>1, <5>1
      <4>2. CASE d # c /\ k # h
        BY <1>3, <3>3, <4>2
      <4>3. CASE d # c /\ k = h
        <5>1. comm'[d] = comm[d] /\ comm'[c].handle = h
          BY <4>3 DEF SameModes
        <5>2. image[h].load = "joint"
          BY <3>4, <4>3, <5>1
        <5>3. comm[d].pc = "hooked" => r.hooked
          BY <3>3, <4>3 DEF CopyAt
        <5> QED
          BY <1>3, <4>3, <5>1, <5>2, <5>3 DEF CopyAt
      <4> QED
        BY <4>1, <4>2, <4>3
    <3> QED
      BY <1>3, <1>5, <3>1, <3>2, <3>3, <3>4, <3>5 DEF Joint
  <2> QED
    BY <2>1, <2>2 DEF CopyInv
<1> QED
  BY <1>1, <1>3, <1>6, <1>7

(* The shared library does not notice what becomes of a copy.              *)
LEMMA SharedOther ==
  ASSUME BackendTypes, CommInv, SharedInv, NEW c \in SimChips, ~UsesShared(c), comm[c].pc \notin Starting,
         SameModes, \A d \in SimChips : d # c => comm'[d] = comm[d], shared' = shared,
         shared.handle # 0 => shared.handle \in DOMAIN image' /\ image'[shared.handle] = image[shared.handle]
  PROVE  SharedInv'
<1>1. Users' = Users /\ \A d \in SimChips : UsesShared(d)' <=> UsesShared(d)
  BY SameUsers
<1>2. c \notin Users /\ Users \subseteq SimChips /\ \A d \in Users : comm'[d] = comm[d]
  BY DEF Users
<1>3. \A d \in SimChips : comm[d].pc = "probed" => comm'[d].pc = "probed"
  BY DEF Starting
<1>4. \A d \in Users : comm'[d].handle = shared'.handle
  BY <1>2 DEF SharedInv
<1>5. Users # {} => shared.handle # 0
  BY DEF SharedInv
<1>6. \A d \in Users :
       /\ comm'[d].pc \in Running => shared.init
       /\ comm'[d].pc = "hooked" => image'[shared.handle].hooked
       /\ comm'[d].pc \in {"unregister", "release"} => shared.init \/ \E e \in Users : comm'[e].pc = "hooked"
  BY <1>2, <1>5 DEF SharedInv
<1> QED
  BY <1>1, <1>3, <1>4, <1>6 DEF SharedInv, Loaded

(* The change that each call makes to an image.                            *)
LEMMA ImageFields ==
  ASSUME NEW m \in BackendImage
  PROVE  /\ m.by \in SUBSET (SimChips \cup {NoChip}) /\ m.load \in {"shared", "copy", "sole", "joint"} /\ m.inits \in Nat /\ m.exits \in Nat
         /\ m.running \in BOOLEAN /\ m.hooked \in BOOLEAN /\ m.rehooked \in BOOLEAN /\ m.iatu \in SUBSET SimChips
BY DEF BackendImage

LEMMA ImageExits ==
  ASSUME NEW m \in BackendImage
  PROVE  \E r \in BackendImage :
           /\ r = [m EXCEPT !.exits = @ + 1, !.running = FALSE]
           /\ r.exits = m.exits + 1 /\ r.inits = m.inits /\ r.by = m.by /\ r.load = m.load /\ r.rehooked = m.rehooked /\ r.hooked = m.hooked
<1>1. PICK x : x = m.exits + 1
  OBVIOUS
<1>2. PICK r : r = [m EXCEPT !.exits = x, !.running = FALSE]
  OBVIOUS
<1>3. r = [by |-> m.by, load |-> m.load, inits |-> m.inits, exits |-> x, running |-> FALSE, hooked |-> m.hooked, rehooked |-> m.rehooked, iatu |-> m.iatu]
  BY <1>2 DEF BackendImage
<1>4. r \in BackendImage
  BY <1>1, <1>3, ImageFields DEF BackendImage
<1>5. r = [m EXCEPT !.exits = @ + 1, !.running = FALSE]
  BY <1>1, <1>2, Zenon
<1> QED
  BY <1>1, <1>3, <1>4, <1>5

LEMMA ImageInits ==
  ASSUME NEW m \in BackendImage
  PROVE  \E r \in BackendImage :
           /\ r = [m EXCEPT !.running = TRUE, !.inits = @ + 1]
           /\ r.inits = m.inits + 1 /\ r.exits = m.exits /\ r.running /\ r.by = m.by /\ r.load = m.load /\ r.rehooked = m.rehooked /\ r.hooked = m.hooked
<1>1. PICK x : x = m.inits + 1
  OBVIOUS
<1>2. PICK r : r = [m EXCEPT !.running = TRUE, !.inits = x]
  OBVIOUS
<1>3. r = [by |-> m.by, load |-> m.load, inits |-> x, exits |-> m.exits, running |-> TRUE, hooked |-> m.hooked, rehooked |-> m.rehooked, iatu |-> m.iatu]
  BY <1>2 DEF BackendImage
<1>4. r \in BackendImage
  BY <1>1, <1>3, ImageFields DEF BackendImage
<1>5. r = [m EXCEPT !.running = TRUE, !.inits = @ + 1]
  BY <1>1, <1>2, Zenon
<1> QED
  BY <1>1, <1>3, <1>4, <1>5

LEMMA ImageHooks ==
  ASSUME NEW m \in BackendImage
  PROVE  \E r \in BackendImage :
           /\ r = [m EXCEPT !.hooked = TRUE, !.rehooked = m.running]
           /\ r.inits = m.inits /\ r.exits = m.exits /\ r.running = m.running /\ r.by = m.by /\ r.load = m.load /\ r.rehooked = m.running /\ r.hooked
<1>1. PICK x : x = m.running
  OBVIOUS
<1>2. PICK r : r = [m EXCEPT !.hooked = TRUE, !.rehooked = x]
  OBVIOUS
<1>3. r = [by |-> m.by, load |-> m.load, inits |-> m.inits, exits |-> m.exits, running |-> m.running, hooked |-> TRUE, rehooked |-> x, iatu |-> m.iatu]
  BY <1>2 DEF BackendImage
<1>4. r \in BackendImage
  BY <1>1, <1>3, ImageFields DEF BackendImage
<1>5. r = [m EXCEPT !.hooked = TRUE, !.rehooked = m.running]
  BY <1>1, <1>2, Zenon
<1> QED
  BY <1>1, <1>3, <1>4, <1>5

LEMMA ImageIatu ==
  ASSUME NEW m \in BackendImage, NEW c \in SimChips
  PROVE  \E r \in BackendImage :
           /\ r = [m EXCEPT !.iatu = m.iatu \cup {c}]
           /\ r.inits = m.inits /\ r.exits = m.exits /\ r.running = m.running /\ r.by = m.by /\ r.load = m.load /\ r.rehooked = m.rehooked /\ r.hooked = m.hooked
<1>1. PICK x : x = m.iatu \cup {c}
  OBVIOUS
<1>2. PICK r : r = [m EXCEPT !.iatu = x]
  OBVIOUS
<1>3. r = [by |-> m.by, load |-> m.load, inits |-> m.inits, exits |-> m.exits, running |-> m.running, hooked |-> m.hooked, rehooked |-> m.rehooked, iatu |-> x]
  BY <1>2 DEF BackendImage
<1>4. r \in BackendImage
  BY <1>1, <1>3, ImageFields DEF BackendImage
<1>5. r = [m EXCEPT !.iatu = m.iatu \cup {c}]
  BY <1>1, <1>2, Zenon
<1> QED
  BY <1>1, <1>3, <1>4, <1>5

LEMMA ShutdownSimInv ==
  ASSUME BackendInv, NEW c \in SimChips, ShutdownSim(c)
  PROVE  BackendInv'
<1> USE DEF BackendInv
<1>1. /\ UNCHANGED <<scene, shared, deviceLock, dmaState>> /\ comm[c].pc = "up" /\ deviceLock = NoChip
      /\ comm' = [comm EXCEPT ![c].pc = "unregister"]
  BY DEF ShutdownSim
<1>2. /\ comm' \in [SimChips -> BackendComm]
      /\ comm'[c].pc = "unregister" /\ comm'[c].mode = comm[c].mode /\ comm'[c].handle = comm[c].handle
      /\ \A d \in SimChips : d # c => comm'[d] = comm[d]
  BY <1>1, CommMove DEF CommLabels, Registered
<1>3. comm[c].mode # "none"
  BY <1>1 DEF CommInv, Starting
<1>4. CommInv'
  BY <1>1, <1>2, CommKept DEF CommInv, Starting, LockStep
<1>5. SameModes /\ LibraryMove(c)
  BY <1>1, <1>2 DEF SameModes, LibraryMove, Running
<1>6. image' \in Seq(BackendImage) /\ SharedInv' /\ CopyInv' /\ ImageInv'
  <2>1. CASE comm[c].closed \/ UsesShared(c)
    <3>1. image' = image
      BY <2>1 DEF ShutdownSim
    <3> QED
      BY <1>1, <1>2, <1>5, <3>1, LibraryKept DEF BackendTypes
  <2>2. CASE ~comm[c].closed /\ ~UsesShared(c)
    <3>1. PICK h : h = comm[c].handle
      OBVIOUS
    <3>2. h \in DOMAIN image /\ image \in Seq(BackendImage)
      BY <1>3, <3>1, HandleOpen DEF BackendTypes
    <3>3. Owns(c)
      BY <1>3, <2>2 DEF CopyInv, UsesShared, Owns, BackendTypes, BackendComm
    <3>4. (image[h].load # "joint" => image[h].inits = 1 /\ image[h].exits = 0) /\ h # shared.handle
      BY <1>1, <3>1, <3>3 DEF CopyInv, CopyAt, Running
    <3>5. PICK m \in BackendImage : m = image[h]
      BY <3>2
    <3>6. PICK r \in BackendImage :
            /\ r = [m EXCEPT !.exits = @ + 1, !.running = FALSE]
            /\ r.exits = m.exits + 1 /\ r.inits = m.inits /\ r.by = m.by /\ r.load = m.load /\ r.rehooked = m.rehooked /\ r.hooked = m.hooked
      BY ImageExits
    <3>7. image' = [image EXCEPT ![h] = r]
      BY <2>2, <3>1, <3>2, <3>5, <3>6 DEF ShutdownSim
    <3>8. (m.load # "joint" => m.inits = 1 /\ m.exits = 0 /\ ~m.rehooked) /\ (m.inits > 0 => m.hooked)
      BY <3>2, <3>4, <3>5 DEF ImageInv, ImageOk
    <3>9. r.load # "joint" => r.inits = 1 /\ r.exits = 1
      BY <3>6, <3>8
    <3>10. ImageOk(r) /\ CopyAt("unregister", r) /\ r.by = image[h].by /\ r.load = image[h].load /\ (image[h].hooked => r.hooked)
      BY <3>5, <3>6, <3>8, <3>9 DEF ImageOk, CopyAt, Running
    <3>11. /\ image' \in Seq(BackendImage) /\ DOMAIN image' = DOMAIN image
           /\ \A k \in DOMAIN image : k # h => image'[k] = image[k]
           /\ CopyInv' /\ ImageInv'
      BY <1>1, <1>2, <1>3, <1>5, <3>1, <3>7, <3>10, CopyStep
    <3>12. SharedInv'
      BY <1>1, <1>2, <1>5, <2>2, <3>4, <3>11, SharedOther DEF SharedInv, Starting
    <3> QED
      BY <3>11, <3>12
  <2> QED
    BY <2>1, <2>2
<1>7. BackendTypes'
  BY <1>1, <1>2, <1>6 DEF BackendTypes, dmaState
<1>8. \A d \in SimChips : comm[d].pc \in Registered => comm'[d].pc \in Registered
  BY <1>2 DEF Registered
<1>9. SlotInv'
  <2>1. UsesShared(c) => shared.init
    BY <1>1 DEF SharedInv, Users, Running
  <2> QED
    BY <1>1, <1>2, <1>5, <1>8, <2>1, SlotsKept DEF dmaState
<1>10. DmaInv'
  BY <1>1, <1>2, <1>8, DmaKept DEF dmaState
<1> QED
  BY <1>4, <1>6, <1>7, <1>9, <1>10

(* A user of the shared library changes its image.                         *)
LEMMA SharedStep ==
  ASSUME BackendTypes, SharedInv, NEW c \in SimChips, UsesShared(c),
         SameModes, \A d \in SimChips : d # c => comm'[d] = comm[d],
         shared'.handle = shared.handle, shared'.refs = shared.refs, shared.init => shared'.init,
         NEW r, shared.handle \in DOMAIN image', image'[shared.handle] = r,
         r.by # {}, r.load = "shared", r.exits = 0, image[shared.handle].hooked => r.hooked,
         shared'.init => r.inits = 1 /\ r.running,
         ~shared'.init => r.inits = 0 /\ ~r.running,
         comm'[c].pc \in Running => shared'.init,
         comm'[c].pc = "hooked" => r.hooked,
         comm[c].pc = "hooked" => comm'[c].pc = "hooked" \/ shared'.init,
         comm'[c].pc \in {"unregister", "release"} => shared'.init \/ \E d \in Users : comm'[d].pc = "hooked"
  PROVE  SharedInv'
<1>1. Users' = Users
  BY SameUsers
<1>2. c \in Users /\ Users \subseteq SimChips
  BY DEF Users
<1>3. \A d \in Users : comm'[d].handle = shared'.handle
  BY <1>2 DEF SharedInv, SameModes
<1>4. \A d \in Users : comm'[d].pc \in Running => shared'.init
  BY <1>2 DEF SharedInv
<1>5. \A d \in Users : comm'[d].pc = "hooked" => r.hooked
  BY <1>2 DEF SharedInv
<1>6. \A d \in Users : comm'[d].pc \in {"unregister", "release"} => shared'.init \/ \E e \in Users : comm'[e].pc = "hooked"
  <2>1. ASSUME NEW d \in Users, d # c, comm'[d].pc \in {"unregister", "release"}, ~shared'.init
        PROVE  \E e \in Users : comm'[e].pc = "hooked"
    <3>1. comm[d].pc \in {"unregister", "release"} /\ ~shared.init
      BY <1>2, <2>1
    <3>2. PICK e \in Users : comm[e].pc = "hooked"
      BY <3>1 DEF SharedInv
    <3> QED
      BY <1>2, <2>1, <3>2
  <2> QED
    BY <2>1
<1>7. shared.handle # 0
  BY <1>2 DEF SharedInv
<1>8. shared'.refs = Cardinality(Users)
  BY DEF SharedInv
<1> QED
  BY <1>1, <1>2, <1>3, <1>4, <1>5, <1>6, <1>7, <1>8 DEF SharedInv, Loaded

(* One that has committed has what is said of its image.                   *)
LEMMA HandleIs ==
  ASSUME BackendInv, NEW c \in SimChips, comm[c].mode # "none"
  PROVE  \E m \in BackendImage :
           /\ m = image[comm[c].handle] /\ comm[c].handle \in DOMAIN image /\ image \in Seq(BackendImage) /\ m.by # {} /\ ImageOk(m)
           /\ UsesShared(c) => comm[c].handle = shared.handle /\ m.exits = 0 /\ m.load = "shared"
           /\ UsesShared(c) => (shared.init => m.inits = 1 /\ m.running) /\ (~shared.init => m.inits = 0 /\ ~m.running)
           /\ ~UsesShared(c) => Owns(c) /\ comm[c].handle # shared.handle /\ CopyAt(comm[c].pc, m)
<1> USE DEF BackendInv
<1>1. comm[c].handle \in DOMAIN image /\ image[comm[c].handle].by # {} /\ image \in Seq(BackendImage)
  BY HandleOpen DEF BackendTypes
<1>2. PICK m \in BackendImage : m = image[comm[c].handle]
  BY <1>1
<1>3. m.by # {} /\ ImageOk(m)
  BY <1>1, <1>2 DEF ImageInv
<1>4. ASSUME UsesShared(c)
      PROVE  /\ comm[c].handle = shared.handle /\ m.exits = 0 /\ m.load = "shared"
             /\ shared.init => m.inits = 1 /\ m.running
             /\ ~shared.init => m.inits = 0 /\ ~m.running
  <2>1. comm[c].handle = shared.handle /\ shared.handle # 0
    BY <1>4 DEF SharedInv, Users
  <2> QED
    BY <1>2, <2>1 DEF SharedInv
<1>5. ASSUME ~UsesShared(c) PROVE Owns(c) /\ comm[c].handle # shared.handle /\ CopyAt(comm[c].pc, m)
  <2>1. Owns(c)
    BY <1>5 DEF CopyInv, UsesShared, Owns, BackendTypes, BackendComm
  <2> QED
    BY <1>2, <2>1 DEF CopyInv
<1> QED
  BY <1>1, <1>2, <1>3, <1>4, <1>5

LEMMA ConfigureIatuInv ==
  ASSUME BackendInv, NEW c \in SimChips, ConfigureIatu(c)
  PROVE  BackendInv'
<1> USE DEF BackendInv
<1>1. UNCHANGED <<scene, shared, deviceLock, dmaState>> /\ comm[c].pc = "started" /\ deviceLock = NoChip
  BY DEF ConfigureIatu
<1>2. PICK l \in {"unregister", "up"} :
        /\ comm' = [comm EXCEPT ![c].pc = l]
        /\ l = "unregister" => image' = image
        /\ l = "up" => image' = OnImage(comm[c].handle, "iatu", image[comm[c].handle].iatu \cup {c})
  BY DEF ConfigureIatu
<1>3. /\ comm' \in [SimChips -> BackendComm]
      /\ comm'[c].pc = l /\ comm'[c].mode = comm[c].mode /\ comm'[c].handle = comm[c].handle
      /\ \A d \in SimChips : d # c => comm'[d] = comm[d]
  BY <1>2, CommMove DEF CommLabels, Registered, Running
<1>4. comm[c].mode # "none"
  BY <1>1 DEF CommInv, Starting
<1>5. CommInv'
  BY <1>1, <1>3, <1>4, CommKept DEF CommInv, Starting, LockStep
<1>6. SameModes /\ LibraryMove(c)
  BY <1>1, <1>3 DEF SameModes, LibraryMove, Running
<1>7. UsesShared(c) => shared.init
  BY <1>1 DEF SharedInv, Users, Running
<1>8. image' \in Seq(BackendImage) /\ SharedInv' /\ CopyInv' /\ ImageInv'
  <2>1. CASE l = "unregister"
    BY <1>1, <1>2, <1>3, <1>6, <2>1, LibraryKept DEF BackendTypes
  <2>2. CASE l = "up"
    <3>1. PICK h : h = comm[c].handle
      OBVIOUS
    <3>2. PICK m \in BackendImage :
           /\ m = image[h] /\ h \in DOMAIN image /\ image \in Seq(BackendImage) /\ m.by # {} /\ ImageOk(m)
           /\ UsesShared(c) => h = shared.handle /\ m.exits = 0 /\ m.load = "shared" /\ m.inits = 1 /\ m.running
           /\ ~UsesShared(c) => Owns(c) /\ h # shared.handle /\ CopyAt("started", m)
      BY <1>1, <1>4, <1>7, <3>1, HandleIs
    <3>3. PICK r \in BackendImage :
            /\ r = [m EXCEPT !.iatu = m.iatu \cup {c}]
            /\ r.inits = m.inits /\ r.exits = m.exits /\ r.running = m.running /\ r.by = m.by /\ r.load = m.load /\ r.rehooked = m.rehooked /\ r.hooked = m.hooked
      BY ImageIatu
    <3>4. image' = [image EXCEPT ![h] = r]
      BY <1>2, <2>2, <3>1, <3>2, <3>3 DEF OnImage
    <3>5. /\ ImageOk(r) /\ (~UsesShared(c) => CopyAt("up", r))
          /\ r.by = image[h].by /\ r.load = image[h].load /\ (image[h].hooked => r.hooked)
      BY <3>2, <3>3 DEF ImageOk, CopyAt, Running
    <3>6. /\ image' \in Seq(BackendImage) /\ DOMAIN image' = DOMAIN image /\ image'[h] = r
          /\ \A k \in DOMAIN image : k # h => image'[k] = image[k]
          /\ CopyInv' /\ ImageInv'
      BY <1>1, <1>3, <1>4, <1>6, <2>2, <3>1, <3>4, <3>5, CopyStep
    <3>7. CASE UsesShared(c)
      <4>1. h = shared.handle /\ r.by # {} /\ r.load = "shared" /\ r.exits = 0 /\ r.inits = 1 /\ r.running /\ r.hooked = image[h].hooked
        BY <3>2, <3>3, <3>7
      <4>2. SharedInv'
        BY <1>1, <1>3, <1>6, <1>7, <2>2, <3>2, <3>5, <3>6, <3>7, <4>1, SharedStep
      <4> QED
        BY <3>6, <4>2
    <3>8. CASE ~UsesShared(c)
      <4>1. SharedInv'
        BY <1>1, <1>3, <1>6, <3>2, <3>6, <3>8, SharedOther DEF SharedInv, Starting
      <4> QED
        BY <3>6, <4>1
    <3> QED
      BY <3>7, <3>8
  <2> QED
    BY <2>1, <2>2
<1>9. BackendTypes'
  BY <1>1, <1>3, <1>8 DEF BackendTypes, dmaState
<1>10. \A d \in SimChips : comm[d].pc \in Registered => comm'[d].pc \in Registered
  BY <1>3 DEF Registered, Running
<1>11. SlotInv'
  BY <1>1, <1>3, <1>6, <1>7, <1>10, SlotsKept DEF dmaState
<1>12. DmaInv'
  BY <1>1, <1>3, <1>10, DmaKept DEF dmaState
<1> QED
  BY <1>5, <1>8, <1>9, <1>11, <1>12

LEMMA StartSimInv ==
  ASSUME BackendInv, NEW c \in SimChips, StartSim(c)
  PROVE  BackendInv'
<1> USE DEF BackendInv
<1>1. /\ UNCHANGED <<scene, deviceLock, dmaState>> /\ comm[c].pc = "hooked" /\ deviceLock = NoChip
      /\ comm' = [comm EXCEPT ![c].pc = "started"]
  BY DEF StartSim
<1>2. /\ comm' \in [SimChips -> BackendComm]
      /\ comm'[c].pc = "started" /\ comm'[c].mode = comm[c].mode /\ comm'[c].handle = comm[c].handle
      /\ \A d \in SimChips : d # c => comm'[d] = comm[d]
  BY <1>1, CommMove DEF CommLabels, Registered, Running
<1>3. comm[c].mode # "none"
  BY <1>1 DEF CommInv, Starting
<1>4. CommInv'
  BY <1>1, <1>2, <1>3, CommKept DEF CommInv, Starting, LockStep
<1>5. SameModes
  BY <1>2 DEF SameModes
<1>6. /\ shared' \in [handle : Nat, refs : Int, init : BOOLEAN] /\ shared'.handle = shared.handle /\ shared'.refs = shared.refs
      /\ UsesShared(c) => shared'.init
      /\ ~UsesShared(c) => shared' = shared
  BY DEF StartSim, BackendTypes
<1>7. PICK h : h = comm[c].handle
  OBVIOUS
<1>8. PICK m \in BackendImage :
        /\ m = image[h] /\ h \in DOMAIN image /\ image \in Seq(BackendImage) /\ m.by # {} /\ ImageOk(m)
        /\ UsesShared(c) => h = shared.handle /\ m.exits = 0 /\ m.load = "shared"
        /\ UsesShared(c) => (shared.init => m.inits = 1 /\ m.running) /\ (~shared.init => m.inits = 0 /\ ~m.running)
        /\ ~UsesShared(c) => Owns(c) /\ h # shared.handle /\ CopyAt("hooked", m)
  BY <1>1, <1>3, <1>7, HandleIs
<1>9. m.hooked
  BY <1>1, <1>8 DEF CopyAt, SharedInv, Users
<1>10. PICK r \in BackendImage :
         /\ image' = [image EXCEPT ![h] = r]
         /\ r.load # "joint" => r.inits = 1 /\ r.exits = 0 /\ r.running /\ ~r.rehooked
         /\ r.hooked /\ r.by = m.by /\ r.load = m.load
  <2>1. CASE UsesShared(c) /\ shared.init
    <3>1. image' = image
      BY <2>1 DEF StartSim, Started
    <3>2. image' = [image EXCEPT ![h] = m]
      BY <1>8, <3>1
    <3> QED
      BY <1>8, <1>9, <2>1, <3>2 DEF ImageOk
  <2>2. CASE ~(UsesShared(c) /\ shared.init)
    <3>1. PICK r \in BackendImage :
            /\ r = [m EXCEPT !.running = TRUE, !.inits = @ + 1]
            /\ r.inits = m.inits + 1 /\ r.exits = m.exits /\ r.running /\ r.by = m.by /\ r.load = m.load /\ r.rehooked = m.rehooked /\ r.hooked = m.hooked
      BY ImageInits
    <3>2. image' = [image EXCEPT ![h] = r]
      BY <1>7, <1>8, <2>2, <3>1 DEF StartSim, Started
    <3>3. m.load # "joint" => m.inits = 0 /\ m.exits = 0
      BY <1>8, <2>2 DEF CopyAt
    <3>4. (r.load # "joint" => r.inits = 1 /\ r.exits = 0 /\ r.running /\ ~r.rehooked) /\ r.hooked /\ r.by = m.by /\ r.load = m.load
      BY <1>8, <1>9, <3>1, <3>3 DEF ImageOk
    <3> QED
      BY ONLY <3>2, <3>4, r \in BackendImage
  <2> QED
    BY <2>1, <2>2
<1>11. ImageOk(r) /\ CopyAt("started", r)
  BY <1>10 DEF ImageOk, CopyAt, Running
<1>12. /\ image' \in Seq(BackendImage) /\ DOMAIN image' = DOMAIN image /\ image'[h] = r
       /\ \A k \in DOMAIN image : k # h => image'[k] = image[k]
       /\ CopyInv' /\ ImageInv'
  BY <1>1, <1>2, <1>3, <1>5, <1>6, <1>7, <1>8, <1>10, <1>11, CopyStep, ZenonT(60)
<1>13. SharedInv'
  <2>1. CASE UsesShared(c)
    BY <1>2, <1>5, <1>6, <1>8, <1>10, <1>12, <2>1, SharedStep
  <2>2. CASE ~UsesShared(c)
    BY <1>1, <1>2, <1>5, <1>6, <1>8, <1>12, <2>2, SharedOther DEF SharedInv, Starting
  <2> QED
    BY <2>1, <2>2
<1>14. BackendTypes'
  BY <1>1, <1>2, <1>6, <1>12 DEF BackendTypes, dmaState
<1>15. \A d \in SimChips : comm[d].pc \in Registered => comm'[d].pc \in Registered
  BY <1>2 DEF Registered, Running
<1>16. SlotInv'
  <2>1. shared'.init \/ ~shared.init
    BY <1>6
  <2> QED
    BY <1>1, <1>2, <1>5, <1>15, <2>1, SlotsKept DEF dmaState
<1>17. DmaInv'
  BY <1>1, <1>2, <1>15, DmaKept DEF dmaState
<1> QED
  BY <1>4, <1>12, <1>13, <1>14, <1>16, <1>17

LEMMA SetCallbacksInv ==
  ASSUME BackendInv, NEW c \in SimChips, SetCallbacks(c)
  PROVE  BackendInv'
<1> USE DEF BackendInv
<1>1. /\ UNCHANGED <<scene, shared, deviceLock, dma, torn>> /\ comm[c].pc = "ready" /\ deviceLock = NoChip
      /\ callbackInstance' = Inst(c)
  BY DEF SetCallbacks
<1>2. PICK full \in BOOLEAN :
        /\ full <=> scene.windows /\ Len(dmaRanges) = MaxDmaDevices
        /\ comm' = [comm EXCEPT ![c].pc = IF full THEN "unregister" ELSE "hooked"]
        /\ dmaRanges' = IF scene.windows /\ ~full THEN Append(dmaRanges, Inst(c)) ELSE dmaRanges
        /\ image' = IF full \/ (UsesShared(c) /\ shared.init) THEN image
                    ELSE [image EXCEPT ![comm[c].handle].hooked = TRUE, ![comm[c].handle].rehooked = image[comm[c].handle].running]
  <2>1. PICK full \in BOOLEAN : full = (scene.windows /\ Len(dmaRanges) = MaxDmaDevices)
    OBVIOUS
  <2> QED
    BY <2>1, Zenon DEF SetCallbacks
<1>3. PICK l \in {"unregister", "hooked"} : comm' = [comm EXCEPT ![c].pc = l] /\ (full <=> l = "unregister")
  BY <1>2
<1>4. /\ comm' \in [SimChips -> BackendComm]
      /\ comm'[c].pc = l /\ comm'[c].mode = comm[c].mode /\ comm'[c].handle = comm[c].handle
      /\ \A d \in SimChips : d # c => comm'[d] = comm[d]
  BY <1>3, CommMove DEF CommLabels, Registered
<1>5. comm[c].mode # "none"
  BY <1>1 DEF CommInv, Starting
<1>6. CommInv'
  BY <1>1, <1>4, <1>5, CommKept DEF CommInv, Starting, LockStep
<1>7. SameModes
  BY <1>4 DEF SameModes
<1>8. PICK h : h = comm[c].handle
  OBVIOUS
<1>9. PICK m \in BackendImage :
        /\ m = image[h] /\ h \in DOMAIN image /\ image \in Seq(BackendImage) /\ m.by # {} /\ ImageOk(m)
        /\ UsesShared(c) => h = shared.handle /\ m.exits = 0 /\ m.load = "shared"
        /\ UsesShared(c) => (shared.init => m.inits = 1 /\ m.running) /\ (~shared.init => m.inits = 0 /\ ~m.running)
        /\ ~UsesShared(c) => Owns(c) /\ h # shared.handle /\ CopyAt("ready", m)
  BY <1>1, <1>5, <1>8, HandleIs
<1>10. PICK r \in BackendImage :
         /\ image' = [image EXCEPT ![h] = r]
         /\ r.inits = m.inits /\ r.exits = m.exits /\ r.running = m.running /\ (r.load # "joint" => ~r.rehooked) /\ (m.hooked => r.hooked)
         /\ r.by = m.by /\ r.load = m.load
         /\ ~full => r.hooked
  <2>1. CASE full \/ (UsesShared(c) /\ shared.init)
    <3>1. image' = image
      BY <1>2, <2>1
    <3>2. image' = [image EXCEPT ![h] = m]
      BY <1>9, <3>1
    <3>3. (m.load # "joint" => ~m.rehooked) /\ (~full => m.hooked)
      BY <1>9, <2>1 DEF ImageOk
    <3> QED
      BY ONLY <3>2, <3>3, m \in BackendImage
  <2>2. CASE ~(full \/ (UsesShared(c) /\ shared.init))
    <3>1. PICK r \in BackendImage :
            /\ r = [m EXCEPT !.hooked = TRUE, !.rehooked = m.running]
            /\ r.inits = m.inits /\ r.exits = m.exits /\ r.running = m.running /\ r.by = m.by /\ r.load = m.load /\ r.rehooked = m.running /\ r.hooked
      BY ImageHooks
    <3>2. image' = [image EXCEPT ![h] = r]
      BY <1>2, <1>8, <1>9, <2>2, <3>1
    <3>3. (r.load # "joint" => ~r.rehooked) /\ r.hooked
      BY <1>9, <2>2, <3>1 DEF CopyAt
    <3> QED
      BY ONLY <3>1, <3>2, <3>3, r \in BackendImage
  <2> QED
    BY <2>1, <2>2
<1>11. ImageOk(r) /\ (~UsesShared(c) => CopyAt(l, r))
  BY <1>3, <1>9, <1>10 DEF ImageOk, CopyAt, Running
<1>12. /\ image' \in Seq(BackendImage) /\ DOMAIN image' = DOMAIN image /\ image'[h] = r
       /\ \A k \in DOMAIN image : k # h => image'[k] = image[k]
       /\ CopyInv' /\ ImageInv'
  BY <1>1, <1>4, <1>5, <1>7, <1>8, <1>9, <1>10, <1>11, CopyStep
<1>13. ASSUME full, UsesShared(c) PROVE shared.init \/ \E d \in Users : comm'[d].pc = "hooked"
  <2>1. 1 \in DOMAIN dmaRanges
    BY <1>2, <1>13, BackendBounds DEF BackendTypes
  <2>2. PICK d \in SimChips : d = dmaRanges[1].chip /\ comm[d].pc \in Registered /\ comm[d].mode # "none" /\ (comm[d].pc = "unregister" /\ UsesShared(d) => shared.init)
    BY <2>1 DEF SlotInv, LiveInst
  <2>3. UsesShared(d) /\ d \in Users
    BY <1>5, <1>13, <2>2 DEF CommInv, UsesShared, Users
  <2>4. comm[d].pc = "hooked" => comm'[d].pc = "hooked"
    BY <1>1, <1>4
  <2> QED
    BY <2>2, <2>3, <2>4 DEF SharedInv, Registered
<1>14. SharedInv'
  <2>1. CASE UsesShared(c)
    BY <1>1, <1>3, <1>4, <1>7, <1>9, <1>10, <1>12, <1>13, <2>1, SharedStep DEF Running
  <2>2. CASE ~UsesShared(c)
    BY <1>1, <1>4, <1>7, <1>9, <1>12, <2>2, SharedOther DEF SharedInv, Starting
  <2> QED
    BY <2>1, <2>2
<1>15. PICK i \in Instance : i = Inst(c) /\ i.chip = c
  <2>1. PICK v \in Int : v = scene.lives[c]
    BY DEF BackendTypes, BackendScene
  <2>2. [chip |-> c, life |-> v] \in Instance
    BY DEF Instance
  <2> QED
    BY <2>1, <2>2 DEF Inst
<1>16. i # NoInst
  BY <1>15, BackendBounds DEF NoInst
<1>17. /\ dmaRanges' \in Seq(Instance) /\ DOMAIN dmaRanges \subseteq DOMAIN dmaRanges'
       /\ \A k \in DOMAIN dmaRanges : dmaRanges'[k] = dmaRanges[k]
       /\ \A k \in DOMAIN dmaRanges' \ DOMAIN dmaRanges : dmaRanges'[k] = i /\ k = Len(dmaRanges) + 1 /\ l = "hooked"
  <2>1. dmaRanges \in Seq(Instance)
    BY DEF BackendTypes
  <2>2. dmaRanges' = dmaRanges \/ (dmaRanges' = Append(dmaRanges, i) /\ l = "hooked")
    BY <1>2, <1>3, <1>15
  <2> QED
    BY ONLY <2>1, <2>2, i \in Instance
<1>18. BackendTypes'
  BY <1>1, <1>4, <1>12, <1>15, <1>17 DEF BackendTypes
<1>19. \A d \in SimChips : comm[d].pc \in Registered => comm'[d].pc \in Registered
  BY <1>1, <1>4 DEF Registered, Running
<1>20. LiveInst(i)'
  BY <1>1, <1>3, <1>4, <1>15 DEF LiveInst, Inst, Registered
<1>21. \A k \in DOMAIN dmaRanges : LiveInst(dmaRanges[k])' /\ dmaRanges[k].chip # c /\ dmaRanges[k].chip \in SimChips
  <2>1. \A k \in DOMAIN dmaRanges : LiveInst(dmaRanges[k])
    BY DEF SlotInv
  <2>2. ASSUME NEW j, LiveInst(j) PROVE LiveInst(j)' /\ j.chip # c /\ j.chip \in SimChips
    BY <1>1, <1>19, <2>2, LiveKept DEF LiveInst, Registered, Running
  <2>3. ASSUME NEW k \in DOMAIN dmaRanges PROVE LiveInst(dmaRanges[k])' /\ dmaRanges[k].chip # c /\ dmaRanges[k].chip \in SimChips
    <3>1. PICK j : j = dmaRanges[k]
      OBVIOUS
    <3>2. LiveInst(j)
      BY <2>1, <3>1
    <3>3. dmaRanges'[k] = j
      BY <1>17, <3>1
    <3> QED
      BY <2>2, <3>1, <3>2, <3>3 DEF LiveInst, Inst
  <2> QED
    BY <2>3
<1>22. SlotInv'
  <2>1. ASSUME NEW k \in DOMAIN dmaRanges'
        PROVE  /\ LiveInst(dmaRanges[k])' /\ comm'[dmaRanges'[k].chip].mode # "none"
               /\ comm'[dmaRanges'[k].chip].pc = "unregister" /\ UsesShared(dmaRanges[k].chip)' => shared'.init
    <3>1. CASE k \in DOMAIN dmaRanges
      <4>1. PICK j : j = dmaRanges[k] /\ dmaRanges'[k] = j /\ j.chip # c /\ j.chip \in SimChips
        BY <1>17, <1>21, <3>1
      <4>2. comm'[j.chip] = comm[j.chip] /\ UsesShared(j.chip)' = UsesShared(j.chip) /\ UsesShared(dmaRanges[k].chip)' = UsesShared(j.chip)'
        BY <1>4, <4>1 DEF UsesShared
      <4> QED
        BY <1>1, <1>21, <3>1, <4>1, <4>2 DEF SlotInv
    <3>2. CASE k \notin DOMAIN dmaRanges
      <4>1. dmaRanges'[k] = i /\ l = "hooked"
        BY <1>17, <3>2
      <4>2. LiveInst(dmaRanges[k])'
        BY <1>20, <4>1 DEF LiveInst, Inst
      <4> QED
        BY <1>4, <1>5, <1>15, <4>1, <4>2
    <3> QED
      BY <3>1, <3>2
  <2>2. ASSUME NEW j \in DOMAIN dmaRanges', NEW k \in DOMAIN dmaRanges', dmaRanges'[j].chip = dmaRanges'[k].chip PROVE j = k
    BY <1>15, <1>17, <1>21, <2>2 DEF SlotInv
  <2>3. LiveInst(callbackInstance)'
    BY <1>1, <1>15, <1>20 DEF LiveInst, Inst
  <2> QED
    BY <2>1, <2>2, <2>3 DEF SlotInv
<1>23. DmaInv'
  <2>1. dma.from = NoChip
    BY <1>1, BackendBounds DEF DmaInv, CommInv
  <2> QED
    BY <1>1, <2>1 DEF DmaInv, NoInst
<1> QED
  BY <1>6, <1>12, <1>14, <1>18, <1>22, <1>23

(* Compacting the table takes the window away and keeps every other one.   *)
LEMMA CompactedIs ==
  ASSUME NEW T, dmaRanges \in Seq(T), NEW i \in DOMAIN dmaRanges
  PROVE  /\ Compacted(i) \in Seq(T) /\ Len(Compacted(i)) = Len(dmaRanges) - 1
         /\ \A k \in DOMAIN Compacted(i) :
              /\ k = i => Compacted(i)[k] = dmaRanges[Len(dmaRanges)] /\ Len(dmaRanges) \in DOMAIN dmaRanges /\ Len(dmaRanges) # i
              /\ k # i => Compacted(i)[k] = dmaRanges[k] /\ k \in DOMAIN dmaRanges
              /\ k < Len(dmaRanges)
<1> DEFINE n == Len(dmaRanges)
           e == [dmaRanges EXCEPT ![i] = dmaRanges[n]]
<1>1. n \in Nat /\ n >= 1 /\ DOMAIN dmaRanges = 1 .. n /\ i \in 1 .. n /\ dmaRanges[n] \in T
  OBVIOUS
<1>2. e \in Seq(T) /\ Len(e) = n /\ \A k \in 1 .. n : e[k] = IF k = i THEN dmaRanges[n] ELSE dmaRanges[k]
  BY <1>1
<1> HIDE DEF n, e
<1>3. SubSeq(e, 1, n - 1) \in Seq(T) /\ Len(SubSeq(e, 1, n - 1)) = n - 1 /\ \A k \in 1 .. n - 1 : SubSeq(e, 1, n - 1)[k] = e[k]
  BY ONLY <1>1, <1>2
<1>4. PICK q : q = SubSeq(e, 1, n - 1)
  OBVIOUS
<1>5. q \in Seq(T) /\ Len(q) = n - 1 /\ DOMAIN q = 1 .. n - 1 /\ \A k \in 1 .. n - 1 : q[k] = e[k]
  BY ONLY <1>1, <1>3, <1>4
<1>6. Compacted(i) = q
  BY <1>4 DEF Compacted, n, e
<1>7. \A k \in 1 .. n - 1 :
        /\ k = i => q[k] = dmaRanges[n] /\ n \in 1 .. n /\ n # i
        /\ k # i => q[k] = dmaRanges[k] /\ k \in 1 .. n
        /\ k < n
  BY ONLY <1>1, <1>2, <1>5
<1> QED
  BY ONLY <1>1, <1>5, <1>6, <1>7 DEF n

LEMMA UnregisterInv ==
  ASSUME BackendInv, NEW c \in SimChips, Unregister(c)
  PROVE  BackendInv'
<1> USE DEF BackendInv
<1>1. /\ UNCHANGED <<scene, shared, deviceLock, image, dma>> /\ comm[c].pc = "unregister"
      /\ comm' = [comm EXCEPT ![c].pc = "release"]
      /\ callbackInstance' = IF callbackInstance = Inst(c) THEN NoInst ELSE callbackInstance
      /\ torn' = (torn \/ dma.to = Inst(c))
  BY DEF Unregister
<1>2. /\ comm' \in [SimChips -> BackendComm]
      /\ comm'[c].pc = "release" /\ comm'[c].mode = comm[c].mode /\ comm'[c].handle = comm[c].handle
      /\ \A d \in SimChips : d # c => comm'[d] = comm[d]
  BY <1>1, CommMove DEF CommLabels
<1>3. CommInv'
  BY <1>1, <1>2, CommKept DEF CommInv, Starting, LockStep
<1>4. SameModes /\ LibraryMove(c)
  BY <1>1, <1>2 DEF SameModes, LibraryMove
<1>5. SharedInv' /\ CopyInv' /\ ImageInv'
  BY <1>1, <1>2, <1>4, LibraryKept
<1>6. dmaRanges \in Seq(Instance) /\ \A k \in DOMAIN dmaRanges : dmaRanges[k] = Inst(dmaRanges[k].chip)
  BY DEF BackendTypes, SlotInv, LiveInst
<1>7. \A k \in DOMAIN dmaRanges : dmaRanges[k].chip = c => k \in Slots(c)
  BY <1>6 DEF Slots, Inst
<1>8. /\ dmaRanges' \in Seq(Instance)
      /\ \A k \in DOMAIN dmaRanges' : \E j \in DOMAIN dmaRanges : dmaRanges'[k] = dmaRanges[j] /\ dmaRanges[j].chip # c
      /\ \A k, j \in DOMAIN dmaRanges' : dmaRanges'[k].chip = dmaRanges'[j].chip => k = j
  <2>1. CASE Slots(c) = {} /\ dmaRanges' = dmaRanges
    BY <1>6, <1>7, <2>1 DEF SlotInv
  <2>2. CASE \E i \in Slots(c) : dmaRanges' = Compacted(i)
    <3>1. PICK i \in DOMAIN dmaRanges : dmaRanges[i].chip = c /\ dmaRanges' = Compacted(i)
      BY <2>2 DEF Slots
    <3>2. PICK q : q = Compacted(i)
      OBVIOUS
    <3>3. PICK n \in Nat : n = Len(dmaRanges)
      BY <1>6
    <3>4. /\ q \in Seq(Instance)
          /\ \A k \in DOMAIN q :
              /\ k = i => q[k] = dmaRanges[n] /\ n \in DOMAIN dmaRanges /\ n # i
              /\ k # i => q[k] = dmaRanges[k] /\ k \in DOMAIN dmaRanges
              /\ k < n
      BY <1>6, <3>2, <3>3, CompactedIs
    <3>5. \A k, j \in DOMAIN dmaRanges : dmaRanges[k].chip = dmaRanges[j].chip => k = j
      BY DEF SlotInv
    <3>6. \A k \in DOMAIN q : \E j \in DOMAIN dmaRanges : q[k] = dmaRanges[j] /\ dmaRanges[j].chip # c
      BY <3>1, <3>4, <3>5
    <3>7. \A k, j \in DOMAIN q : q[k].chip = q[j].chip => k = j
      <4>1. ASSUME NEW k \in DOMAIN q, NEW j \in DOMAIN q, q[k].chip = q[j].chip, k = i, j # i PROVE FALSE
        <5>1. n = j
          BY <3>4, <3>5, <4>1
        <5> QED
          BY <3>4, <5>1
      <4>2. ASSUME NEW k \in DOMAIN q, NEW j \in DOMAIN q, q[k].chip = q[j].chip, k # i, j # i PROVE k = j
        BY <3>4, <3>5, <4>2
      <4> QED
        BY <4>1, <4>2
    <3>8. dmaRanges' = q
      BY <3>1, <3>2
    <3> QED
      BY <3>4, <3>6, <3>7, <3>8
  <2> QED
    BY <2>1, <2>2 DEF Unregister
<1>9. BackendTypes'
  <2>1. NoInst \in Instance
    BY DEF NoInst, Instance
  <2> QED
    BY <1>1, <1>2, <1>8, <2>1 DEF BackendTypes
<1>10. ASSUME NEW j, LiveInst(j), j # Inst(c)
       PROVE  LiveInst(j)' /\ j.chip # c
  <2>1. j.chip # c /\ j.chip \in SimChips
    BY <1>10 DEF LiveInst
  <2> QED
    BY <1>1, <1>2, <1>10, <2>1 DEF LiveInst, Inst
<1>11. ASSUME NEW k \in DOMAIN dmaRanges'
       PROVE  /\ LiveInst(dmaRanges[k])' /\ comm'[dmaRanges'[k].chip].mode # "none"
              /\ comm'[dmaRanges'[k].chip].pc = "unregister" /\ UsesShared(dmaRanges[k].chip)' => shared'.init
  <2>1. PICK j \in DOMAIN dmaRanges : dmaRanges'[k] = dmaRanges[j] /\ dmaRanges[j].chip # c
    BY <1>8
  <2>2. PICK x : x = dmaRanges[j] /\ x = dmaRanges'[k]
    BY <2>1
  <2>3. LiveInst(x) /\ x # Inst(c) /\ x.chip \in SimChips /\ x.chip # c
    BY <2>1, <2>2 DEF SlotInv, LiveInst, Inst
  <2>4. LiveInst(x)' /\ comm'[x.chip] = comm[x.chip] /\ UsesShared(x.chip)' = UsesShared(x.chip)
    BY <1>2, <1>10, <2>3 DEF UsesShared
  <2>5. comm[x.chip].mode # "none" /\ (comm[x.chip].pc = "unregister" /\ UsesShared(x.chip) => shared.init)
    BY <2>2 DEF SlotInv
  <2>6. LiveInst(dmaRanges[k])' /\ UsesShared(dmaRanges[k].chip)' = UsesShared(x.chip)'
    BY <2>2, <2>4 DEF LiveInst, Inst, UsesShared
  <2> QED
    BY <1>1, <2>2, <2>4, <2>5, <2>6
<1>12. callbackInstance' # NoInst => LiveInst(callbackInstance)'
  <2>1. ASSUME callbackInstance' # NoInst PROVE LiveInst(callbackInstance)'
    <3>1. PICK x : x = callbackInstance /\ x = callbackInstance' /\ x # Inst(c) /\ x # NoInst
      BY <1>1, <2>1
    <3>2. LiveInst(x)'
      BY <1>10, <3>1 DEF SlotInv
    <3> QED
      BY <3>1, <3>2 DEF LiveInst, Inst
  <2> QED
    BY <2>1
<1>13. SlotInv'
  BY <1>8, <1>11, <1>12 DEF SlotInv, NoInst
<1>14. dma'.to # NoInst /\ ~torn' => LiveInst(dma.to)'
  <2>1. ASSUME dma'.to # NoInst, ~torn' PROVE LiveInst(dma.to)'
    <3>1. PICK x : x = dma.to /\ x = dma'.to /\ x # Inst(c) /\ x # NoInst
      BY <1>1, <2>1
    <3>2. LiveInst(x)'
      BY <1>1, <1>10, <2>1, <3>1 DEF DmaInv
    <3> QED
      BY <3>1, <3>2 DEF LiveInst, Inst
  <2> QED
    BY <2>1
<1>15. ASSUME dma.from # NoChip, dma.off < Channels, Slots(dma.from)' # {} PROVE dma'.to = Inst(dma.from)' /\ dma'.at = dma'.off
  <2>1. PICK k \in DOMAIN dmaRanges' : dmaRanges'[k].chip = dma.from /\ dmaRanges'[k].life = scene.lives[dma.from]
    BY <1>1, <1>15 DEF Slots
  <2>2. PICK j \in DOMAIN dmaRanges : dmaRanges'[k] = dmaRanges[j]
    BY <1>8
  <2>3. Slots(dma.from) # {}
    BY <2>1, <2>2 DEF Slots
  <2> QED
    BY <1>1, <1>15, <2>3 DEF DmaInv, Inst
<1>16. dma'.from # NoChip => \E d \in SimChips : comm'[d].pc = "routed"
  BY <1>1, <1>2 DEF DmaInv
<1>17. DmaInv'
  BY <1>1, <1>14, <1>15, <1>16 DEF DmaInv, NoInst
<1> QED
  BY <1>3, <1>5, <1>9, <1>13, <1>17

(* The handles in use are of libraries that were opened.                   *)
LEMMA HandlesOpened ==
  ASSUME BackendTypes, SharedInv, CopyInv, NEW d \in SimChips
  PROVE  comm[d].handle = 0 \/ comm[d].handle \in DOMAIN image
<1>1. CASE UsesShared(d)
  BY <1>1 DEF SharedInv, Users
<1>2. CASE ~UsesShared(d)
  BY <1>2 DEF CopyInv, Owns
<1> QED
  BY <1>1, <1>2

(* dlopen() gives a new handle, of a library that was told nothing.        *)
FreshImage(r, who, load) ==
  /\ r.by = {who} /\ r.load = load /\ r.inits = 0 /\ r.exits = 0 /\ ~r.running /\ ~r.rehooked

LEMMA Dlopened ==
  ASSUME BackendTypes, NEW who \in SimChips \cup {NoChip}, NEW load \in {"shared", "copy", "sole", "joint"},
         image' = Dlopen(who, load), NEW n, n = Len(image) + 1
  PROVE  /\ image' \in Seq(BackendImage) /\ n \in Nat /\ n # 0 /\ n \notin DOMAIN image /\ DOMAIN image' = DOMAIN image \cup {n}
         /\ \A k \in DOMAIN image : image'[k] = image[k]
         /\ FreshImage(image'[n], who, load)
<1> DEFINE r == [by |-> {who}, load |-> load, inits |-> 0, exits |-> 0, running |-> FALSE, hooked |-> FALSE, rehooked |-> FALSE, iatu |-> {}]
<1>1. r \in BackendImage /\ image \in Seq(BackendImage) /\ image' = Append(image, r)
  BY DEF BackendImage, BackendTypes, Dlopen
<1>2. FreshImage(r, who, load)
  BY DEF FreshImage
<1> HIDE DEF r
<1>3. /\ image' \in Seq(BackendImage) /\ n \in Nat /\ n # 0 /\ n \notin DOMAIN image /\ DOMAIN image' = DOMAIN image \cup {n}
      /\ \A k \in DOMAIN image : image'[k] = image[k]
      /\ image'[n] = r
  BY ONLY <1>1, n = Len(image) + 1
<1> QED
  BY <1>2, <1>3

(* A communicator that is not in the table changes, is made or goes.       *)
LEMMA SlotsOther ==
  ASSUME BackendTypes, SlotInv, DmaInv, NEW c \in SimChips, comm[c].pc \notin Registered,
         \A d \in SimChips : d # c => comm'[d] = comm[d] /\ scene'.lives[d] = scene.lives[d],
         \A d \in SimChips : d # c /\ UsesShared(d) => (shared.init => shared'.init),
         UNCHANGED dmaState
  PROVE  SlotInv' /\ DmaInv'
<1>1. dmaRanges' = dmaRanges /\ callbackInstance' = callbackInstance /\ dma' = dma /\ torn' = torn
  BY DEF dmaState
<1>2. ASSUME NEW j, LiveInst(j) PROVE LiveInst(j)' /\ j.chip # c /\ j.chip \in SimChips
  BY <1>2 DEF LiveInst, Inst
<1>3. ASSUME NEW k \in DOMAIN dmaRanges
      PROVE  /\ LiveInst(dmaRanges[k])' /\ comm'[dmaRanges[k].chip].mode # "none"
             /\ comm'[dmaRanges[k].chip].pc = "unregister" /\ UsesShared(dmaRanges[k].chip)' => shared'.init
             /\ dmaRanges[k].chip # c
  <2>1. PICK x : x = dmaRanges[k]
    OBVIOUS
  <2>2. LiveInst(x) /\ comm[x.chip].mode # "none" /\ (comm[x.chip].pc = "unregister" /\ UsesShared(x.chip) => shared.init)
    BY <2>1 DEF SlotInv
  <2>3. LiveInst(x)' /\ x.chip # c /\ x.chip \in SimChips
    BY <1>2, <2>2
  <2>4. comm'[x.chip] = comm[x.chip] /\ UsesShared(x.chip)' = UsesShared(x.chip)
    BY <2>3 DEF UsesShared
  <2>5. LiveInst(dmaRanges[k])' /\ UsesShared(dmaRanges[k].chip)' = UsesShared(x.chip)'
    BY <1>1, <2>1, <2>3 DEF LiveInst, Inst, UsesShared
  <2> QED
    BY <2>1, <2>2, <2>3, <2>4, <2>5
<1>4. callbackInstance' # NoInst => LiveInst(callbackInstance)'
  <2>1. PICK x : x = callbackInstance /\ x = callbackInstance'
    BY <1>1
  <2>2. x # NoInst => LiveInst(x)'
    BY <1>2, <2>1 DEF SlotInv
  <2> QED
    BY <2>1, <2>2 DEF LiveInst, Inst
<1>5. SlotInv'
  BY <1>1, <1>3, <1>4 DEF SlotInv, NoInst
<1>6. dma'.to # NoInst /\ ~torn' => LiveInst(dma.to)'
  <2>1. PICK x : x = dma.to /\ x = dma'.to
    BY <1>1
  <2>2. x # NoInst /\ ~torn => LiveInst(x)'
    BY <1>2, <2>1 DEF DmaInv
  <2> QED
    BY <1>1, <2>1, <2>2 DEF LiveInst, Inst
<1>7. ASSUME dma.from # NoChip, dma.off < Channels, Slots(dma.from)' # {} PROVE dma'.to = Inst(dma.from)' /\ dma'.at = dma'.off
  <2>1. PICK d \in SimChips : d = dma.from /\ d = dma'.from
    BY <1>1, <1>7 DEF BackendTypes
  <2>2. PICK k \in DOMAIN dmaRanges : dmaRanges[k].chip = d /\ dmaRanges[k].life = scene'.lives[d]
    BY <1>1, <1>7, <2>1 DEF Slots
  <2>3. d # c
    BY <1>3, <2>2
  <2>4. k \in Slots(dma.from) /\ Inst(d)' = Inst(d) /\ Inst(dma.from)' = Inst(d)' /\ Inst(dma.from) = Inst(d)
    BY <2>1, <2>2, <2>3 DEF Slots, Inst
  <2> QED
    BY <1>1, <1>7, <2>4 DEF DmaInv
<1>8. dma'.from # NoChip => \E d \in SimChips : comm'[d].pc = "routed"
  <2>1. ASSUME dma.from # NoChip PROVE \E d \in SimChips : comm'[d].pc = "routed"
    <3>1. PICK d \in SimChips : comm[d].pc = "routed"
      BY <2>1 DEF DmaInv
    <3> QED
      BY <3>1 DEF Registered, Running
  <2> QED
    BY <1>1, <2>1
<1>9. DmaInv'
  BY <1>1, <1>6, <1>7, <1>8 DEF DmaInv, NoInst
<1> QED
  BY <1>5, <1>9

LEMMA ProbeInv ==
  ASSUME BackendInv, NEW c \in SimChips, Probe(c)
  PROVE  BackendInv'
<1> USE DEF BackendInv
<1>1. UNCHANGED <<scene, dmaState>> /\ comm[c].pc = "none" /\ deviceLock = NoChip /\ deviceLock' = c
  BY DEF Probe
<1>2. PICK l \in {"probed", "unshared"} :
        /\ comm' = [comm EXCEPT ![c].pc = l]
        /\ l = "probed" => scene.lib \in {"multichip", "incomplete"}
        /\ \/ image' = image /\ shared' = shared
           \/ l = "probed" /\ shared.handle = 0 /\ image' = Dlopen(NoChip, "shared") /\ shared' = [shared EXCEPT !.handle = Len(image) + 1]
  BY DEF Probe
<1>3. /\ comm' \in [SimChips -> BackendComm]
      /\ comm'[c].pc = l /\ comm'[c].mode = comm[c].mode /\ comm'[c].handle = comm[c].handle
      /\ \A d \in SimChips : d # c => comm'[d] = comm[d]
  BY <1>2, CommMove DEF CommLabels, Starting
<1>4. comm[c].mode = "none" /\ comm[c].handle = 0
  BY <1>1 DEF CommInv, Starting
<1>5. CommInv'
  BY <1>1, <1>2, <1>3, <1>4, CommKept DEF CommInv, Starting, LockStep
<1>6. SameModes /\ LibraryMove(c)
  BY <1>1, <1>3 DEF SameModes, LibraryMove
<1>7. /\ image' \in Seq(BackendImage) /\ shared' \in [handle : Nat, refs : Int, init : BOOLEAN] /\ shared'.init = shared.init
      /\ SharedInv' /\ CopyInv' /\ ImageInv'
  <2>1. CASE image' = image /\ shared' = shared
    BY <1>1, <1>3, <1>6, <2>1, LibraryKept DEF BackendTypes
  <2>2. CASE l = "probed" /\ shared.handle = 0 /\ image' = Dlopen(NoChip, "shared") /\ shared' = [shared EXCEPT !.handle = Len(image) + 1]
    <3>1. PICK n : n = Len(image) + 1
      OBVIOUS
    <3>2. /\ image' \in Seq(BackendImage) /\ n \in Nat /\ n # 0 /\ n \notin DOMAIN image /\ DOMAIN image' = DOMAIN image \cup {n}
          /\ \A k \in DOMAIN image : image'[k] = image[k]
          /\ FreshImage(image'[n], NoChip, "shared")
      BY <2>2, <3>1, Dlopened
    <3>3. shared' \in [handle : Nat, refs : Int, init : BOOLEAN] /\ shared'.init = shared.init /\ shared'.refs = shared.refs /\ shared'.handle = n
      BY <2>2, <3>1, <3>2 DEF BackendTypes
    <3>4. Users = {} /\ ~shared.init
      BY <2>2 DEF SharedInv
    <3>5. Users' = Users /\ (\A d \in SimChips : UsesShared(d)' <=> UsesShared(d)) /\ (\A d \in SimChips : Owns(d)' <=> Owns(d))
      BY <1>6, SameUsers
    <3>6. SharedInv'
      <4>1. shared'.refs = Cardinality(Users') /\ shared'.handle \in DOMAIN image' /\ Users' = {} /\ ~shared'.init
        BY <3>2, <3>3, <3>4, <3>5 DEF SharedInv
      <4> QED
        BY <1>3, <2>2, <3>2, <3>3, <4>1 DEF SharedInv, Loaded, FreshImage
    <3>7. \A d \in SimChips : comm'[d].handle = comm[d].handle /\ comm[d].handle # n
      BY <1>3, <3>2, HandlesOpened
    <3>8. CopyInv'
      <4>1. ASSUME NEW d \in SimChips, Owns(d) PROVE comm'[d] = comm[d] /\ comm[d].handle \in DOMAIN image' /\ image'[comm[d].handle] = image[comm[d].handle]
        <5>1. d # c
          BY <1>4, <4>1 DEF Owns
        <5> QED
          BY <1>3, <3>2, <4>1, <5>1 DEF CopyInv
      <4>2. \A d \in SimChips : comm'[d].mode = "legacy" => comm'[d].handle # 0
        BY <1>6 DEF CopyInv, SameModes
      <4> QED
        BY <3>3, <3>5, <3>7, <4>1, <4>2 DEF CopyInv, Joint
    <3>9. ImageInv'
      <4>1. ASSUME NEW k \in DOMAIN image PROVE ImageOk(image'[k]) /\ \A d \in image'[k].by : Holder(d, k)'
        <5>1. k # shared.handle
          BY <2>2 DEF BackendTypes
        <5> QED
          BY <3>2, <3>5, <3>7, <5>1 DEF ImageInv, Holder
      <4>2. ImageOk(image'[n]) /\ \A d \in image'[n].by : Holder(d, n)'
        BY <3>2, <3>3 DEF FreshImage, ImageOk, Holder
      <4> QED
        BY <3>2, <4>1, <4>2 DEF ImageInv
    <3> QED
      BY <3>2, <3>3, <3>6, <3>8, <3>9
  <2> QED
    BY <1>2, <2>1, <2>2
<1>8. BackendTypes'
  BY <1>1, <1>3, <1>7 DEF BackendTypes, dmaState
<1>9. SlotInv' /\ DmaInv'
  BY <1>1, <1>3, <1>7, SlotsOther DEF Registered, Running
<1> QED
  BY <1>5, <1>7, <1>8, <1>9

(* initialize() ends, with a library or without.                           *)
CommIs(c, l, mode, h) ==
  /\ comm' \in [SimChips -> BackendComm]
  /\ comm'[c].pc = l /\ comm'[c].mode = mode /\ comm'[c].handle = h
  /\ \A d \in SimChips : d # c => comm'[d] = comm[d]

LEMMA CommSet ==
  ASSUME BackendTypes, NEW c \in SimChips, NEW l \in CommLabels, NEW mode \in {"none", "multichip", "bdf", "legacy"}, NEW h \in Nat,
         \/ comm' = [comm EXCEPT ![c].pc = l, ![c].mode = mode, ![c].handle = h]
         \/ comm' = [comm EXCEPT ![c].pc = l, ![c].handle = h] /\ comm[c].mode = mode
  PROVE  CommIs(c, l, mode, h)
<1>1. comm[c] \in BackendComm /\ comm \in [SimChips -> BackendComm]
  BY DEF BackendTypes
<1>2. PICK m \in BackendComm : m = comm[c]
  BY <1>1
<1>3. \E r \in BackendComm : r.pc = l /\ r.mode = mode /\ r.handle = h /\ comm' = [comm EXCEPT ![c] = r]
  <2>1. CASE comm' = [comm EXCEPT ![c].pc = l, ![c].mode = mode, ![c].handle = h]
    <3>1. PICK r : r = [m EXCEPT !.pc = l, !.mode = mode, !.handle = h]
      OBVIOUS
    <3>2. r \in BackendComm /\ r.pc = l /\ r.mode = mode /\ r.handle = h
      BY <3>1 DEF BackendComm
    <3>3. comm' = [comm EXCEPT ![c] = r]
      BY <1>1, <1>2, <2>1, <3>1
    <3> QED
      BY <3>2, <3>3
  <2>2. CASE comm' = [comm EXCEPT ![c].pc = l, ![c].handle = h] /\ comm[c].mode = mode
    <3>1. PICK r : r = [m EXCEPT !.pc = l, !.handle = h]
      OBVIOUS
    <3>2. r \in BackendComm /\ r.pc = l /\ r.mode = m.mode /\ r.handle = h
      BY <3>1 DEF BackendComm
    <3>3. comm' = [comm EXCEPT ![c] = r]
      BY <1>1, <1>2, <2>2, <3>1
    <3> QED
      BY <1>2, <2>2, <3>2, <3>3
  <2> QED
    BY <2>1, <2>2
<1>4. PICK r \in BackendComm : r.pc = l /\ r.mode = mode /\ r.handle = h /\ comm' = [comm EXCEPT ![c] = r]
  BY <1>3
<1> QED
  BY <1>1, <1>4 DEF CommIs

(* The users of the library are finitely many.                             *)
LEMMA UsersFinite == Users \subseteq SimChips /\ IsFiniteSet(Users)
<1>1. Users \subseteq SimChips
  BY DEF Users
<1> QED
  BY <1>1, BackendBounds, FS_Subset

(* A communicator joins the users of the shared library, which it may have *)
(* opened.                                                                 *)
LEMMA JoinShared ==
  ASSUME BackendTypes, CommInv, SharedInv, CopyInv, ImageInv, NEW c \in SimChips, comm[c].mode = "none", comm[c].handle = 0,
         NEW mode \in {"multichip", "bdf"}, NEW h \in Nat, CommIs(c, "ready", mode, h),
         shared' = [shared EXCEPT !.handle = h, !.refs = @ + 1],
         \/ h = shared.handle /\ h # 0 /\ image' = image
         \/ shared.handle = 0 /\ h = Len(image) + 1 /\ image' = Dlopen(NoChip, "shared")
  PROVE  /\ image' \in Seq(BackendImage) /\ shared' \in [handle : Nat, refs : Int, init : BOOLEAN] /\ shared'.init = shared.init
         /\ SharedInv' /\ CopyInv' /\ ImageInv'
<1>1. /\ comm'[c].pc = "ready" /\ comm'[c].mode = mode /\ comm'[c].handle = h
      /\ \A d \in SimChips : d # c => comm'[d] = comm[d]
  BY DEF CommIs
<1>2. shared' \in [handle : Nat, refs : Int, init : BOOLEAN] /\ shared'.init = shared.init /\ shared'.refs = shared.refs + 1 /\ shared'.handle = h
  <2>1. shared \in [handle : Nat, refs : Int, init : BOOLEAN] /\ shared.refs + 1 \in Int
    BY DEF BackendTypes
  <2>2. PICK x \in Int : x = shared.refs + 1
    BY <2>1
  <2>3. shared' = [shared EXCEPT !.handle = h, !.refs = x]
    BY <2>2, Zenon
  <2>4. shared' \in [handle : Nat, refs : Int, init : BOOLEAN] /\ shared'.init = shared.init /\ shared'.refs = x /\ shared'.handle = h
    BY <2>1, <2>3
  <2> QED
    BY <2>2, <2>4
<1>3. c \notin Users /\ Users' = Users \cup {c} /\ \A d \in SimChips : d # c => (UsesShared(d)' <=> UsesShared(d)) /\ (Owns(d)' <=> Owns(d))
  BY <1>1 DEF Users, UsesShared, Owns
<1>4. UsesShared(c)' /\ ~Owns(c)' /\ ~Owns(c)
  BY <1>1 DEF UsesShared, Owns
<1>5. Cardinality(Users') = shared.refs + 1
  <2>1. Cardinality(Users \cup {c}) = Cardinality(Users) + 1
    BY <1>3, UsersFinite, FS_AddElement
  <2> QED
    BY <1>3, <2>1 DEF SharedInv
<1>6. /\ image' \in Seq(BackendImage) /\ h # 0 /\ DOMAIN image' = DOMAIN image \cup {h} /\ Loaded(h)' /\ image'[h].load = "shared"
      /\ \A d \in image'[h].by : d = NoChip
      /\ \A k \in DOMAIN image : image'[k] = image[k]
      /\ image'[h].exits = 0
      /\ shared.init => image'[h].inits = 1 /\ image'[h].running
      /\ ~shared.init => image'[h].inits = 0 /\ ~image'[h].running
      /\ ImageOk(image'[h])
      /\ \A d \in SimChips : Owns(d) => comm[d].handle # h
      /\ shared.handle # 0 => h = shared.handle
  <2>1. CASE h = shared.handle /\ h # 0 /\ image' = image
    <3>1. h \in DOMAIN image /\ Loaded(h)' /\ image[h].load = "shared" /\ image[h].exits = 0
      BY <2>1 DEF SharedInv, Loaded
    <3>2. (shared.init => image[h].inits = 1 /\ image[h].running) /\ (~shared.init => image[h].inits = 0 /\ ~image[h].running)
      BY <2>1 DEF SharedInv
    <3>3. ImageOk(image[h])
      BY <3>1 DEF ImageInv
    <3>4. \A d \in SimChips : Owns(d) => comm[d].handle # h
      BY <2>1 DEF CopyInv
    <3>6. \A d \in image[h].by : d = NoChip
      BY <3>1, <3>4 DEF ImageInv, Holder
    <3>5. image' \in Seq(BackendImage) /\ DOMAIN image' = DOMAIN image \cup {h}
      BY <2>1, <3>1 DEF BackendTypes
    <3> QED
      BY <2>1, <3>1, <3>2, <3>3, <3>4, <3>5, <3>6
  <2>2. CASE shared.handle = 0 /\ h = Len(image) + 1 /\ image' = Dlopen(NoChip, "shared")
    <3>1. /\ image' \in Seq(BackendImage) /\ h \in Nat /\ h # 0 /\ h \notin DOMAIN image /\ DOMAIN image' = DOMAIN image \cup {h}
          /\ \A k \in DOMAIN image : image'[k] = image[k]
          /\ FreshImage(image'[h], NoChip, "shared")
      BY <2>2, Dlopened
    <3>2. ~shared.init
      BY <2>2 DEF SharedInv
    <3>3. \A d \in SimChips : comm[d].handle # h
      BY <3>1, HandlesOpened
    <3>4. /\ Loaded(h)' /\ image'[h].load = "shared" /\ (\A d \in image'[h].by : d = NoChip)
          /\ image'[h].exits = 0 /\ image'[h].inits = 0 /\ ~image'[h].running /\ ImageOk(image'[h])
      BY ONLY <3>1 DEF ImageOk, FreshImage, Loaded
    <3> QED
      BY <2>2, <3>1, <3>2, <3>3, <3>4
  <2> QED
    BY <2>1, <2>2
<1>7. SharedInv'
  <2>1. Users \subseteq SimChips /\ c \notin Users
    BY <1>3 DEF Users
  <2>2. \A d \in Users : comm'[d] = comm[d] /\ comm[d].handle = h /\ h = shared.handle
    BY <1>1, <1>6, <2>1 DEF SharedInv
  <2>3. ASSUME NEW d \in Users
        PROVE  /\ comm'[d].pc \in Running => shared'.init
               /\ comm'[d].pc = "hooked" => image'[h].hooked
               /\ comm'[d].pc \in {"unregister", "release"} => shared'.init \/ \E e \in Users' : comm'[e].pc = "hooked"
    <3>1. h \in DOMAIN image /\ image'[h] = image[h]
      BY <1>6, <2>2 DEF SharedInv
    <3> QED
      BY <1>2, <1>3, <2>2, <3>1 DEF SharedInv
  <2>4. ASSUME NEW d \in Users'
        PROVE  /\ comm'[d].handle = h
               /\ comm'[d].pc \in Running => shared'.init
               /\ comm'[d].pc = "hooked" => image'[h].hooked
               /\ comm'[d].pc \in {"unregister", "release"} => shared'.init \/ \E e \in Users' : comm'[e].pc = "hooked"
    <3>1. CASE d = c
      BY <1>1, <3>1 DEF Running
    <3>2. CASE d # c
      BY <1>3, <2>2, <2>3, <3>2
    <3> QED
      BY <3>1, <3>2
  <2> QED
    BY <1>2, <1>3, <1>5, <1>6, <2>4 DEF SharedInv
<1>8. CopyInv'
  <2>1. ASSUME NEW d \in SimChips, Owns(d)'
        PROVE  /\ comm'[d].handle \in DOMAIN image' /\ d \in image'[comm'[d].handle].by /\ comm'[d].handle # shared'.handle
               /\ ~Joint(comm[d].handle)' => \A e \in SimChips : e # d => comm'[e].handle # comm'[d].handle
               /\ CopyAt(comm'[d].pc, image'[comm'[d].handle])
    <3>1. d # c
      BY <1>4, <2>1
    <3>2. Owns(d) /\ comm'[d] = comm[d] /\ comm[d].handle # h
      BY <1>1, <1>3, <1>6, <2>1, <3>1
    <3>3. comm[d].handle \in DOMAIN image /\ image'[comm[d].handle] = image[comm[d].handle]
      BY <1>6, <3>2 DEF CopyInv
    <3>4. ~Joint(comm[d].handle)' => \A e \in SimChips : e # d => comm'[e].handle # comm[d].handle
      BY <1>1, <3>2, <3>3 DEF CopyInv, Joint
    <3> QED
      BY <1>2, <1>6, <3>2, <3>3, <3>4 DEF CopyInv
  <2>2. \A d \in SimChips : comm'[d].mode = "legacy" => comm'[d].handle # 0
    BY <1>1 DEF CopyInv
  <2> QED
    BY <2>1, <2>2 DEF CopyInv
<1>9. ImageInv'
  <2>1. ASSUME NEW k \in DOMAIN image, k # h
        PROVE  ImageOk(image'[k]) /\ \A d \in image'[k].by : Holder(d, k)'
    <3>1. 0 \notin DOMAIN image
      BY DEF BackendTypes
    <3>2. ImageOk(image[k]) /\ \A d \in image[k].by : Holder(d, k)
      BY DEF ImageInv
    <3>3. k # shared.handle
      BY <1>6, <2>1, <3>1
    <3> QED
      BY <1>1, <1>3, <1>4, <1>6, <3>2, <3>3 DEF Holder
  <2>2. \A d \in image'[h].by : Holder(d, h)'
    BY <1>2, <1>6 DEF Holder
  <2> QED
    BY <1>6, <2>1, <2>2 DEF ImageInv
<1> QED
  BY <1>2, <1>6, <1>7, <1>8, <1>9

(* A library nobody has committed to is closed.                            *)
LEMMA CloseUncommitted ==
  ASSUME BackendTypes, CommInv, SharedInv, CopyInv, ImageInv, NEW c \in SimChips, comm[c].mode = "none", comm[c].handle = 0,
         CommIs(c, "unregister", "none", 0), Users = {},
         \/ shared.handle = 0 /\ UNCHANGED <<image, shared>>
         \/ /\ shared.handle # 0
            /\ image' = OnImage(shared.handle, "by", {}) /\ shared' = [shared EXCEPT !.handle = 0]
  PROVE  /\ image' \in Seq(BackendImage) /\ shared' \in [handle : Nat, refs : Int, init : BOOLEAN] /\ shared'.init = shared.init
         /\ SharedInv' /\ CopyInv' /\ ImageInv'
<1>1. /\ comm'[c].pc = "unregister" /\ comm'[c].mode = "none" /\ comm'[c].handle = 0
      /\ \A d \in SimChips : d # c => comm'[d] = comm[d]
  BY DEF CommIs
<1>2. SameModes
  BY <1>1 DEF SameModes
<1>3. Users' = {} /\ (\A d \in SimChips : Owns(d)' <=> Owns(d)) /\ ~Owns(c)
  BY <1>2, SameUsers DEF Owns
<1>4. shared' \in [handle : Nat, refs : Int, init : BOOLEAN] /\ shared'.init = shared.init /\ shared'.refs = shared.refs /\ shared'.handle = 0
  <2>1. PICK s \in [handle : Nat, refs : Int, init : BOOLEAN] : s = shared
    BY DEF BackendTypes
  <2>2. PICK r : r = [s EXCEPT !.handle = 0]
    OBVIOUS
  <2>3. r \in [handle : Nat, refs : Int, init : BOOLEAN] /\ r.init = s.init /\ r.refs = s.refs /\ r.handle = 0
    BY <2>2
  <2>4. shared' = r \/ (shared' = s /\ s.handle = 0)
    BY <2>1, <2>2
  <2> QED
    BY <2>1, <2>3, <2>4
<1>5. /\ image' \in Seq(BackendImage) /\ DOMAIN image' = DOMAIN image
      /\ \A k \in DOMAIN image : k # shared.handle => image'[k] = image[k]
      /\ shared.handle # 0 => shared.handle \in DOMAIN image /\ image'[shared.handle].by = {} /\ ImageOk(image'[shared.handle])
  <2>1. image \in Seq(BackendImage)
    BY DEF BackendTypes
  <2>2. CASE shared.handle = 0 /\ image' = image
    BY <2>1, <2>2
  <2>3. CASE shared.handle # 0 /\ image' = OnImage(shared.handle, "by", {})
    <3>1. shared.handle \in DOMAIN image
      BY <2>3 DEF SharedInv
    <3>2. PICK h \in DOMAIN image : h = shared.handle
      BY <3>1
    <3>3. PICK m \in BackendImage : m = image[h]
      BY <2>1
    <3>4. PICK r : r = [m EXCEPT !.by = {}]
      OBVIOUS
    <3>5. r \in BackendImage /\ r.by = {} /\ r.load = m.load /\ r.inits = m.inits /\ r.exits = m.exits /\ r.rehooked = m.rehooked /\ r.hooked = m.hooked
      BY <3>4 DEF BackendImage
    <3>6. image' = [image EXCEPT ![h] = r]
      BY <2>1, <2>3, <3>2, <3>3, <3>4 DEF OnImage
    <3>7. ImageOk(m)
      BY <3>3 DEF ImageInv
    <3>8. image' \in Seq(BackendImage) /\ DOMAIN image' = DOMAIN image /\ image'[h] = r /\ \A k \in DOMAIN image : k # h => image'[k] = image[k]
      BY ONLY <2>1, <3>5, <3>6, h \in DOMAIN image
    <3> QED
      BY <3>2, <3>5, <3>7, <3>8 DEF ImageOk
  <2> QED
    BY <2>2, <2>3
<1>6. SharedInv'
  <2>1. shared'.refs = Cardinality(Users') /\ ~shared'.init
    BY <1>3, <1>4 DEF SharedInv
  <2> QED
    BY <1>3, <1>4, <2>1 DEF SharedInv
<1>7. CopyInv'
  <2>1. ASSUME NEW d \in SimChips, Owns(d)
        PROVE  /\ comm'[d] = comm[d] /\ comm[d].handle \in DOMAIN image' /\ image'[comm[d].handle] = image[comm[d].handle]
               /\ comm[d].handle # 0
    <3>1. d # c /\ comm[d].handle \in DOMAIN image /\ comm[d].handle # shared.handle
      BY <1>3, <2>1 DEF CopyInv
    <3> QED
      BY <1>1, <1>5, <2>1, <3>1 DEF Owns
  <2>2. \A d \in SimChips : comm'[d].mode = "legacy" => comm'[d].handle # 0
    BY <1>1 DEF CopyInv
  <2>3. \A d \in SimChips : comm'[d].handle = comm[d].handle
    BY <1>2 DEF SameModes
  <2> QED
    BY <1>3, <1>4, <2>1, <2>2, <2>3 DEF CopyInv, Joint
<1>8. ImageInv'
  <2>1. ASSUME NEW k \in DOMAIN image
        PROVE  ImageOk(image'[k]) /\ \A d \in image'[k].by : Holder(d, k)'
    <3>1. CASE k = shared.handle
      <4>1. k # 0
        BY DEF BackendTypes
      <4> QED
        BY <1>5, <3>1, <4>1
    <3>2. CASE k # shared.handle
      <4>1. image'[k] = image[k] /\ ImageOk(image[k]) /\ \A d \in image[k].by : Holder(d, k)
        BY <1>5, <3>2 DEF ImageInv
      <4> QED
        BY <1>2, <1>3, <3>2, <4>1 DEF SameModes, Holder
    <3> QED
      BY <3>1, <3>2
  <2> QED
    BY <1>5, <2>1 DEF ImageInv
<1> QED
  BY <1>4, <1>5, <1>6, <1>7, <1>8

LEMMA UncommittedFails ==
  ASSUME BackendTypes, CommInv, SharedInv, CopyInv, ImageInv, NEW c \in SimChips, comm[c].mode = "none", comm[c].handle = 0,
         InitFails(c, 0), Users = {}, ReleaseUncommitted
  PROVE  /\ CommIs(c, "unregister", "none", 0) /\ deviceLock' = NoChip
         /\ image' \in Seq(BackendImage) /\ shared' \in [handle : Nat, refs : Int, init : BOOLEAN] /\ shared'.init = shared.init
         /\ SharedInv' /\ CopyInv' /\ ImageInv'
<1>1. CommIs(c, "unregister", "none", 0)
  <2>1. comm' = [comm EXCEPT ![c].pc = "unregister", ![c].handle = 0]
    BY DEF InitFails
  <2>2. "unregister" \in CommLabels /\ 0 \in Nat
    BY DEF CommLabels, Registered
  <2> QED
    BY <2>1, <2>2, CommSet
<1>2. shared.refs = 0
  BY FS_EmptySet DEF SharedInv
<1>3. \/ shared.handle = 0 /\ UNCHANGED <<image, shared>>
      \/ /\ shared.handle # 0
         /\ image' = OnImage(shared.handle, "by", {}) /\ shared' = [shared EXCEPT !.handle = 0]
  BY <1>2 DEF ReleaseUncommitted
<1>4. /\ image' \in Seq(BackendImage) /\ shared' \in [handle : Nat, refs : Int, init : BOOLEAN] /\ shared'.init = shared.init
      /\ SharedInv' /\ CopyInv' /\ ImageInv'
  BY <1>1, <1>3, CloseUncommitted
<1> QED
  BY <1>1, <1>4 DEF InitFails

LEMMA CommitBdfInv ==
  ASSUME BackendInv, NEW c \in SimChips, CommitBdf(c)
  PROVE  BackendInv'
<1> USE DEF BackendInv
<1>1. UNCHANGED <<scene, dmaState>> /\ comm[c].pc = "unshared" /\ scene.lib \in {"bdf", "bdf_absent", "bdf_broken"}
  BY DEF CommitBdf
<1>2. comm[c].mode = "none" /\ comm[c].handle = 0 /\ deviceLock = c
  BY <1>1 DEF CommInv, Starting
<1>3. \E l \in {"ready", "unregister"}, mode \in {"none", "bdf"}, h \in Nat :
        /\ CommIs(c, l, mode, h) /\ (mode = "none" <=> l = "unregister") /\ (mode # "none" => mode = scene.lib) /\ deviceLock' = NoChip
        /\ (mode = "none" => h = 0)
        /\ image' \in Seq(BackendImage) /\ shared' \in [handle : Nat, refs : Int, init : BOOLEAN] /\ shared'.init = shared.init
        /\ SharedInv' /\ CopyInv' /\ ImageInv'
  <2>1. CASE \E h \in Nat :
               /\ scene.lib = "bdf" /\ Committed(c, "bdf", h)
               /\ \/ h = shared.handle /\ h # 0 /\ image' = image
                  \/ shared.handle = 0 /\ h = Len(image) + 1 /\ image' = Dlopen(NoChip, "shared")
    <3>1. PICK h \in Nat :
               /\ scene.lib = "bdf" /\ Committed(c, "bdf", h)
               /\ \/ h = shared.handle /\ h # 0 /\ image' = image
                  \/ shared.handle = 0 /\ h = Len(image) + 1 /\ image' = Dlopen(NoChip, "shared")
      BY <2>1
    <3>2. CommIs(c, "ready", "bdf", h)
      BY <3>1, CommSet DEF Committed, CommLabels
    <3>3. /\ image' \in Seq(BackendImage) /\ shared' \in [handle : Nat, refs : Int, init : BOOLEAN] /\ shared'.init = shared.init
          /\ SharedInv' /\ CopyInv' /\ ImageInv'
      BY <1>2, <3>1, <3>2, JoinShared DEF Committed
    <3> QED
      BY <3>1, <3>2, <3>3 DEF Committed
  <2>2. CASE scene.lib # "bdf" /\ InitFails(c, 0) /\ ReleaseUncommitted
    <3>1. Users = {}
      BY <1>1, <2>2 DEF CommInv, Users, UsesShared
    <3>2. /\ CommIs(c, "unregister", "none", 0) /\ deviceLock' = NoChip
          /\ image' \in Seq(BackendImage) /\ shared' \in [handle : Nat, refs : Int, init : BOOLEAN] /\ shared'.init = shared.init
          /\ SharedInv' /\ CopyInv' /\ ImageInv'
      BY <1>2, <2>2, <3>1, UncommittedFails
    <3> QED
      BY <3>2
  <2>3. Len(image) + 1 \in Nat /\ shared.handle \in Nat
    BY DEF BackendTypes
  <2> QED
    BY <2>1, <2>2, <2>3 DEF CommitBdf
<1>4. PICK l \in {"ready", "unregister"}, mode \in {"none", "bdf"}, h \in Nat :
        /\ CommIs(c, l, mode, h) /\ (mode = "none" <=> l = "unregister") /\ (mode # "none" => mode = scene.lib) /\ deviceLock' = NoChip
        /\ (mode = "none" => h = 0)
        /\ image' \in Seq(BackendImage) /\ shared' \in [handle : Nat, refs : Int, init : BOOLEAN] /\ shared'.init = shared.init
        /\ SharedInv' /\ CopyInv' /\ ImageInv'
  BY <1>3
<1>5. CommInv'
  BY <1>1, <1>2, <1>4, CommKept DEF CommInv, Starting, LockStep, CommIs
<1>6. BackendTypes'
  BY <1>1, <1>4 DEF BackendTypes, dmaState, CommIs
<1>7. SlotInv' /\ DmaInv'
  BY <1>1, <1>4, SlotsOther DEF Registered, Running, CommIs
<1> QED
  BY <1>4, <1>5, <1>6, <1>7

LEMMA CommitSharedInv ==
  ASSUME BackendInv, NEW c \in SimChips, CommitShared(c)
  PROVE  BackendInv'
<1> USE DEF BackendInv
<1>1. UNCHANGED <<scene, dmaState>> /\ comm[c].pc = "probed"
  BY DEF CommitShared
<1>2. comm[c].mode = "none" /\ comm[c].handle = 0 /\ deviceLock = c
  BY <1>1 DEF CommInv, Starting
<1>3. \E l \in {"ready", "unregister"}, mode \in {"none", "multichip"}, h \in Nat :
        /\ CommIs(c, l, mode, h) /\ (mode = "none" <=> l = "unregister") /\ (mode # "none" => mode = scene.lib) /\ deviceLock' = NoChip
        /\ image' \in Seq(BackendImage) /\ shared' \in [handle : Nat, refs : Int, init : BOOLEAN] /\ shared'.init = shared.init
        /\ SharedInv' /\ CopyInv' /\ ImageInv'
  <2>1. CASE /\ scene.lib = "multichip" /\ shared.handle # 0
             /\ Committed(c, "multichip", shared.handle) /\ UNCHANGED image
    <3>1. PICK h \in Nat : h = shared.handle
      BY DEF BackendTypes
    <3>2. CommIs(c, "ready", "multichip", h)
      BY <2>1, <3>1, CommSet DEF Committed, CommLabels
    <3>3. /\ image' \in Seq(BackendImage) /\ shared' \in [handle : Nat, refs : Int, init : BOOLEAN] /\ shared'.init = shared.init
          /\ SharedInv' /\ CopyInv' /\ ImageInv'
      BY <1>2, <2>1, <3>1, <3>2, JoinShared DEF Committed
    <3> QED
      BY <2>1, <3>2, <3>3 DEF Committed
  <2>2. CASE /\ scene.lib = "incomplete" \/ shared.handle = 0
             /\ InitFails(c, 0) /\ ReleaseUncommitted
    <3>1. Users = {}
      <4>1. CASE scene.lib = "incomplete"
        BY <4>1 DEF CommInv, Users, UsesShared
      <4>2. CASE shared.handle = 0
        BY <4>2 DEF SharedInv
      <4> QED
        BY <2>2, <4>1, <4>2
    <3>2. /\ CommIs(c, "unregister", "none", 0) /\ deviceLock' = NoChip
          /\ image' \in Seq(BackendImage) /\ shared' \in [handle : Nat, refs : Int, init : BOOLEAN] /\ shared'.init = shared.init
          /\ SharedInv' /\ CopyInv' /\ ImageInv'
      BY <1>2, <2>2, <3>1, UncommittedFails
    <3> QED
      BY <3>2
  <2> QED
    BY <2>1, <2>2 DEF CommitShared
<1>4. PICK l \in {"ready", "unregister"}, mode \in {"none", "multichip"}, h \in Nat :
        /\ CommIs(c, l, mode, h) /\ (mode = "none" <=> l = "unregister") /\ (mode # "none" => mode = scene.lib) /\ deviceLock' = NoChip
        /\ image' \in Seq(BackendImage) /\ shared' \in [handle : Nat, refs : Int, init : BOOLEAN] /\ shared'.init = shared.init
        /\ SharedInv' /\ CopyInv' /\ ImageInv'
  BY <1>3
<1>5. CommInv'
  BY <1>1, <1>2, <1>4, CommKept DEF CommInv, Starting, LockStep, CommIs
<1>6. BackendTypes'
  BY <1>1, <1>4 DEF BackendTypes, dmaState, CommIs
<1>7. SlotInv' /\ DmaInv'
  BY <1>1, <1>4, SlotsOther DEF Registered, Running, CommIs
<1> QED
  BY <1>4, <1>5, <1>6, <1>7

(* A chip opens the library itself, or fails to: what it opens is new, or  *)
(* the file that others have opened.                                       *)
JoinsImage(c, h) == h \in InPlace /\ image' = [image EXCEPT ![h].by = @ \cup {c}, ![h].load = "joint"]

LEMMA JoinIs ==
  ASSUME BackendTypes, SharedInv, CopyInv, ImageInv, NEW c \in SimChips, NEW h, JoinsImage(c, h)
  PROVE  /\ h \in DOMAIN image /\ h # 0 /\ h # shared.handle
         /\ image' \in Seq(BackendImage) /\ DOMAIN image' = DOMAIN image
         /\ \A k \in DOMAIN image : k # h => image'[k] = image[k]
         /\ image'[h].by = image[h].by \cup {c} /\ image'[h].load = "joint"
         /\ image'[h].inits = image[h].inits /\ image'[h].hooked = image[h].hooked
<1>1. image \in Seq(BackendImage) /\ h \in DOMAIN image /\ image[h].load \in {"sole", "joint"}
  BY DEF BackendTypes, InPlace, JoinsImage
<1>2. h # 0 /\ h # shared.handle
  BY <1>1 DEF SharedInv
<1>3. PICK m \in BackendImage : m = image[h]
  BY <1>1
<1>4. PICK b : b = m.by \cup {c}
  OBVIOUS
<1>5. PICK r : r = [m EXCEPT !.by = b, !.load = "joint"]
  OBVIOUS
<1>6. r \in BackendImage /\ r.by = b /\ r.load = "joint" /\ r.inits = m.inits /\ r.hooked = m.hooked
  BY <1>4, <1>5 DEF BackendImage
<1>7. image' = [image EXCEPT ![h] = r]
  <2>1. image' = [image EXCEPT ![h].by = image[h].by \cup {c}, ![h].load = "joint"]
    BY <1>1 DEF JoinsImage
  <2>2. image' = [image EXCEPT ![h].by = b, ![h].load = "joint"]
    BY <1>3, <1>4, <2>1
  <2> QED
    BY <1>1, <1>3, <1>5, <2>2
<1>8. image' \in Seq(BackendImage) /\ DOMAIN image' = DOMAIN image /\ image'[h] = r /\ \A k \in DOMAIN image : k # h => image'[k] = image[k]
  BY ONLY <1>1, <1>6, <1>7
<1> QED
  BY <1>1, <1>2, <1>3, <1>4, <1>6, <1>8

OpensImage(c, h) ==
  \/ h = Len(image) + 1 /\ \E load \in {"copy", "sole"} : image' = Dlopen(c, load)
  \/ JoinsImage(c, h)

LEMMA OwnCopy ==
  ASSUME BackendTypes, CommInv, SharedInv, CopyInv, ImageInv, NEW c \in SimChips, comm[c].mode = "none", comm[c].handle = 0,
         comm[c].pc # "probed", NEW mode \in {"none", "legacy"}, NEW l \in {"ready", "unregister"}, NEW h \in Nat, CommIs(c, l, mode, h),
         shared' = shared,
         \/ h = 0 /\ mode = "none" /\ image' = image
         \/ OpensImage(c, h)
  PROVE  image' \in Seq(BackendImage) /\ SharedInv' /\ CopyInv' /\ ImageInv'
<1>1. /\ comm'[c].pc = l /\ comm'[c].mode = mode /\ comm'[c].handle = h
      /\ \A d \in SimChips : d # c => comm'[d] = comm[d]
  BY DEF CommIs
<1>2. ~UsesShared(c) /\ ~UsesShared(c)' /\ ~Owns(c) /\ (Owns(c)' <=> h # 0)
  BY <1>1 DEF UsesShared, Owns
<1>3. Users' = Users /\ c \notin Users /\ Users \subseteq SimChips /\ \A d \in SimChips : d # c => (Owns(d)' <=> Owns(d))
  BY <1>1, <1>2 DEF Users, UsesShared, Owns
<1> DEFINE Ok(d) == d \in image'[h].by /\ CopyAt(comm[d].pc, image'[h])
<1>4. /\ image' \in Seq(BackendImage) /\ DOMAIN image' = DOMAIN image \cup (IF h = 0 THEN {} ELSE {h})
      /\ \A k \in DOMAIN image : k # h => image'[k] = image[k]
      /\ h # 0 => ImageOk(image'[h]) /\ c \in image'[h].by /\ CopyAt(l, image'[h]) /\ h # shared.handle
      /\ h # 0 => \A d \in image'[h].by : d = c \/ Holder(d, h)
      /\ h # 0 => \A d \in SimChips : comm[d].handle = h => Owns(d) /\ Ok(d) /\ image'[h].load = "joint"
      /\ (mode = "legacy" => h # 0) /\ 0 \notin DOMAIN image
  <2>0. 0 \notin DOMAIN image /\ image \in Seq(BackendImage)
    BY DEF BackendTypes
  <2>1. CASE h = 0 /\ mode = "none" /\ image' = image
    BY <2>0, <2>1
  <2>2. CASE h = Len(image) + 1 /\ \E load \in {"copy", "sole"} : image' = Dlopen(c, load)
    <3>1. PICK load \in {"shared", "copy", "sole", "joint"} : image' = Dlopen(c, load) /\ load \in {"copy", "sole"}
      BY <2>2
    <3>6. c \in SimChips \cup {NoChip}
      OBVIOUS
    <3>2. /\ image' \in Seq(BackendImage) /\ h \in Nat /\ h # 0 /\ h \notin DOMAIN image /\ DOMAIN image' = DOMAIN image \cup {h}
          /\ \A k \in DOMAIN image : image'[k] = image[k]
          /\ FreshImage(image'[h], c, load)
      BY <2>2, <3>1, <3>6, Dlopened
    <3>3. ImageOk(image'[h]) /\ CopyAt(l, image'[h]) /\ image'[h].by = {c}
      BY <3>2 DEF ImageOk, CopyAt, Running, FreshImage
    <3>4. \A d \in SimChips : comm[d].handle # h
      BY <3>2, HandlesOpened
    <3>5. h # shared.handle
      BY <3>2 DEF SharedInv
    <3> QED
      BY <2>0, <3>2, <3>3, <3>4, <3>5
  <2>3. CASE JoinsImage(c, h)
    <3>1. /\ h \in DOMAIN image /\ h # 0 /\ h # shared.handle
          /\ image' \in Seq(BackendImage) /\ DOMAIN image' = DOMAIN image
          /\ \A k \in DOMAIN image : k # h => image'[k] = image[k]
          /\ image'[h].by = image[h].by \cup {c} /\ image'[h].load = "joint"
          /\ image'[h].inits = image[h].inits /\ image'[h].hooked = image[h].hooked
      BY <2>3, JoinIs
    <3>2. (image[h].inits > 0 => image[h].hooked) /\ \A d \in image[h].by : Holder(d, h)
      BY <3>1 DEF ImageInv, ImageOk
    <3>3. ImageOk(image'[h]) /\ CopyAt(l, image'[h])
      BY <3>1, <3>2 DEF ImageOk, CopyAt
    <3>4. ASSUME NEW d \in SimChips, comm[d].handle = h PROVE Owns(d) /\ Ok(d)
      <4>1. ~UsesShared(d)
        BY <3>1, <3>4 DEF SharedInv, Users
      <4>2. Owns(d)
        BY <3>1, <3>4, <4>1 DEF Owns
      <4>3. d \in image[h].by /\ CopyAt(comm[d].pc, image[h])
        BY <3>4, <4>2 DEF CopyInv
      <4>4. CopyAt(comm[d].pc, image'[h])
        BY <3>1, <4>3 DEF CopyAt
      <4> QED
        BY <3>1, <4>2, <4>3, <4>4
    <3> QED
      BY <2>0, <3>1, <3>2, <3>3, <3>4
  <2> QED
    BY <2>1, <2>2, <2>3 DEF OpensImage
<1>5. SharedInv'
  <2>1. \A d \in Users : comm'[d] = comm[d]
    BY <1>1, <1>3
  <2>2. \A d \in SimChips : comm[d].pc = "probed" => comm'[d].pc = "probed"
    BY <1>1
  <2>3. shared.handle # 0 => shared.handle \in DOMAIN image' /\ image'[shared.handle] = image[shared.handle]
    BY <1>4 DEF SharedInv
  <2>4. Users # {} => shared.handle # 0
    BY DEF SharedInv
  <2>5. \A d \in Users :
       /\ comm'[d].handle = shared.handle
       /\ comm'[d].pc \in Running => shared.init
       /\ comm'[d].pc = "hooked" => image'[shared.handle].hooked
       /\ comm'[d].pc \in {"unregister", "release"} => shared.init \/ \E e \in Users : comm'[e].pc = "hooked"
    BY <2>1, <2>3, <2>4 DEF SharedInv
  <2> QED
    BY <1>3, <2>2, <2>3, <2>5 DEF SharedInv, Loaded
<1>6. CopyInv'
  <2>1. ASSUME NEW d \in SimChips, Owns(d)'
        PROVE  /\ comm'[d].handle \in DOMAIN image' /\ d \in image'[comm'[d].handle].by /\ comm'[d].handle # shared'.handle
               /\ ~Joint(comm[d].handle)' => \A e \in SimChips : e # d => comm'[e].handle # comm'[d].handle
               /\ CopyAt(comm'[d].pc, image'[comm'[d].handle])
    <3>1. CASE d = c
      <4>1. h # 0 /\ comm'[d].handle = h /\ comm'[d].pc = l
        BY <1>1, <1>2, <2>1, <3>1
      <4>2. ~Joint(comm[d].handle)' => \A e \in SimChips : e # c => comm'[e].handle # h
        BY <1>1, <1>4, <4>1 DEF Joint
      <4> QED
        BY <1>4, <3>1, <4>1, <4>2
    <3>2. CASE d # c
      <4>1. Owns(d) /\ comm'[d] = comm[d] /\ comm[d].handle # 0
        BY <1>1, <1>3, <2>1, <3>2 DEF Owns
      <4>2. CASE comm[d].handle = h
        BY <1>4, <4>1, <4>2 DEF Joint
      <4>3. CASE comm[d].handle # h
        <5>1. comm[d].handle \in DOMAIN image /\ image'[comm[d].handle] = image[comm[d].handle]
          BY <1>4, <4>1, <4>3 DEF CopyInv
        <5>2. ~Joint(comm[d].handle)' => \A e \in SimChips : e # d => comm'[e].handle # comm[d].handle
          BY <1>1, <4>1, <4>3, <5>1 DEF CopyInv, Joint
        <5> QED
          BY <1>4, <4>1, <5>1, <5>2 DEF CopyInv
      <4> QED
        BY <4>2, <4>3
    <3> QED
      BY <3>1, <3>2
  <2>2. \A d \in SimChips : comm'[d].mode = "legacy" => comm'[d].handle # 0
    BY <1>1, <1>4 DEF CopyInv
  <2> QED
    BY <2>1, <2>2 DEF CopyInv
<1>7. ImageInv'
  <2>1. ASSUME NEW k \in DOMAIN image', NEW d \in image'[k].by PROVE Holder(d, k)'
    <3>1. CASE k = h /\ d = c
      BY <1>1, <1>2, <1>4, <3>1 DEF Holder
    <3>2. CASE ~(k = h /\ d = c)
      <4>1. Holder(d, k)
        BY <1>4, <2>1, <3>2 DEF ImageInv
      <4> QED
        BY <1>1, <1>2, <1>3, <4>1 DEF Holder
    <3> QED
      BY <3>1, <3>2
  <2>2. ASSUME NEW k \in DOMAIN image' PROVE ImageOk(image'[k])
    BY <1>4, <2>2 DEF ImageInv
  <2> QED
    BY <2>1, <2>2 DEF ImageInv
<1> QED
  BY <1>4, <1>5, <1>6, <1>7

LEMMA LoadLibraryInv ==
  ASSUME BackendInv, NEW c \in SimChips, LoadLibrary(c)
  PROVE  BackendInv'
<1> USE DEF BackendInv
<1>1. UNCHANGED <<scene, shared, dmaState>> /\ comm[c].pc = "unshared" /\ scene.lib \in {"legacy", "absent", "broken"} /\ deviceLock' = NoChip
  BY DEF LoadLibrary, InitFails
<1>2. comm[c].mode = "none" /\ comm[c].handle = 0 /\ deviceLock = c
  BY <1>1 DEF CommInv, Starting
<1>4. "unregister" \in CommLabels /\ "ready" \in CommLabels /\ 0 \in Nat
  BY DEF CommLabels, Registered
<1>5. \E mode \in {"none", "legacy"}, l \in {"ready", "unregister"}, h \in Nat :
        /\ CommIs(c, l, mode, h) /\ (mode = "none" <=> l = "unregister") /\ (mode # "none" => scene.lib = mode)
        /\ \/ h = 0 /\ mode = "none" /\ image' = image
           \/ OpensImage(c, h)
  <2>1. CASE InitFails(c, 0) /\ image' = image
    <3>1. CommIs(c, "unregister", "none", 0)
      BY <1>2, <1>4, <2>1, CommSet DEF InitFails
    <3> QED
      BY <1>4, <2>1, <3>1
  <2>2. ASSUME NEW h \in 1 .. Len(image) + 1, OpenLibrary(c, h),
               \/ InitFails(c, h)
               \/ scene.lib = "legacy" /\ comm' = [comm EXCEPT ![c].pc = "ready", ![c].mode = "legacy", ![c].handle = h]
        PROVE  \E mode \in {"none", "legacy"}, l \in {"ready", "unregister"}, n \in Nat :
                 /\ CommIs(c, l, mode, n) /\ (mode = "none" <=> l = "unregister") /\ (mode # "none" => scene.lib = mode)
                 /\ \/ n = 0 /\ mode = "none" /\ image' = image
                    \/ OpensImage(c, n)
    <3>1. h \in Nat
      BY DEF BackendTypes
    <3>2. OpensImage(c, h)
      BY <2>2 DEF OpenLibrary, OpensImage, JoinsImage
    <3>3. CASE InitFails(c, h)
      <4>1. CommIs(c, "unregister", "none", h)
        BY <1>2, <1>4, <3>1, <3>3, CommSet DEF InitFails
      <4> QED
        BY <3>1, <3>2, <4>1
    <3>4. CASE scene.lib = "legacy" /\ comm' = [comm EXCEPT ![c].pc = "ready", ![c].mode = "legacy", ![c].handle = h]
      <4>1. CommIs(c, "ready", "legacy", h)
        BY <1>4, <3>1, <3>4, CommSet
      <4> QED
        BY <3>1, <3>2, <3>4, <4>1
    <3> QED
      BY <2>2, <3>3, <3>4
  <2>3. \/ InitFails(c, 0) /\ image' = image
        \/ \E h \in 1 .. Len(image) + 1 :
             /\ OpenLibrary(c, h)
             /\ \/ InitFails(c, h)
                \/ scene.lib = "legacy" /\ comm' = [comm EXCEPT ![c].pc = "ready", ![c].mode = "legacy", ![c].handle = h]
    BY DEF LoadLibrary
  <2> QED
    BY <2>1, <2>2, <2>3
<1>6. PICK mode \in {"none", "legacy"}, l \in {"ready", "unregister"}, h \in Nat :
        /\ CommIs(c, l, mode, h) /\ (mode = "none" <=> l = "unregister") /\ (mode # "none" => scene.lib = mode)
        /\ \/ h = 0 /\ mode = "none" /\ image' = image
           \/ OpensImage(c, h)
  BY <1>5
<1>7. image' \in Seq(BackendImage) /\ SharedInv' /\ CopyInv' /\ ImageInv'
  BY <1>1, <1>2, <1>6, OwnCopy
<1>8. CommInv'
  BY <1>1, <1>2, <1>6, CommKept DEF CommInv, Starting, LockStep, CommIs
<1>9. BackendTypes'
  BY <1>1, <1>6, <1>7 DEF BackendTypes, dmaState, CommIs
<1>10. SlotInv' /\ DmaInv'
  BY <1>1, <1>6, SlotsOther DEF Registered, Running, CommIs
<1> QED
  BY <1>7, <1>8, <1>9, <1>10

LEMMA ClosedIs ==
  ASSUME BackendTypes, NEW h \in DOMAIN image, NEW who, NEW exit \in BOOLEAN, image' = Closed(h, who, exit)
  PROVE  /\ image' \in Seq(BackendImage) /\ DOMAIN image' = DOMAIN image
         /\ \A k \in DOMAIN image : k # h => image'[k] = image[k]
         /\ image'[h].by = image[h].by \ {who} /\ image'[h].load = image[h].load /\ image'[h].inits = image[h].inits /\ image'[h].hooked = image[h].hooked
         /\ image'[h].rehooked = image[h].rehooked /\ image'[h].exits = image[h].exits + (IF exit THEN 1 ELSE 0)
<1>1. image \in Seq(BackendImage)
  BY DEF BackendTypes
<1>2. PICK m \in BackendImage : m = image[h]
  BY <1>1
<1>3. m.exits \in Nat /\ m.running \in BOOLEAN
  BY DEF BackendImage
<1>4. PICK x \in BOOLEAN : x = (m.running /\ ~exit)
  OBVIOUS
<1>5. PICK y \in Nat : y = m.exits + (IF exit THEN 1 ELSE 0)
  BY <1>3
<1>10. PICK b : b = m.by \ {who}
  OBVIOUS
<1>6. PICK r : r = [m EXCEPT !.by = b, !.running = x, !.exits = y]
  OBVIOUS
<1>7. r \in BackendImage /\ r.by = b /\ r.load = m.load /\ r.inits = m.inits /\ r.hooked = m.hooked /\ r.rehooked = m.rehooked /\ r.exits = y
  BY <1>6, <1>10 DEF BackendImage
<1>8. image' = [image EXCEPT ![h] = r]
  <2>1. image' = [image EXCEPT ![h].by = image[h].by \ {who}, ![h].running = image[h].running /\ ~exit, ![h].exits = image[h].exits + (IF exit THEN 1 ELSE 0)]
    BY <1>1 DEF Closed
  <2>2. image' = [image EXCEPT ![h].by = b, ![h].running = x, ![h].exits = y]
    BY <1>2, <1>4, <1>5, <1>10, <2>1
  <2> QED
    BY <1>1, <1>2, <1>6, <2>2
<1>9. image' \in Seq(BackendImage) /\ DOMAIN image' = DOMAIN image /\ image'[h] = r /\ \A k \in DOMAIN image : k # h => image'[k] = image[k]
  BY ONLY <1>1, <1>7, <1>8, h \in DOMAIN image
<1> QED
  BY <1>2, <1>5, <1>7, <1>9, <1>10

(* The three ways ~TTSimCommunicator leaves the library.                   *)
LEMMA ReleaseLast ==
  ASSUME BackendInv, NEW c \in SimChips, comm[c].pc = "release", LastUser(c), comm' = [comm EXCEPT ![c] = NoComm],
         image' = Closed(shared.handle, NoChip, TRUE), shared' = [handle |-> 0, refs |-> shared.refs - 1, init |-> FALSE]
  PROVE  /\ image' \in Seq(BackendImage) /\ shared' \in [handle : Nat, refs : Int, init : BOOLEAN]
         /\ Users = {c} /\ SharedInv' /\ CopyInv' /\ ImageInv'
<1> USE DEF BackendInv
<1>1. comm'[c] = NoComm /\ \A d \in SimChips : d # c => comm'[d] = comm[d]
  BY DEF BackendTypes
<1>2. Users = {c}
  <2>1. c \in Users /\ Cardinality(Users) = 1
    BY DEF LastUser, SharedInv, Users
  <2>2. PICK x : Users = {x}
    BY <2>1, UsersFinite, FS_Singleton
  <2> QED
    BY <2>1, <2>2
<1>3. Users' = {} /\ \A d \in SimChips : (d # c => (Owns(d)' <=> Owns(d))) /\ ~Owns(c)' /\ ~Owns(c)
  BY <1>1, <1>2 DEF Users, UsesShared, Owns, NoComm
<1>4. PICK h \in DOMAIN image : h = shared.handle
  BY <1>2 DEF SharedInv
<1>5. /\ image' \in Seq(BackendImage) /\ DOMAIN image' = DOMAIN image
      /\ \A k \in DOMAIN image : k # h => image'[k] = image[k]
      /\ image'[h].by = image[h].by \ {NoChip} /\ image'[h].load = image[h].load /\ image'[h].inits = image[h].inits /\ image'[h].hooked = image[h].hooked
      /\ image'[h].rehooked = image[h].rehooked /\ image'[h].exits = image[h].exits + 1
  BY <1>4, ClosedIs
<1>6. h # 0 /\ image[h].inits = 1 /\ image[h].exits = 0
  <2>1. shared.init
    BY <1>2 DEF SharedInv
  <2> QED
    BY <1>2, <1>4, <2>1 DEF SharedInv
<1>12. image'[h].by = {} /\ image[h].load = "shared"
  <2>1. \A d \in image[h].by : d = NoChip
    BY <1>4 DEF ImageInv, Holder, CopyInv
  <2> QED
    BY <1>4, <1>5, <1>6, <2>1 DEF SharedInv
<1>7. ImageOk(image'[h])
  <2>1. ~image[h].rehooked /\ (image[h].inits > 0 => image[h].hooked)
    BY <1>12 DEF ImageInv, ImageOk
  <2>2. image'[h].inits = 1 /\ image'[h].exits = 1 /\ ~image'[h].rehooked /\ image'[h].hooked
    <3>1. image'[h].exits = 0 + 1
      BY ONLY <1>5, <1>6, Zenon
    <3>2. image'[h].inits = 1 /\ ~image'[h].rehooked
      BY ONLY <1>5, <1>6, <2>1
    <3>3. image[h].hooked
      BY ONLY <1>6, <2>1
    <3> QED
      BY ONLY <1>5, <3>1, <3>2, <3>3
  <2> QED
    BY ONLY <2>2 DEF ImageOk
<1>8. shared' \in [handle : Nat, refs : Int, init : BOOLEAN] /\ shared'.handle = 0 /\ shared'.refs = 0 /\ ~shared'.init
  BY DEF BackendTypes, LastUser
<1>9. SharedInv'
  BY <1>3, <1>8, FS_EmptySet DEF SharedInv
<1>10. CopyInv'
  <2>1. ASSUME NEW d \in SimChips, Owns(d)'
        PROVE  /\ comm'[d].handle \in DOMAIN image' /\ d \in image'[comm'[d].handle].by /\ comm'[d].handle # shared'.handle
               /\ ~Joint(comm[d].handle)' => \A e \in SimChips : e # d => comm'[e].handle # comm'[d].handle
               /\ CopyAt(comm'[d].pc, image'[comm'[d].handle])
    <3>1. d # c /\ Owns(d) /\ comm'[d] = comm[d]
      BY <1>1, <1>3, <2>1
    <3>2. comm[d].handle \in DOMAIN image /\ comm[d].handle # h /\ comm[d].handle # 0
      BY <1>4, <3>1 DEF CopyInv, Owns
    <3>4. image'[comm[d].handle] = image[comm[d].handle]
      BY <1>5, <3>2
    <3>6. ~Joint(comm[d].handle) => \A e \in SimChips : e # d => comm[e].handle # comm[d].handle
      BY <3>1 DEF CopyInv
    <3>7. \A e \in SimChips : comm'[e].handle = comm[e].handle \/ comm'[e].handle = 0
      BY <1>1 DEF NoComm
    <3>3. ~Joint(comm[d].handle)' => \A e \in SimChips : e # d => comm'[e].handle # comm[d].handle
      BY <3>1, <3>2, <3>4, <3>6, <3>7 DEF Joint
    <3>5. d \in image[comm[d].handle].by /\ CopyAt(comm[d].pc, image[comm[d].handle])
      BY <3>1 DEF CopyInv
    <3> QED
      BY <1>5, <1>8, <3>1, <3>2, <3>3, <3>4, <3>5
  <2>2. \A d \in SimChips : comm'[d].mode = "legacy" => comm'[d].handle # 0
    BY <1>1 DEF CopyInv, NoComm
  <2> QED
    BY <2>1, <2>2 DEF CopyInv
<1>11. ImageInv'
  <2>1. ASSUME NEW k \in DOMAIN image, k # h
        PROVE  ImageOk(image'[k]) /\ \A d \in image'[k].by : Holder(d, k)'
    <3>1. ImageOk(image[k]) /\ \A d \in image[k].by : Holder(d, k)
      BY DEF ImageInv
    <3> QED
      BY <1>1, <1>3, <1>4, <1>5, <2>1, <3>1 DEF Holder
  <2> QED
    BY <1>5, <1>7, <1>12, <2>1 DEF ImageInv
<1> QED
  BY <1>2, <1>5, <1>8, <1>9, <1>10, <1>11

LEMMA ReleaseShared ==
  ASSUME BackendInv, NEW c \in SimChips, comm[c].pc = "release", UsesShared(c), ~LastUser(c), comm' = [comm EXCEPT ![c] = NoComm],
         image' = image, shared' = [shared EXCEPT !.refs = @ - 1]
  PROVE  /\ shared' \in [handle : Nat, refs : Int, init : BOOLEAN] /\ shared'.init = shared.init
         /\ SharedInv' /\ CopyInv' /\ ImageInv'
<1> USE DEF BackendInv
<1>1. comm'[c] = NoComm /\ \A d \in SimChips : d # c => comm'[d] = comm[d]
  BY DEF BackendTypes
<1>2. c \in Users /\ Users \subseteq SimChips
  BY DEF Users
<1>3. Users' = Users \ {c} /\ \A d \in SimChips : (d # c => (Owns(d)' <=> Owns(d))) /\ ~Owns(c)' /\ ~Owns(c)
  BY <1>1 DEF Users, UsesShared, Owns, NoComm
<1>4. Cardinality(Users \ {c}) = shared.refs - 1
  BY <1>2, UsersFinite, FS_RemoveElement DEF SharedInv
<1>5. Users' # {}
  <2>1. shared.refs # 1 /\ shared.refs \in Int
    BY DEF LastUser, BackendTypes
  <2>2. Users \ {c} # {}
    BY <1>4, <2>1, FS_EmptySet
  <2> QED
    BY <1>3, <2>2
<1>6. shared' \in [handle : Nat, refs : Int, init : BOOLEAN] /\ shared'.init = shared.init /\ shared'.refs = shared.refs - 1 /\ shared'.handle = shared.handle
  <2>1. shared \in [handle : Nat, refs : Int, init : BOOLEAN] /\ shared.refs - 1 \in Int
    BY DEF BackendTypes
  <2>2. PICK x \in Int : x = shared.refs - 1
    BY <2>1
  <2>3. shared' = [shared EXCEPT !.refs = x]
    BY <2>2, Zenon
  <2>4. shared' \in [handle : Nat, refs : Int, init : BOOLEAN] /\ shared'.init = shared.init /\ shared'.refs = x /\ shared'.handle = shared.handle
    BY <2>1, <2>3
  <2> QED
    BY <2>2, <2>4
<1>7. SharedInv'
  <2>1. \A d \in Users' : d \in Users /\ d # c /\ comm'[d] = comm[d]
    BY <1>1, <1>2, <1>3
  <2>2. ASSUME NEW d \in Users' PROVE comm'[d].pc \in {"unregister", "release"} => shared.init \/ \E e \in Users' : comm'[e].pc = "hooked"
    <3>1. (\E e \in Users : comm[e].pc = "hooked") => \E e \in Users' : comm'[e].pc = "hooked"
      BY <1>1, <1>2, <1>3
    <3> QED
      BY <2>1, <3>1 DEF SharedInv
  <2>3. \A d \in Users' :
          /\ comm'[d].handle = shared.handle
          /\ comm'[d].pc \in Running => shared.init
          /\ comm'[d].pc = "hooked" => image[shared.handle].hooked
    BY <2>1 DEF SharedInv
  <2>4. shared.handle # 0
    BY <1>2 DEF SharedInv
  <2>5. shared'.refs = Cardinality(Users')
    BY <1>3, <1>4, <1>6
  <2> QED
    BY <1>5, <1>6, <2>2, <2>3, <2>4, <2>5 DEF SharedInv, Loaded
<1>8. CopyInv'
  <2>1. ASSUME NEW d \in SimChips, Owns(d)'
        PROVE  /\ comm'[d].handle \in DOMAIN image' /\ d \in image'[comm'[d].handle].by /\ comm'[d].handle # shared'.handle
               /\ ~Joint(comm[d].handle)' => \A e \in SimChips : e # d => comm'[e].handle # comm'[d].handle
               /\ CopyAt(comm'[d].pc, image'[comm'[d].handle])
    <3>1. d # c /\ Owns(d) /\ comm'[d] = comm[d] /\ comm[d].handle # 0
      BY <1>1, <1>3, <2>1 DEF Owns
    <3>2. ~Joint(comm[d].handle)' => \A e \in SimChips : e # d => comm'[e].handle # comm[d].handle
      BY <1>1, <3>1 DEF CopyInv, NoComm, Joint
    <3> QED
      BY <1>6, <3>1, <3>2 DEF CopyInv
  <2>2. \A d \in SimChips : comm'[d].mode = "legacy" => comm'[d].handle # 0
    BY <1>1 DEF CopyInv, NoComm
  <2> QED
    BY <2>1, <2>2 DEF CopyInv
<1>9. ImageInv'
  BY <1>1, <1>3, <1>6 DEF ImageInv, Holder
<1> QED
  BY <1>6, <1>7, <1>8, <1>9

LEMMA ReleaseCopy ==
  ASSUME BackendInv, NEW c \in SimChips, comm[c].pc = "release", ~UsesShared(c), comm' = [comm EXCEPT ![c] = NoComm],
         image' = IF comm[c].handle # 0 /\ comm[c].handle # shared.handle THEN Closed(comm[c].handle, c, FALSE) ELSE image, shared' = shared
  PROVE  image' \in Seq(BackendImage) /\ SharedInv' /\ CopyInv' /\ ImageInv'
<1> USE DEF BackendInv
<1>1. comm'[c] = NoComm /\ \A d \in SimChips : d # c => comm'[d] = comm[d]
  BY DEF BackendTypes
<1>2. Users' = Users /\ c \notin Users /\ Users \subseteq SimChips /\ \A d \in SimChips : (d # c => (Owns(d)' <=> Owns(d))) /\ ~Owns(c)'
  BY <1>1 DEF Users, UsesShared, Owns, NoComm
<1>3. PICK h : h = comm[c].handle
  OBVIOUS
<1>4. /\ image' \in Seq(BackendImage) /\ DOMAIN image' = DOMAIN image
      /\ \A k \in DOMAIN image : k # h => image'[k] = image[k]
      /\ Owns(c) => h # shared.handle /\ h \in DOMAIN image /\ image'[h].by = image[h].by \ {c} /\ ImageOk(image'[h])
      /\ Owns(c) => image'[h].load = image[h].load /\ image'[h].hooked = image[h].hooked
      /\ ~Owns(c) => h = 0
  <2>1. CASE ~Owns(c)
    BY <1>3, <2>1 DEF BackendTypes, Owns
  <2>2. CASE Owns(c)
    <3>1. h \in DOMAIN image /\ h # shared.handle /\ h # 0
      BY <1>3, <2>2 DEF CopyInv, Owns
    <3>2. image' = Closed(h, c, FALSE)
      BY <1>3, <3>1
    <3>3. /\ image' \in Seq(BackendImage) /\ DOMAIN image' = DOMAIN image
          /\ \A k \in DOMAIN image : k # h => image'[k] = image[k]
          /\ image'[h].by = image[h].by \ {c} /\ image'[h].load = image[h].load /\ image'[h].inits = image[h].inits /\ image'[h].hooked = image[h].hooked
          /\ image'[h].rehooked = image[h].rehooked /\ image'[h].exits = image[h].exits + 0
      BY <3>1, <3>2, ClosedIs
    <3>4. PICK x \in Nat : x = image[h].exits
      <4>1. image[h] \in BackendImage
        BY <3>1 DEF BackendTypes
      <4> QED
        BY <4>1 DEF BackendImage
    <3>5. ImageOk(image[h])
      BY <3>1 DEF ImageInv
    <3>6. image'[h].exits = image[h].exits
      BY ONLY <3>3, <3>4
    <3>7. ImageOk(image'[h])
      BY ONLY <3>3, <3>5, <3>6 DEF ImageOk
    <3> QED
      BY <2>2, <3>1, <3>3, <3>7
  <2> QED
    BY <2>1, <2>2
<1>5. SharedInv'
  <2>1. \A d \in Users : comm'[d] = comm[d]
    BY <1>1, <1>2
  <2>2. \A d \in SimChips : comm[d].pc = "probed" => comm'[d].pc = "probed"
    BY <1>1
  <2>3. shared.handle # 0 => shared.handle \in DOMAIN image' /\ image'[shared.handle] = image[shared.handle]
    BY <1>4 DEF SharedInv
  <2>4. Users # {} => shared.handle # 0
    BY DEF SharedInv
  <2>5. \A d \in Users :
       /\ comm'[d].handle = shared.handle
       /\ comm'[d].pc \in Running => shared.init
       /\ comm'[d].pc = "hooked" => image'[shared.handle].hooked
       /\ comm'[d].pc \in {"unregister", "release"} => shared.init \/ \E e \in Users : comm'[e].pc = "hooked"
    BY <2>1, <2>3, <2>4 DEF SharedInv
  <2> QED
    BY <1>2, <2>2, <2>3, <2>5 DEF SharedInv, Loaded
<1>6. CopyInv'
  <2>1. ASSUME NEW d \in SimChips, Owns(d)'
        PROVE  /\ comm'[d].handle \in DOMAIN image' /\ d \in image'[comm'[d].handle].by /\ comm'[d].handle # shared'.handle
               /\ ~Joint(comm[d].handle)' => \A e \in SimChips : e # d => comm'[e].handle # comm'[d].handle
               /\ CopyAt(comm'[d].pc, image'[comm'[d].handle])
    <3>1. d # c /\ Owns(d) /\ comm'[d] = comm[d] /\ comm[d].handle # 0
      BY <1>1, <1>2, <2>1 DEF Owns
    <3>2. comm[d].handle \in DOMAIN image /\ d \in image[comm[d].handle].by /\ comm[d].handle # shared.handle
      BY <3>1 DEF CopyInv
    <3>3. ~Joint(comm[d].handle) => comm[d].handle # h /\ \A e \in SimChips : e # d => comm'[e].handle # comm[d].handle
      BY <1>1, <1>3, <3>1 DEF CopyInv, NoComm
    <3>4. CopyAt(comm[d].pc, image[comm[d].handle])
      BY <3>1 DEF CopyInv
    <3>5. CASE comm[d].handle # h
      <4>1. image'[comm[d].handle] = image[comm[d].handle]
        BY <1>4, <3>2, <3>5
      <4> QED
        BY <1>4, <3>1, <3>2, <3>3, <3>4, <4>1 DEF Joint
    <3>6. CASE comm[d].handle = h
      <4>1. Owns(c)
        BY <1>4, <3>1, <3>6
      <4>2. image[h].load = "joint"
        BY <3>3, <3>6 DEF Joint
      <4>3. CopyAt(comm[d].pc, image'[h])
        BY <1>4, <3>4, <3>6, <4>1, <4>2 DEF CopyAt
      <4>4. d \in image'[h].by /\ image'[h].load = "joint"
        BY <1>4, <3>1, <3>2, <3>6, <4>1, <4>2
      <4> QED
        BY <1>4, <3>1, <3>2, <3>6, <4>3, <4>4 DEF Joint
    <3> QED
      BY <3>5, <3>6
  <2>2. \A d \in SimChips : comm'[d].mode = "legacy" => comm'[d].handle # 0
    BY <1>1 DEF CopyInv, NoComm
  <2> QED
    BY <2>1, <2>2 DEF CopyInv
<1>7. ImageInv'
  <2>1. ASSUME NEW k \in DOMAIN image, k # h
        PROVE  ImageOk(image'[k]) /\ \A d \in image'[k].by : Holder(d, k)'
    <3>1. ImageOk(image[k]) /\ \A d \in image[k].by : Holder(d, k)
      BY DEF ImageInv
    <3> QED
      BY <1>1, <1>2, <1>3, <1>4, <2>1, <3>1 DEF Holder
  <2>2. ASSUME h \in DOMAIN image PROVE ImageOk(image'[h]) /\ \A d \in image'[h].by : Holder(d, h)'
    <3>1. Owns(c)
      BY <1>4, <2>2 DEF BackendTypes
    <3>2. \A d \in image[h].by : Holder(d, h)
      BY <2>2 DEF ImageInv
    <3> QED
      BY <1>1, <1>2, <1>4, <3>1, <3>2 DEF Holder
  <2> QED
    BY <1>4, <2>1, <2>2 DEF ImageInv
<1> QED
  BY <1>4, <1>5, <1>6, <1>7

LEMMA ReleaseInv ==
  ASSUME BackendInv, NEW c \in SimChips, Release(c)
  PROVE  BackendInv'
<1>1. /\ comm[c].pc = "release" /\ comm' = [comm EXCEPT ![c] = NoComm]
      /\ scene' = [scene EXCEPT !.lives[c] = @ - 1] /\ UNCHANGED <<deviceLock, dmaState>>
  BY DEF Release
<1>2. BackendTypes /\ CommInv /\ SharedInv /\ SlotInv /\ DmaInv
  BY DEF BackendInv
<1>3. comm' \in [SimChips -> BackendComm] /\ comm'[c] = NoComm /\ \A d \in SimChips : d # c => comm'[d] = comm[d]
  <2>1. NoComm \in BackendComm
    BY DEF NoComm, BackendComm, CommLabels, Starting
  <2> QED
    BY <1>1, <1>2, <2>1 DEF BackendTypes
<1>4. scene' \in BackendScene /\ scene'.lib = scene.lib /\ \A d \in SimChips : d # c => scene'.lives[d] = scene.lives[d]
  BY <1>1, <1>2, SceneChange, ZenonT(60) DEF BackendTypes
<1>5. /\ image' \in Seq(BackendImage) /\ shared' \in [handle : Nat, refs : Int, init : BOOLEAN]
      /\ SharedInv' /\ CopyInv' /\ ImageInv'
      /\ \A d \in SimChips : d # c /\ UsesShared(d) => (shared.init => shared'.init)
  <2>1. CASE /\ LastUser(c)
             /\ image' = Closed(shared.handle, NoChip, TRUE)
             /\ shared' = [handle |-> 0, refs |-> shared.refs - 1, init |-> FALSE]
    <3>1. /\ image' \in Seq(BackendImage) /\ shared' \in [handle : Nat, refs : Int, init : BOOLEAN]
          /\ Users = {c} /\ SharedInv' /\ CopyInv' /\ ImageInv'
      BY <1>1, <2>1, ReleaseLast
    <3>2. \A d \in SimChips : UsesShared(d) => d = c
      BY <3>1 DEF Users
    <3> QED
      BY <3>1, <3>2
  <2>2. CASE UsesShared(c) /\ ~LastUser(c) /\ shared' = [shared EXCEPT !.refs = @ - 1] /\ UNCHANGED image
    BY <1>1, <1>2, <2>2, ReleaseShared DEF BackendTypes
  <2>3. CASE /\ ~UsesShared(c) /\ UNCHANGED shared
             /\ image' = IF comm[c].handle # 0 /\ comm[c].handle # shared.handle THEN Closed(comm[c].handle, c, FALSE) ELSE image
    BY <1>1, <1>2, <2>3, ReleaseCopy DEF BackendTypes
  <2> QED
    BY <2>1, <2>2, <2>3 DEF Release
<1>6. CommInv'
  BY <1>1, <1>2, <1>3, <1>4, CommKept DEF CommInv, LockStep, NoComm, Starting
<1>7. BackendTypes'
  BY <1>1, <1>2, <1>3, <1>4, <1>5 DEF BackendTypes, dmaState
<1>8. SlotInv' /\ DmaInv'
  BY <1>1, <1>2, <1>3, <1>4, <1>5, SlotsOther DEF Registered, Running
<1> QED
  BY <1>5, <1>6, <1>7, <1>8 DEF BackendInv

LEMMA BackendInitInv == BackendInit => BackendInv
<1> SUFFICES ASSUME BackendInit PROVE BackendInv
  OBVIOUS
<1>1. /\ scene \in BackendScenarios /\ comm = [c \in SimChips |-> NoComm] /\ shared = [handle |-> 0, refs |-> 0, init |-> FALSE]
      /\ deviceLock = NoChip /\ image = <<>> /\ dmaRanges = <<>> /\ callbackInstance = NoInst /\ dma = NoDma /\ torn = FALSE
  BY DEF BackendInit
<1>2. scene \in BackendScene
  BY <1>1, BackendBounds DEF BackendScene
<1>3. NoComm \in BackendComm /\ NoInst \in Instance
  BY DEF NoComm, BackendComm, CommLabels, Starting, NoInst, Instance
<1>4. \A c \in SimChips : comm[c] = NoComm
  BY <1>1
<1>5. BackendTypes
  <2>1. comm \in [SimChips -> BackendComm] /\ image \in Seq(BackendImage) /\ dmaRanges \in Seq(Instance)
    BY <1>1, <1>3
  <2>2. dma \in [from : SimChips \cup {NoChip}, off : Int, to : Instance, at : Int]
    BY <1>1, <1>3 DEF NoDma
  <2>3. shared \in [handle : Nat, refs : Int, init : BOOLEAN]
    BY <1>1
  <2>4. torn \in BOOLEAN
    BY <1>1, Zenon
  <2> QED
    BY <1>1, <1>2, <1>3, <2>1, <2>2, <2>3, <2>4 DEF BackendTypes
<1>6. CommInv
  BY <1>4 DEF CommInv, NoComm, Starting
<1>7. Users = {}
  BY <1>4 DEF Users, UsesShared, NoComm
<1>8. SharedInv
  BY <1>1, <1>7, FS_EmptySet DEF SharedInv
<1>9. CopyInv
  BY <1>4 DEF CopyInv, Owns, NoComm
<1>10. ImageInv /\ SlotInv
  BY <1>1 DEF ImageInv, SlotInv
<1>11. DmaInv
  BY <1>1 DEF DmaInv, NoDma
<1> QED
  BY <1>5, <1>6, <1>8, <1>9, <1>10, <1>11 DEF BackendInv

LEMMA BackendNextInv == BackendInv /\ BackendNext => BackendInv'
<1> SUFFICES ASSUME BackendInv, NEW c \in SimChips,
               \/ Probe(c) \/ CommitShared(c) \/ CommitBdf(c) \/ LoadLibrary(c)
               \/ SetCallbacks(c) \/ StartSim(c) \/ ConfigureIatu(c)
               \/ BeginIo(c) \/ EndIo(c) \/ RouteDma(c) \/ DmaCallback(c)
               \/ CloseTTSim(c) \/ ShutdownSim(c) \/ Unregister(c) \/ Release(c)
             PROVE  BackendInv'
  BY DEF BackendNext
<1> QED
  BY ProbeInv, CommitSharedInv, CommitBdfInv, LoadLibraryInv, SetCallbacksInv, StartSimInv, ConfigureIatuInv, BeginIoInv,
     RouteDmaInv, DmaCallbackInv, CloseTTSimInv, ShutdownSimInv, UnregisterInv, ReleaseInv

LEMMA BackendStutter == BackendInv /\ UNCHANGED backendVars => BackendInv'
<1> SUFFICES ASSUME BackendInv, UNCHANGED backendVars PROVE BackendInv'
  OBVIOUS
<1>1. UNCHANGED <<scene, comm, shared, deviceLock, image, dmaRanges, callbackInstance, dma, torn>>
  BY DEF backendVars
<1>2. BackendTypes' /\ CommInv'
  BY <1>1 DEF BackendInv, BackendTypes, CommInv
<1>3. \A c \in SimChips : UsesShared(c)' = UsesShared(c) /\ Owns(c)' = Owns(c)
  BY <1>1 DEF UsesShared, Owns
<1>4. Users' = Users
  BY <1>3 DEF Users
<1>5. SharedInv' /\ CopyInv'
  BY <1>1, <1>3, <1>4 DEF BackendInv, SharedInv, CopyInv, Loaded, Joint
<1>7. ImageInv'
  BY <1>1, <1>3 DEF BackendInv, ImageInv, Holder
<1>6. SlotInv' /\ DmaInv'
  BY <1>1 DEF BackendInv, SlotInv, DmaInv, LiveInst, Inst, Slots, UsesShared
<1> QED
  BY <1>2, <1>5, <1>6, <1>7 DEF BackendInv

LEMMA BackendInvSound == BackendInv => BackendSound
<1> SUFFICES ASSUME BackendInv PROVE BackendSound
  OBVIOUS
<1> USE DEF BackendInv
<1>1. \A c \in SimChips : HasImage(c) => Loaded(comm[c].handle)
  BY HandleOpen DEF HasImage, Loaded
<1>2. \A c \in SimChips : comm[c].pc \in {"started", "up", "io", "routed"} => image[comm[c].handle].running \/ Joint(comm[c].handle)
  <2>1. ASSUME NEW c \in SimChips, comm[c].pc \in Running PROVE image[comm[c].handle].running \/ Joint(comm[c].handle)
    <3>1. comm[c].mode # "none"
      BY <2>1 DEF CommInv, Running, Starting
    <3>2. CASE UsesShared(c)
      BY <2>1, <3>2 DEF SharedInv, Users
    <3>3. CASE ~UsesShared(c)
      <4>1. Owns(c)
        BY <3>1, <3>3 DEF CopyInv, UsesShared, Owns, BackendTypes, BackendComm
      <4> QED
        BY <2>1, <4>1 DEF CopyInv, CopyAt, Joint
    <3> QED
      BY <3>2, <3>3
  <2> QED
    BY <2>1 DEF Running
<1>3. \A h \in DOMAIN image :
        /\ ~Joint(h) => image[h].inits <= 1 /\ image[h].exits <= image[h].inits /\ ~image[h].rehooked
        /\ image[h].inits > 0 => image[h].hooked
        /\ ~Loaded(h) => h # shared.handle
  BY DEF ImageInv, ImageOk, SharedInv, BackendTypes, Joint
<1>4. ASSUME \A c \in SimChips : comm[c].pc = "none" PROVE \A h \in DOMAIN image : ~Loaded(h)
  <2>1. \A c \in SimChips : ~Owns(c) /\ ~UsesShared(c)
    BY <1>4 DEF CommInv, Starting, Owns, UsesShared
  <2>2. shared.handle = 0
    BY <1>4, <2>1 DEF SharedInv, Users
  <2>3. 0 \notin DOMAIN image
    BY DEF BackendTypes
  <2> QED
    BY <2>1, <2>2, <2>3 DEF ImageInv, Holder, Loaded
<1>9. \A c \in Users : comm[c].handle = shared.handle /\ ~Joint(shared.handle)
  BY DEF SharedInv, Joint
<1>5. SharedLibrarySound
  BY <1>1, <1>2, <1>3, <1>4, <1>9 DEF SharedLibrarySound, SharedInv
<1>6. dma.to # NoInst /\ ~torn => comm[dma.to.chip].pc # "none" /\ dma.to = Inst(dma.to.chip)
  BY DEF DmaInv, LiveInst, Registered, Running
<1>7. \A i \in DOMAIN dmaRanges : dmaRanges[i] = Inst(dmaRanges[i].chip) /\ comm[dmaRanges[i].chip].pc \notin {"none", "release"}
  BY DEF SlotInv, LiveInst, Registered, Running
<1>8. DmaReachesOwner
  BY <1>6, <1>7 DEF DmaReachesOwner, DmaInv
<1> QED
  BY <1>5, <1>8 DEF BackendSound

(* BackendSound, for any number of chips, window table size and stride:    *)
(* through failed constructions, full tables, closings and destructions by *)
(* other threads, the library of initialize() stays loaded while a chip    *)
(* uses it and is closed when the last chip is gone; unless two chips have *)
(* dlopen()ed the file of a single-chip library itself, it is initialised, *)
(* hooked and ended once and in order; and dma_route() hands an access of  *)
(* a chip to the communicator of that chip, which the table never names    *)
(* once destroyed.                                                         *)
THEOREM LibraryOutlivesUsers == SimulationSpec => []BackendSound
<1>1. SimulationInit => BackendInv
  BY BackendInitInv DEF SimulationInit
<1>2. BackendInv /\ [SimulationNext]_vars => BackendInv'
  BY BackendNextInv, BackendStutter DEF SimulationNext, Servers, Rtls, Backends, vars, backendVars
<1> QED
  BY <1>1, <1>2, BackendInvSound, PTL DEF SimulationSpec

-----------------------------------------------------------------------------
(* RtlSimulation.                                                          *)

RtlWhat == RtlCores \cup {"dms", "uncores"}
RtlHeld == [RtlTile -> SUBSET RtlCores]
RtlDatum == [of : RtlThread, value : Nat, writes : Nat]
RtlToSim ==
  [kind : {"read"}, of : RtlThread] \cup [kind : {"write"}, of : RtlThread, value : Nat, words : Nat]
  \cup [kind : {"hold", "free"}, what : RtlWhat, tile : RtlTile] \cup [kind : {"ramread"}, value : Nat] \cup [kind : {"exit"}]
Hello == {"exit", "other"}
RtlFromSim == [kind : Hello] \cup RtlNote \cup [kind : {"response"}, data : RtlDatum]

RtlTypes ==
  /\ run \in RtlScenarios /\ up \in {"new", "waiting", "failed", "ready", "stopping", "joining", "down"}
  /\ todo \in [RtlThread -> Seq(RtlOp)] /\ pc \in [RtlThread -> {"idle", "send", "test", "tested", "asleep"}]
  /\ got \in [RtlThread -> RtlDatum \cup {Nothing}] /\ sent \in [RtlThread -> Nat]
  /\ toSim \in Seq(RtlToSim) /\ fromSim \in Seq(RtlFromSim) /\ queue \in Seq(RtlDatum)
  /\ running \in BOOLEAN /\ handler \in {"none", "test", "recv", "notify", "reply", "gone"}
  /\ ramReply \in Nat /\ sysmem \in Nat /\ answered \in Seq(Nat) /\ notes \in Seq(RtlNote)
  /\ cell \in [RtlThread -> Nat] /\ held \in RtlHeld /\ crossed \in BOOLEAN

(* What a thread has still to call is the rest of its calls; one call at a *)
(* time is made through the device.                                        *)
CallsInv == \A t \in RtlThread :
  /\ Len(todo[t]) <= Len(run.calls[t])
  /\ \A j \in 1 .. Len(todo[t]) : todo[t][j] = run.calls[t][Done(t) + j]
  /\ pc[t] # "idle" => todo[t] # <<>> /\ (Call(t).via = "device" => owner = t)
  /\ pc[t] = "send" /\ Call(t).kind = "read" => sent[t] = 0
  /\ Waiting(t) => Call(t).kind = "read"

(* Before the acknowledgement nobody calls.                                *)
EarlyInv ==
  /\ up \in {"new", "waiting", "failed"} =>
       /\ \A t \in RtlThread : pc[t] = "idle" /\ Done(t) = 0
       /\ toSim = <<>> /\ queue = <<>> /\ \A i \in DOMAIN fromSim : fromSim[i].kind \in Hello
       /\ handler = "none"
  /\ up = "new" => fromSim = <<>>
  /\ up = "ready" => running

(* The device after the commands before it in the socket.                  *)
RtlDevice == [held : RtlHeld, cell : [RtlThread -> Nat], count : Nat]
Holding(H, w, b) == [k \in RtlTile |-> H[k] \cup Affected(w, b, k)]
Freeing(H, w, b) == [k \in RtlTile |-> H[k] \ Affected(w, b, k)]
Effect(m, x) ==
  [held |-> IF m.kind = "hold" THEN Holding(x.held, m.what, m.tile)
            ELSE IF m.kind = "free" THEN Freeing(x.held, m.what, m.tile) ELSE x.held,
   cell |-> IF m.kind = "write" /\ m.words # 0 THEN [x.cell EXCEPT ![m.of] = m.value] ELSE x.cell,
   count |-> IF m.kind = "ramread" THEN x.count + 1 ELSE x.count]
Course(s, x, h) ==
  h \in [0 .. Len(s) -> RtlDevice] /\ h[0] = x /\ \A i \in 1 .. Len(s) : h[i] = Effect(s[i], h[i - 1])

(* The accesses to host memory before a message in the other direction.    *)
Passed(s, q) ==
  /\ q \in [0 .. Len(s) -> 0 .. Len(run.notes)]
  /\ \A i \in 1 .. Len(s) : q[i] = IF s[i].kind \in {"ramread", "ramwrite"} THEN q[i - 1] + 1 ELSE q[i - 1]

(* Cores are held in the order of the reset, also in the middle of it.     *)
Ordered(H) == "uncore" \in H => Dms \subseteq H
Beside(H) == Dms \cap H # {} => "tensix" \in H
Steady(H) == \A k \in RtlTile : (Lone(k) => Ordered(H[k])) /\ Beside(H[k])
Underway(assert, n, H) ==
  IF assert THEN (n >= 1 => "tensix" \in H) /\ (n >= 2 => Dms \subseteq H)
            ELSE (n >= 1 => "uncore" \notin H) /\ (n >= 2 => Dms \cap H = {})
ResetInv(h) == OnlyAll =>
  /\ \A i \in 0 .. Len(toSim) : Steady(h[i].held)
  /\ \A t \in RtlThread : pc[t] = "send" /\ Call(t).kind = "reset" => Underway(Call(t).assert, sent[t], h[Len(toSim)].held[Call(t).tile])

(* The last word a thread has put into the socket.                         *)
LastSent(t) ==
  IF pc[t] = "send" /\ sent[t] >= 1 /\ WholeWrite(Call(t)) THEN Call(t).value ELSE WroteLast(t)
CellInv(h) == \A t \in RtlThread : h[Len(toSim)].cell[t] = LastSent(t)

(* One reader at a time has one request, on its way there, on its way back *)
(* or in the queue, for what it wrote last.                                *)
Reads == {i \in DOMAIN toSim : toSim[i].kind = "read"}
Responses == {i \in DOMAIN fromSim : fromSim[i].kind = "response"}
Calm == up = "ready" /\ ~crossed
ReaderInv == Calm =>
  /\ \A t, u \in RtlThread : Waiting(t) /\ Waiting(u) => t = u
  /\ \A i \in Reads : Waiting(toSim[i].of) /\ Responses = {} /\ queue = <<>> /\ \A j \in Reads : i = j
  /\ \A i \in Responses :
       /\ Waiting(fromSim[i].data.of) /\ fromSim[i].data.value = LastSent(fromSim[i].data.of)
       /\ queue = <<>> /\ \A j \in Responses : i = j
  /\ \A i \in DOMAIN queue : i = 1 /\ Waiting(queue[i].of) /\ queue[i].value = LastSent(queue[i].of)
  /\ \A t \in RtlThread : Done(t) > 0 /\ run.calls[t][Done(t)].kind = "read" => got[t].of = t /\ got[t].value = WroteLast(t)
PendingInv(h) == Calm => \A i \in Reads : h[i].cell[toSim[i].of] = h[Len(toSim)].cell[toSim[i].of]

CrossInv == crossed => \E t \in RtlThread : \E i \in DOMAIN run.calls[t] : run.calls[t][i].via = "window"

(* The i-th read of host memory that is answered has the value v.          *)
Right(i, v) == \E k \in DOMAIN run.notes :
  Answers(run.notes[k]) /\ ReadsTo(k) = i /\ v = IF run.callbacks THEN WritesTo(k) ELSE 0
MemoryOrder(h, q) ==
  /\ \A i \in 1 .. Len(fromSim) :
       /\ fromSim[i].kind \in {"ramread", "ramwrite"} => q[i] >= 1 /\ fromSim[i] = run.notes[q[i]]
       /\ fromSim[i].kind = "response" => fromSim[i].data.writes = WritesTo(q[i])
  /\ q[Len(fromSim)] = Made
  /\ Len(notes) <= Len(run.notes) /\ \A j \in 1 .. Len(notes) : notes[j] = run.notes[Made + j]
  /\ sysmem = IF run.callbacks THEN WritesTo(q[0]) ELSE 0
  /\ h[Len(toSim)].count + (IF handler = "reply" THEN 1 ELSE 0) = ReadsTo(q[0])
  /\ handler = "reply" => Right(ReadsTo(q[0]), ramReply)
  /\ \A i \in 1 .. Len(toSim) : toSim[i].kind = "ramread" => Right(h[i].count, toSim[i].value)
  /\ \A i \in DOMAIN answered : Right(i, answered[i])
  /\ run.callbacks => \A i \in DOMAIN queue : queue[i].writes <= sysmem
  /\ run.callbacks => \A t \in RtlThread : got[t].writes <= sysmem

SocketsInv(h, q) ==
  /\ Course(toSim, [held |-> held, cell |-> cell, count |-> Len(answered)], h) /\ Passed(fromSim, q)
  /\ ResetInv(h) /\ CellInv(h) /\ PendingInv(h) /\ MemoryOrder(h, q)

RtlInv == RtlTypes /\ CallsInv /\ EarlyInv /\ ReaderInv /\ CrossInv /\ \E h, q : SocketsInv(h, q)

LEMMA RtlConstant ==
  ASSUME run' = run
  PROVE  /\ \A k : WritesTo(k)' = WritesTo(k) /\ ReadsTo(k)' = ReadsTo(k)
         /\ \A i, v : Right(i, v)' <=> Right(i, v)
         /\ OnlyAll' <=> OnlyAll
         /\ \A H : Steady(H)' <=> Steady(H)
<1>1. \A k : WritesTo(k)' = WritesTo(k) /\ ReadsTo(k)' = ReadsTo(k)
  BY DEF WritesTo, ReadsTo, Stores, Answers
<1>2. \A i, v : Right(i, v)' <=> Right(i, v)
  BY <1>1 DEF Right, Answers
<1>3. \A k : Lone(k)' <=> Lone(k)
  BY DEF Lone
<1>4. \A H : Steady(H)' <=> Steady(H)
  BY <1>3 DEF Steady, Ordered, Beside
<1>5. OnlyAll' <=> OnlyAll
  BY DEF OnlyAll
<1> QED
  BY <1>1, <1>2, <1>4, <1>5

LEMMA RtlFacts ==
  ASSUME run \in RtlScenarios
  PROVE  /\ run.calls \in [RtlThread -> Seq(RtlOp)] /\ run.notes \in Seq(RtlNote) /\ run.callbacks \in BOOLEAN
         /\ Free \notin RtlThread /\ RiscTypesDms \in Seq(Dms)
         /\ "uncore" \notin Dms /\ "tensix" \notin Dms /\ "dms" \notin Dms /\ "none" \notin Dms
         /\ "all" \notin Dms /\ "uncores" \notin Dms /\ "triscs" \notin Dms /\ "alltriscs" \notin Dms /\ "alldms" \notin Dms
  BY RtlAssumption

(* The first k elements of a set of indexes, counted.                      *)
LEMMA CountIs ==
  ASSUME NEW S \in SUBSET (Nat \ {0}), NEW k \in Nat
  PROVE  /\ Cardinality({i \in 1 .. k : i \in S}) \in Nat /\ Cardinality({i \in 1 .. 0 : i \in S}) = 0
         /\ Cardinality({i \in 1 .. (k + 1) : i \in S}) = Cardinality({i \in 1 .. k : i \in S}) + IF k + 1 \in S THEN 1 ELSE 0
<1> DEFINE A(n) == {i \in 1 .. n : i \in S}
<1>1. IsFiniteSet(A(k)) /\ Cardinality(A(k)) \in Nat
  <2>1. A(k) \in SUBSET (1 .. k)
    OBVIOUS
  <2>2. IsFiniteSet(1 .. k)
    BY FS_Interval
  <2> HIDE DEF A
  <2> QED
    BY <2>1, <2>2, FS_Subset, FS_CardinalityType
<1>2. A(0) = {}
  OBVIOUS
<1>3. A(k + 1) = IF k + 1 \in S THEN A(k) \cup {k + 1} ELSE A(k)
  OBVIOUS
<1>4. k + 1 \notin A(k)
  OBVIOUS
<1>5. Cardinality({}) = 0
  BY FS_EmptySet
<1> HIDE DEF A
<1>6. Cardinality(A(k) \cup {k + 1}) = Cardinality(A(k)) + 1
  BY <1>1, <1>4, FS_AddElement
<1>7. Cardinality(A(k)) \in Nat /\ Cardinality(A(0)) = 0 /\ Cardinality(A(k + 1)) = Cardinality(A(k)) + IF k + 1 \in S THEN 1 ELSE 0
  BY <1>1, <1>2, <1>3, <1>5, <1>6
<1> QED
  BY <1>7 DEF A

LEMMA WritesCounted ==
  ASSUME NEW k \in Nat
  PROVE  WritesTo(k) \in Nat /\ WritesTo(0) = 0 /\ WritesTo(k + 1) = WritesTo(k) + IF Stores(run.notes[k + 1]) THEN 1 ELSE 0
<1>1. PICK S : S = {i \in Nat \ {0} : Stores(run.notes[i])}
  OBVIOUS
<1>2. \A n \in Nat : WritesTo(n) = Cardinality({i \in 1 .. n : i \in S})
  <2> TAKE n \in Nat
  <2>1. {i \in 1 .. n : Stores(run.notes[i])} = {i \in 1 .. n : i \in S}
    BY <1>1
  <2> QED
    BY <2>1 DEF WritesTo
<1>3. S \in SUBSET (Nat \ {0}) /\ (k + 1 \in S <=> Stores(run.notes[k + 1])) /\ k + 1 \in Nat /\ 0 \in Nat
  BY <1>1
<1>4. /\ Cardinality({i \in 1 .. k : i \in S}) \in Nat /\ Cardinality({i \in 1 .. 0 : i \in S}) = 0
      /\ Cardinality({i \in 1 .. (k + 1) : i \in S}) = Cardinality({i \in 1 .. k : i \in S}) + IF k + 1 \in S THEN 1 ELSE 0
  BY <1>3, CountIs
<1> QED
  BY <1>2, <1>3, <1>4, Zenon

LEMMA ReadsCounted ==
  ASSUME NEW k \in Nat
  PROVE  ReadsTo(k) \in Nat /\ ReadsTo(0) = 0 /\ ReadsTo(k + 1) = ReadsTo(k) + IF Answers(run.notes[k + 1]) THEN 1 ELSE 0
<1>1. PICK S : S = {i \in Nat \ {0} : Answers(run.notes[i])}
  OBVIOUS
<1>2. \A n \in Nat : ReadsTo(n) = Cardinality({i \in 1 .. n : i \in S})
  <2> TAKE n \in Nat
  <2>1. {i \in 1 .. n : Answers(run.notes[i])} = {i \in 1 .. n : i \in S}
    BY <1>1
  <2> QED
    BY <2>1 DEF ReadsTo
<1>3. S \in SUBSET (Nat \ {0}) /\ (k + 1 \in S <=> Answers(run.notes[k + 1])) /\ k + 1 \in Nat /\ 0 \in Nat
  BY <1>1
<1>4. /\ Cardinality({i \in 1 .. k : i \in S}) \in Nat /\ Cardinality({i \in 1 .. 0 : i \in S}) = 0
      /\ Cardinality({i \in 1 .. (k + 1) : i \in S}) = Cardinality({i \in 1 .. k : i \in S}) + IF k + 1 \in S THEN 1 ELSE 0
  BY <1>3, CountIs
<1> QED
  BY <1>2, <1>3, <1>4, Zenon

(* The courses grow at the end and shrink at the head of a socket.         *)
LEMMA AffectedIs ==
  ASSUME NEW w \in RtlWhat, NEW b, NEW k
  PROVE  Affected(w, b, k) \subseteq RtlCores
  BY DEF Affected, RtlCores, RtlWhat

LEMMA HeldIs ==
  ASSUME NEW w \in RtlWhat, NEW b \in RtlTile, NEW H \in RtlHeld
  PROVE  Holding(H, w, b) \in RtlHeld /\ Freeing(H, w, b) \in RtlHeld
<1>1. \A k \in RtlTile : H[k] \subseteq RtlCores /\ Affected(w, b, k) \subseteq RtlCores
  BY AffectedIs DEF RtlHeld
<1>2. \A k \in RtlTile : H[k] \cup Affected(w, b, k) \in SUBSET RtlCores /\ H[k] \ Affected(w, b, k) \in SUBSET RtlCores
  BY <1>1
<1> QED
  BY <1>2 DEF Holding, Freeing, RtlHeld

LEMMA EffectType ==
  ASSUME NEW m \in RtlToSim, NEW x \in RtlDevice
  PROVE  Effect(m, x) \in RtlDevice
<1>1. m.kind \in {"hold", "free"} => m.what \in RtlWhat /\ m.tile \in RtlTile
  BY DEF RtlToSim
<1>2. m.kind = "write" => m.of \in RtlThread /\ m.value \in Nat
  BY DEF RtlToSim
<1>3. x.held \in RtlHeld /\ x.cell \in [RtlThread -> Nat] /\ x.count \in Nat
  BY DEF RtlDevice
<1>4. Effect(m, x).held \in RtlHeld
  BY <1>1, <1>3, HeldIs DEF Effect
<1>5. Effect(m, x).cell \in [RtlThread -> Nat]
  BY <1>2, <1>3 DEF Effect
<1>6. Effect(m, x).count \in Nat
  BY <1>3 DEF Effect
<1> QED
  BY <1>4, <1>5, <1>6 DEF Effect, RtlDevice

LEMMA CourseGrows ==
  ASSUME NEW s \in Seq(RtlToSim), NEW x, NEW h, Course(s, x, h), NEW m \in RtlToSim
  PROVE  \E g : /\ Course(Append(s, m), x, g) /\ g[Len(s) + 1] = Effect(m, h[Len(s)])
                /\ \A i \in 0 .. Len(s) : g[i] = h[i]
<1>1. Len(s) \in Nat /\ Len(Append(s, m)) = Len(s) + 1 /\ Append(s, m)[Len(s) + 1] = m
      /\ \A i \in 1 .. Len(s) : Append(s, m)[i] = s[i]
  OBVIOUS
<1>2. PICK n \in Nat : n = Len(s)
  BY <1>1
<1>3. PICK e : e = Effect(m, h[n])
  OBVIOUS
<1>4. h \in [0 .. n -> RtlDevice] /\ e \in RtlDevice
  BY <1>2, <1>3, EffectType DEF Course
<1>5. PICK g : g = [i \in 0 .. (n + 1) |-> IF i = n + 1 THEN e ELSE h[i]]
  OBVIOUS
<1>6. g \in [0 .. (n + 1) -> RtlDevice] /\ g[n + 1] = e /\ \A i \in 0 .. n : g[i] = h[i]
  BY <1>4, <1>5
<1>7. g[0] = x
  BY <1>6 DEF Course
<1>8. \A i \in 1 .. n : g[i] = Effect(s[i], g[i - 1])
  <2> TAKE i \in 1 .. n
  <2>1. i \in 0 .. n /\ i - 1 \in 0 .. n
    OBVIOUS
  <2>2. h[i] = Effect(s[i], h[i - 1])
    BY <1>2 DEF Course
  <2> QED
    BY <1>6, <2>1, <2>2
<1>9. \A i \in 1 .. (n + 1) : g[i] = Effect(Append(s, m)[i], g[i - 1])
  <2> TAKE i \in 1 .. (n + 1)
  <2>1. CASE i = n + 1
    <3>1. i - 1 = n /\ n \in 0 .. n
      BY <2>1
    <3> QED
      BY <1>1, <1>2, <1>3, <1>6, <2>1, <3>1
  <2>2. CASE i # n + 1
    <3>1. i \in 1 .. n
      BY <2>2
    <3> QED
      BY <1>1, <1>2, <1>8, <3>1
  <2> QED
    BY <2>1, <2>2
<1>10. Course(Append(s, m), x, g)
  <2>1. Len(Append(s, m)) = n + 1
    BY <1>1, <1>2
  <2> QED
    BY <2>1, <1>6, <1>7, <1>9 DEF Course
<1>11. g[Len(s) + 1] = Effect(m, h[Len(s)]) /\ \A i \in 0 .. Len(s) : g[i] = h[i]
  BY <1>2, <1>3, <1>6
<1> QED
  BY <1>10, <1>11

LEMMA CourseShrinks ==
  ASSUME NEW s \in Seq(RtlToSim), s # <<>>, NEW x, NEW h, Course(s, x, h)
  PROVE  \E g : /\ Course(Tail(s), Effect(Head(s), x), g)
                /\ \A i \in 0 .. Len(Tail(s)) : g[i] = h[i + 1]
<1>1. Len(s) \in Nat /\ Len(s) >= 1 /\ Len(Tail(s)) = Len(s) - 1 /\ Head(s) = s[1]
      /\ \A i \in 1 .. (Len(s) - 1) : Tail(s)[i] = s[i + 1]
  OBVIOUS
<1>2. PICK n \in Nat : n = Len(s) - 1
  <2>1. Len(s) - 1 \in Nat
    BY <1>1
  <2> QED
    BY <2>1
<1>3. h \in [0 .. (n + 1) -> RtlDevice] /\ h[0] = x /\ \A i \in 1 .. (n + 1) : h[i] = Effect(s[i], h[i - 1])
  BY <1>1, <1>2 DEF Course
<1>4. PICK g : g = [i \in 0 .. n |-> h[i + 1]]
  OBVIOUS
<1>5. g \in [0 .. n -> RtlDevice] /\ \A i \in 0 .. n : g[i] = h[i + 1]
  BY <1>3, <1>4
<1>6. g[0] = Effect(Head(s), x)
  <2>1. h[1] = Effect(s[1], h[1 - 1]) /\ g[0] = h[0 + 1]
    BY <1>3, <1>5
  <2> QED
    BY <1>1, <1>3, <2>1
<1>7. \A i \in 1 .. n : g[i] = Effect(Tail(s)[i], g[i - 1])
  <2> TAKE i \in 1 .. n
  <2>1. g[i] = h[i + 1] /\ g[i - 1] = h[(i - 1) + 1] /\ (i - 1) + 1 = i /\ (i + 1) - 1 = i
    BY <1>5
  <2>2. h[i + 1] = Effect(s[i + 1], h[(i + 1) - 1])
    BY <1>3
  <2>3. Tail(s)[i] = s[i + 1]
    BY <1>1, <1>2
  <2> QED
    BY <2>1, <2>2, <2>3
<1> QED
  BY <1>1, <1>2, <1>5, <1>6, <1>7 DEF Course

Onward(m, a) == IF m.kind \in {"ramread", "ramwrite"} THEN a + 1 ELSE a

Places == 0 .. Len(run.notes)
Longer(s, m, q, v) == \E r : Passed(Append(s, m), r) /\ r[Len(s) + 1] = v /\ \A i \in 0 .. Len(s) : r[i] = q[i]

LEMMA PassedGrows ==
  ASSUME NEW s, NEW q, NEW m, NEW v, s \in Seq(RtlFromSim), m \in RtlFromSim, v \in Places,
         run \in RtlScenarios, Passed(s, q), v = Onward(m, q[Len(s)])
  PROVE  Longer(s, m, q, v)
<1>1. Len(s) \in Nat /\ Len(Append(s, m)) = Len(s) + 1 /\ Append(s, m)[Len(s) + 1] = m
      /\ \A i \in 1 .. Len(s) : Append(s, m)[i] = s[i]
  OBVIOUS
<1>2. PICK n \in Nat, N \in Nat : n = Len(s) /\ N = Len(run.notes)
  <2>1. Len(run.notes) \in Nat
    BY RtlFacts
  <2> QED
    BY <1>1, <2>1
<1>3. q \in [0 .. n -> 0 .. N] /\ \A i \in 1 .. n : q[i] = IF s[i].kind \in {"ramread", "ramwrite"} THEN q[i - 1] + 1 ELSE q[i - 1]
  BY <1>2 DEF Passed
<1>4. PICK r : r = [i \in 0 .. (n + 1) |-> IF i = n + 1 THEN v ELSE q[i]]
  OBVIOUS
<1>5. r \in [0 .. (n + 1) -> 0 .. N] /\ r[n + 1] = v /\ \A i \in 0 .. n : r[i] = q[i]
  <2>1. v \in 0 .. N
    BY <1>2 DEF Places
  <2> QED
    BY <1>2, <1>3, <1>4, <2>1
<1>6. \A i \in 1 .. (n + 1) : r[i] = IF Append(s, m)[i].kind \in {"ramread", "ramwrite"} THEN r[i - 1] + 1 ELSE r[i - 1]
  <2> TAKE i \in 1 .. (n + 1)
  <2>1. CASE i = n + 1
    <3>1. i - 1 = n /\ n \in 0 .. n
      BY <2>1
    <3>2. v = IF m.kind \in {"ramread", "ramwrite"} THEN q[n] + 1 ELSE q[n]
      BY <1>2 DEF Onward
    <3> QED
      BY <1>1, <1>2, <1>5, <2>1, <3>1, <3>2
  <2>2. CASE i # n + 1
    <3>1. i \in 1 .. n /\ i \in 0 .. n /\ i - 1 \in 0 .. n
      BY <2>2
    <3>2. r[i] = q[i] /\ r[i - 1] = q[i - 1] /\ Append(s, m)[i] = s[i]
      BY <1>1, <1>2, <1>5, <3>1
    <3> QED
      BY <1>3, <3>1, <3>2
  <2> QED
    BY <2>1, <2>2
<1> QED
  BY <1>1, <1>2, <1>5, <1>6 DEF Passed, Longer

LEMMA PassedShrinks ==
  ASSUME run \in RtlScenarios, NEW s \in Seq(RtlFromSim), s # <<>>, NEW q, Passed(s, q)
  PROVE  \E r : Passed(Tail(s), r) /\ \A i \in 0 .. Len(Tail(s)) : r[i] = q[i + 1]
<1>1. Len(s) \in Nat /\ Len(s) >= 1 /\ Len(Tail(s)) = Len(s) - 1
      /\ \A i \in 1 .. (Len(s) - 1) : Tail(s)[i] = s[i + 1]
  OBVIOUS
<1>2. PICK n \in Nat, N \in Nat : n = Len(s) - 1 /\ N = Len(run.notes)
  <2>1. Len(run.notes) \in Nat /\ Len(s) - 1 \in Nat
    BY <1>1, RtlFacts
  <2> QED
    BY <2>1
<1>3. q \in [0 .. (n + 1) -> 0 .. N]
      /\ \A i \in 1 .. (n + 1) : q[i] = IF s[i].kind \in {"ramread", "ramwrite"} THEN q[i - 1] + 1 ELSE q[i - 1]
  BY <1>1, <1>2 DEF Passed
<1>4. PICK r : r = [i \in 0 .. n |-> q[i + 1]]
  OBVIOUS
<1>5. r \in [0 .. n -> 0 .. N] /\ \A i \in 0 .. n : r[i] = q[i + 1]
  BY <1>3, <1>4
<1>6. \A i \in 1 .. n : r[i] = IF Tail(s)[i].kind \in {"ramread", "ramwrite"} THEN r[i - 1] + 1 ELSE r[i - 1]
  <2> TAKE i \in 1 .. n
  <2>1. r[i] = q[i + 1] /\ r[i - 1] = q[(i - 1) + 1] /\ (i - 1) + 1 = i /\ (i + 1) - 1 = i /\ i + 1 \in 1 .. (n + 1)
    BY <1>5
  <2>2. Tail(s)[i] = s[i + 1]
    BY <1>1, <1>2
  <2>3. q[i + 1] = IF s[i + 1].kind \in {"ramread", "ramwrite"} THEN q[(i + 1) - 1] + 1 ELSE q[(i + 1) - 1]
    BY <1>3, <2>1
  <2> QED
    BY <2>1, <2>2, <2>3
<1> QED
  BY <1>1, <1>2, <1>5, <1>6 DEF Passed

(* The commands of a reset, and the cores they reach.                      *)
RtlCmd == [kind : {"reset"}, what : RtlWhat \cup {"none"}]

LEMMA DmCmdsAre ==
  ASSUME NEW sel, RiscTypesDms \in Seq(Dms)
  PROVE  /\ DmCmds(sel) \in Seq(RtlCmd) /\ Len(DmCmds(sel)) = Len(RiscTypesDms)
         /\ \A i \in 1 .. Len(RiscTypesDms) : DmCmds(sel)[i] = IF RiscTypesDms[i] \in sel THEN Cmd(RiscTypesDms[i]) ELSE Skip
<1>1. PICK n \in Nat : n = Len(RiscTypesDms) /\ DOMAIN RiscTypesDms = 1 .. n
  OBVIOUS
<1>2. \A i \in 1 .. n : (IF RiscTypesDms[i] \in sel THEN Cmd(RiscTypesDms[i]) ELSE Skip) \in RtlCmd
  <2> TAKE i \in 1 .. n
  <2>1. RiscTypesDms[i] \in RtlWhat \cup {"none"}
    BY <1>1 DEF RtlCores, RtlWhat
  <2> QED
    BY <2>1 DEF Skip, Cmd, RtlCmd
<1>3. DmCmds(sel) = [i \in 1 .. n |-> IF RiscTypesDms[i] \in sel THEN Cmd(RiscTypesDms[i]) ELSE Skip]
  BY <1>1 DEF DmCmds
<1>4. \A i \in 1 .. n : DmCmds(sel)[i] = IF RiscTypesDms[i] \in sel THEN Cmd(RiscTypesDms[i]) ELSE Skip
  BY <1>3
<1>5. DmCmds(sel) \in [1 .. n -> RtlCmd]
  BY <1>2, <1>3
<1>6. DmCmds(sel) \in Seq(RtlCmd) /\ Len(DmCmds(sel)) = n
  BY <1>5
<1> QED
  BY <1>1, <1>4, <1>6

LEMMA OneCommand ==
  ASSUME NEW w \in RtlWhat \cup {"none"}
  PROVE  <<Cmd(w)>> \in Seq(RtlCmd) /\ Len(<<Cmd(w)>>) = 1
<1>1. Cmd(w) \in RtlCmd
  BY DEF Cmd, RtlCmd
<1> QED
  BY <1>1

LEMMA AllOrderIs ==
  ASSUME NEW b
  PROVE  /\ AllOrder(b) \in Seq(RtlCmd) /\ Len(AllOrder(b)) = 3
         /\ b => AllOrder(b)[1] = Cmd("tensix") /\ AllOrder(b)[2] = Cmd("dms") /\ AllOrder(b)[3] = Cmd("uncores")
         /\ ~b => AllOrder(b)[1] = Cmd("uncores") /\ AllOrder(b)[2] = Cmd("dms") /\ AllOrder(b)[3] = Cmd("tensix")
<1>1. Cmd("tensix") \in RtlCmd /\ Cmd("dms") \in RtlCmd /\ Cmd("uncores") \in RtlCmd
  BY DEF Cmd, RtlCmd, RtlCores, RtlWhat
<1> QED
  BY <1>1 DEF AllOrder

LEMMA ResetCommandsAre ==
  ASSUME NEW a, NEW sel, NEW b, RiscTypesDms \in Seq(Dms)
  PROVE  ResetCommands(a, sel, b) \in Seq(RtlCmd)
<1>1. <<Cmd("tensix")>> \in Seq(RtlCmd) /\ <<Cmd("dms")>> \in Seq(RtlCmd) /\ <<Cmd("uncore")>> \in Seq(RtlCmd)
      /\ <<Cmd("uncores")>> \in Seq(RtlCmd) /\ <<>> \in Seq(RtlCmd)
  BY OneCommand DEF RtlCores, RtlWhat
<1>2. DmCmds(sel) \in Seq(RtlCmd) /\ AllOrder(b) \in Seq(RtlCmd)
  BY DmCmdsAre, AllOrderIs
<1>3. PICK c \in Seq(RtlCmd) : c = IF "triscs" \in sel THEN <<Cmd("tensix")>> ELSE <<>>
  BY <1>1
<1>4. DmCmds(sel) \o c \in Seq(RtlCmd)
  BY <1>2
<1> QED
  BY <1>1, <1>2, <1>3, <1>4, Zenon DEF ResetCommands

LEMMA ReachedIs ==
  ASSUME NEW cmds, NEW core, NEW b, NEW k
  PROVE  core \in Reached(cmds, b, k) <=> \E i \in DOMAIN cmds : cmds[i] # Skip /\ core \in Affected(cmds[i].what, b, k)
  BY DEF Reached

LEMMA ReachedOne ==
  ASSUME NEW w, w # "none", NEW core, NEW b, NEW k
  PROVE  core \in Reached(<<Cmd(w)>>, b, k) <=> core \in Affected(w, b, k)
<1>1. Cmd(w).what = w /\ Skip.what = "none"
  BY DEF Cmd, Skip
<1>2. Cmd(w) # Skip
  BY <1>1
<1>3. DOMAIN <<Cmd(w)>> = {1} /\ <<Cmd(w)>>[1] = Cmd(w)
  OBVIOUS
<1> QED
  BY <1>1, <1>2, <1>3, ReachedIs

LEMMA ReachedAll ==
  ASSUME NEW b, NEW core \in RtlCores, NEW tile, NEW k
  PROVE  core \in Reached(AllOrder(b), tile, k) <=> core = "uncore" \/ k = tile
<1>1. PICK c : c = AllOrder(b)
  OBVIOUS
<1>2. /\ DOMAIN c = 1 .. 3
      /\ \A w \in {"tensix", "dms", "uncores"} : \E i \in 1 .. 3 : c[i] = Cmd(w)
      /\ \A i \in 1 .. 3 : \E w \in {"tensix", "dms", "uncores"} : c[i] = Cmd(w)
  <2>1. CASE b
    <3>1. c \in Seq(RtlCmd) /\ Len(c) = 3 /\ c[1] = Cmd("tensix") /\ c[2] = Cmd("dms") /\ c[3] = Cmd("uncores")
      BY <1>1, <2>1, AllOrderIs
    <3>2. DOMAIN c = 1 .. 3 /\ 1 \in 1 .. 3 /\ 2 \in 1 .. 3 /\ 3 \in 1 .. 3 /\ \A i \in 1 .. 3 : i = 1 \/ i = 2 \/ i = 3
      BY <3>1
    <3> QED
      BY <3>1, <3>2
  <2>2. CASE ~b
    <3>1. c \in Seq(RtlCmd) /\ Len(c) = 3 /\ c[1] = Cmd("uncores") /\ c[2] = Cmd("dms") /\ c[3] = Cmd("tensix")
      BY <1>1, <2>2, AllOrderIs
    <3>2. DOMAIN c = 1 .. 3 /\ 1 \in 1 .. 3 /\ 2 \in 1 .. 3 /\ 3 \in 1 .. 3 /\ \A i \in 1 .. 3 : i = 1 \/ i = 2 \/ i = 3
      BY <3>1
    <3> QED
      BY <3>1, <3>2
  <2> QED
    BY <2>1, <2>2
<1>3. \A w \in {"tensix", "dms", "uncores"} : Cmd(w).what = w /\ Cmd(w) # Skip
  <2>1. Skip.what = "none"
    BY DEF Skip, Cmd
  <2> QED
    BY <2>1 DEF Cmd
<1>4. (\E w \in {"tensix", "dms", "uncores"} : core \in Affected(w, tile, k)) <=> core = "uncore" \/ k = tile
  BY DEF Affected, RtlCores
<1>5. (\E i \in DOMAIN c : c[i] # Skip /\ core \in Affected(c[i].what, tile, k)) <=>
        \E w \in {"tensix", "dms", "uncores"} : core \in Affected(w, tile, k)
  BY <1>2, <1>3
<1>6. core \in Reached(c, tile, k) <=> \E i \in DOMAIN c : c[i] # Skip /\ core \in Affected(c[i].what, tile, k)
  BY ONLY ReachedIs
<1> QED
  BY ONLY <1>1, <1>4, <1>5, <1>6

(* A command for each data movement core, then one for the Tensix.         *)
LEMMA ReachedEach ==
  ASSUME NEW sel, RiscTypesDms \in Seq(Dms), "none" \notin Dms, "dms" \notin Dms, "uncores" \notin Dms, NEW core \in RtlCores,
         NEW b, NEW k
  PROVE  core \in Reached(DmCmds(sel) \o (IF "triscs" \in sel THEN <<Cmd("tensix")>> ELSE <<>>), b, k) <=>
           k = b /\ ((core \in Dms \cap sel) \/ (core = "tensix" /\ "triscs" \in sel))
<1>1. PICK d \in Seq(RtlCmd), n \in Nat :
        /\ d = DmCmds(sel) /\ Len(d) = n /\ n = Len(RiscTypesDms)
        /\ \A i \in 1 .. n : d[i] = IF RiscTypesDms[i] \in sel THEN Cmd(RiscTypesDms[i]) ELSE Skip
  BY DmCmdsAre
<1>2. PICK e \in Seq(RtlCmd) : e = IF "triscs" \in sel THEN <<Cmd("tensix")>> ELSE <<>>
  <2>1. <<Cmd("tensix")>> \in Seq(RtlCmd) /\ <<>> \in Seq(RtlCmd)
    BY OneCommand DEF RtlCores, RtlWhat
  <2> QED
    BY <2>1
<1>3. \A w : Cmd(w).what = w /\ (w # "none" => Cmd(w) # Skip)
  <2>1. Skip.what = "none"
    BY DEF Skip, Cmd
  <2> QED
    BY <2>1 DEF Cmd
<1>4. \A i \in 1 .. n : RiscTypesDms[i] \in Dms /\ Affected(RiscTypesDms[i], b, k) = (IF k = b THEN {RiscTypesDms[i]} ELSE {}) /\ RiscTypesDms[i] # "none"
  BY <1>1 DEF Affected
<1>5. (\E i \in 1 .. n : d[i] # Skip /\ core \in Affected(d[i].what, b, k)) <=> k = b /\ core \in Dms \cap sel
  <2>1. ASSUME NEW i \in 1 .. n, d[i] # Skip, core \in Affected(d[i].what, b, k)
        PROVE  k = b /\ core \in Dms \cap sel
    <3>1. d[i] = Cmd(RiscTypesDms[i]) /\ RiscTypesDms[i] \in sel
      BY <1>1, <2>1
    <3>2. d[i].what = RiscTypesDms[i]
      BY <1>3, <3>1
    <3> QED
      BY <1>4, <2>1, <3>1, <3>2
  <2>2. ASSUME k = b, core \in Dms \cap sel
        PROVE  \E i \in 1 .. n : d[i] # Skip /\ core \in Affected(d[i].what, b, k)
    <3>1. PICK i \in 1 .. n : RiscTypesDms[i] = core
      BY <1>1, <2>2 DEF Dms
    <3>2. d[i] = Cmd(core) /\ Affected(core, b, k) = {core} /\ core # "none"
      BY <1>1, <1>4, <2>2, <3>1
    <3> QED
      BY <1>3, <3>2
  <2> QED
    BY <2>1, <2>2
<1>6. (\E i \in 1 .. Len(e) : e[i] # Skip /\ core \in Affected(e[i].what, b, k)) <=> (k = b /\ core = "tensix" /\ "triscs" \in sel)
  <2>1. CASE "triscs" \in sel
    <3>1. Len(e) = 1 /\ e[1] = Cmd("tensix") /\ Affected("tensix", b, k) = IF k = b THEN {"tensix"} ELSE {}
      BY <1>2, <2>1 DEF Affected
    <3> QED
      BY <1>3, <2>1, <3>1
  <2>2. CASE "triscs" \notin sel
    BY <1>2, <2>2
  <2> QED
    BY <2>1, <2>2
<1>7. PICK m \in Nat : m = Len(e)
  OBVIOUS
<1>8. /\ DOMAIN (d \o e) = 1 .. (n + m)
      /\ \A i \in 1 .. n : (d \o e)[i] = d[i]
      /\ \A i \in 1 .. m : (d \o e)[n + i] = e[i]
  <2>1. d \in Seq(RtlCmd) /\ e \in Seq(RtlCmd) /\ Len(d) = n /\ Len(e) = m /\ n \in Nat /\ m \in Nat
    BY <1>1, <1>7
  <2>2. d \o e \in Seq(RtlCmd) /\ Len(d \o e) = n + m
    BY ONLY <2>1
  <2>3. DOMAIN (d \o e) = 1 .. (n + m)
    BY ONLY <2>2
  <2>4. \A i \in 1 .. n : (d \o e)[i] = d[i]
    BY ONLY <2>1
  <2>5. \A i \in 1 .. m : (d \o e)[n + i] = e[i]
    <3> TAKE i \in 1 .. m
    <3>1. i \in Nat /\ 1 <= i /\ i <= m /\ i \in 1 .. m
      BY <2>1
    <3> QED
      BY ONLY <2>1, <3>1
  <2> QED
    BY <2>3, <2>4, <2>5
<1>9. PICK c : c = d \o e
  OBVIOUS
<1>10. (\E i \in DOMAIN c : c[i] # Skip /\ core \in Affected(c[i].what, b, k)) <=>
         \/ \E i \in 1 .. n : d[i] # Skip /\ core \in Affected(d[i].what, b, k)
         \/ \E i \in 1 .. m : e[i] # Skip /\ core \in Affected(e[i].what, b, k)
  <2>1. \A i \in 1 .. (n + m) : i \in 1 .. n \/ (i - n \in 1 .. m /\ i = n + (i - n))
    OBVIOUS
  <2>2. \A i \in 1 .. n : i \in 1 .. (n + m)
    OBVIOUS
  <2>3. \A i \in 1 .. m : n + i \in 1 .. (n + m)
    OBVIOUS
  <2>4. DOMAIN c = 1 .. (n + m) /\ (\A i \in 1 .. n : c[i] = d[i]) /\ \A i \in 1 .. m : c[n + i] = e[i]
    BY <1>8, <1>9
  <2>5. ASSUME NEW i \in DOMAIN c, c[i] # Skip, core \in Affected(c[i].what, b, k)
        PROVE  \/ \E j \in 1 .. n : d[j] # Skip /\ core \in Affected(d[j].what, b, k)
               \/ \E j \in 1 .. m : e[j] # Skip /\ core \in Affected(e[j].what, b, k)
    <3>1. CASE i \in 1 .. n
      BY <2>4, <2>5, <3>1
    <3>2. CASE i \notin 1 .. n
      <4>1. PICK j \in 1 .. m : i = n + j
        BY <2>1, <2>4, <3>2
      <4>2. c[i] = e[j]
        BY <2>4, <4>1
      <4> QED
        BY <2>5, <4>2
    <3> QED
      BY <3>1, <3>2
  <2>6. ASSUME NEW i \in 1 .. n, d[i] # Skip, core \in Affected(d[i].what, b, k)
        PROVE  \E j \in DOMAIN c : c[j] # Skip /\ core \in Affected(c[j].what, b, k)
    BY <2>2, <2>4, <2>6
  <2>7. ASSUME NEW i \in 1 .. m, e[i] # Skip, core \in Affected(e[i].what, b, k)
        PROVE  \E j \in DOMAIN c : c[j] # Skip /\ core \in Affected(c[j].what, b, k)
    <3>1. n + i \in DOMAIN c /\ c[n + i] = e[i]
      BY <2>3, <2>4
    <3> QED
      BY <2>7, <3>1
  <2> QED
    BY <2>5, <2>6, <2>7
<1>11. core \in Reached(c, b, k) <=> k = b /\ ((core \in Dms \cap sel) \/ (core = "tensix" /\ "triscs" \in sel))
  <2>1. core \in Reached(c, b, k) <=> \E i \in DOMAIN c : c[i] # Skip /\ core \in Affected(c[i].what, b, k)
    BY ONLY ReachedIs
  <2>2. (\E i \in 1 .. m : e[i] # Skip /\ core \in Affected(e[i].what, b, k)) <=> (k = b /\ core = "tensix" /\ "triscs" \in sel)
    BY <1>6, <1>7
  <2> QED
    BY ONLY <1>5, <1>10, <2>1, <2>2
<1>12. c = DmCmds(sel) \o (IF "triscs" \in sel THEN <<Cmd("tensix")>> ELSE <<>>)
  BY <1>1, <1>2, <1>9
<1> QED
  BY ONLY <1>11, <1>12

LEMMA ResetReaches ==
  ASSUME run \in RtlScenarios, NEW sel \in SUBSET RtlFlags, NEW a, NEW core \in RtlCores, Plain(sel), NEW b, NEW k
  PROVE  core \in Reached(ResetCommands("QUASAR", sel, a), b, k) <=> Selected(sel, b, k, core)
<1>1. "tensix" \notin sel /\ "tensix" \notin Dms /\ "uncore" \notin Dms /\ "all" \notin Dms /\ "uncores" \notin Dms /\ "triscs" \notin Dms
      /\ "none" \notin Dms /\ "dms" \notin Dms /\ RiscTypesDms \in Seq(Dms)
  BY RtlFacts DEF RtlFlags
<1>2. core \in Dms \/ core = "tensix" \/ core = "uncore"
  BY DEF RtlCores
<1>3. CASE sel = {"all"}
  <2>1. ResetCommands("QUASAR", sel, a) = AllOrder(a)
    BY <1>3 DEF ResetCommands
  <2>2. Selected(sel, b, k, core) <=> core = "uncore" \/ k = b
    BY <1>3 DEF Selected
  <2>3. core \in Reached(AllOrder(a), b, k) <=> core = "uncore" \/ k = b
    BY ReachedAll
  <2> QED
    BY <2>1, <2>2, <2>3
<1>4. CASE sel # {"all"} /\ sel = Dms
  <2>1. ResetCommands("QUASAR", sel, a) = <<Cmd("dms")>>
    BY <1>4 DEF ResetCommands
  <2>2. core \in Affected("dms", b, k) <=> k = b /\ core \in Dms
    BY DEF Affected
  <2>3. Selected(sel, b, k, core) <=> k = b /\ core \in Dms
    BY <1>1, <1>2, <1>4 DEF Selected
  <2>4. core \in Reached(<<Cmd("dms")>>, b, k) <=> core \in Affected("dms", b, k)
    BY ReachedOne
  <2> QED
    BY <2>1, <2>2, <2>3, <2>4
<1>5. CASE sel # {"all"} /\ sel # Dms /\ sel = {"uncores"}
  <2>1. ResetCommands("QUASAR", sel, a) = <<Cmd("uncores")>>
    BY <1>5 DEF ResetCommands
  <2>2. core \in Affected("uncores", b, k) <=> core = "uncore"
    BY DEF Affected
  <2>3. Selected(sel, b, k, core) <=> core = "uncore"
    BY <1>1, <1>2, <1>5 DEF Selected
  <2>4. core \in Reached(<<Cmd("uncores")>>, b, k) <=> core \in Affected("uncores", b, k)
    BY ReachedOne
  <2> QED
    BY <2>1, <2>2, <2>3, <2>4
<1>6. CASE sel # {"all"} /\ sel # Dms /\ sel # {"uncores"} /\ "uncore" \in sel
  <2>1. ResetCommands("QUASAR", sel, a) = <<Cmd("uncore")>>
    BY <1>6 DEF ResetCommands
  <2>2. core \in Affected("uncore", b, k) <=> k = b /\ core = "uncore"
    BY DEF Affected
  <2>3. sel = {"uncore"}
    BY <1>6 DEF Plain, Whole
  <2>4. Selected(sel, b, k, core) <=> k = b /\ core = "uncore"
    BY <1>1, <1>2, <2>3 DEF Selected
  <2>5. core \in Reached(<<Cmd("uncore")>>, b, k) <=> core \in Affected("uncore", b, k)
    BY ReachedOne
  <2> QED
    BY <2>1, <2>2, <2>4, <2>5
<1>7. CASE sel # {"all"} /\ sel # Dms /\ sel # {"uncores"} /\ "uncore" \notin sel
  <2>1. ResetCommands("QUASAR", sel, a) = DmCmds(sel) \o (IF "triscs" \in sel THEN <<Cmd("tensix")>> ELSE <<>>)
    BY <1>7 DEF ResetCommands
  <2>2. "all" \notin sel /\ "uncores" \notin sel
    BY <1>7 DEF Plain, Whole
  <2>3. core \in Reached(ResetCommands("QUASAR", sel, a), b, k) <=>
          k = b /\ ((core \in Dms \cap sel) \/ (core = "tensix" /\ "triscs" \in sel))
    BY <1>1, <2>1, ReachedEach
  <2>4. Selected(sel, b, k, core) <=> k = b /\ ((core \in Dms \cap sel) \/ (core = "tensix" /\ "triscs" \in sel))
    BY <1>1, <1>2, <1>7, <2>2 DEF Selected
  <2> QED
    BY ONLY <2>3, <2>4
<1> QED
  BY <1>3, <1>4, <1>5, <1>6, <1>7

(* Callers.                                                                *)
LEMMA CallIs ==
  ASSUME RtlTypes, CallsInv, NEW t \in RtlThread, todo[t] # <<>>
  PROVE  /\ Call(t) \in RtlOp /\ Done(t) \in Nat /\ Done(t) + 1 \in DOMAIN run.calls[t]
         /\ Call(t) = run.calls[t][Done(t) + 1]
<1>1. run.calls[t] \in Seq(RtlOp) /\ todo[t] \in Seq(RtlOp)
  BY RtlFacts DEF RtlTypes
<1>2. PICK n \in Nat, m \in Nat : n = Len(run.calls[t]) /\ m = Len(todo[t])
  BY <1>1
<1>3. m >= 1 /\ m <= n /\ Head(todo[t]) = todo[t][1] /\ Head(todo[t]) \in RtlOp
  BY <1>1, <1>2 DEF CallsInv
<1>4. Done(t) = n - m /\ n - m \in Nat /\ (n - m) + 1 \in 1 .. n /\ 1 \in 1 .. m
  <2>1. n - m \in Nat /\ (n - m) + 1 \in 1 .. n /\ 1 \in 1 .. m
    BY ONLY n \in Nat, m \in Nat, <1>3
  <2> QED
    BY <1>2, <2>1 DEF Done
<1>5. todo[t][1] = run.calls[t][Done(t) + 1]
  BY <1>2, <1>4 DEF CallsInv
<1>6. DOMAIN run.calls[t] = 1 .. n
  BY <1>1, <1>2
<1> QED
  BY <1>3, <1>4, <1>5, <1>6 DEF Call

Order(assert, n) ==
  IF n = 1 THEN "dms" ELSE IF (assert /\ n = 0) \/ (~assert /\ n # 0) THEN "tensix" ELSE "uncores"

NextIs(t, p) ==
  \/ Call(t).kind = "read" /\ sent[t] = 0 /\ p = Append(toSim, [kind |-> "read", of |-> t])
  \/ /\ Call(t).kind = "write" /\ sent[t] = 0
     /\ p = Append(toSim, [kind |-> "write", of |-> t, value |-> Call(t).value, words |-> Call(t).size \div 4])
  \/ Call(t).kind = "reset" /\ ~OnlyAll /\ p = toSim
  \/ /\ Call(t).kind = "reset"
     /\ \E w \in RtlWhat :
          /\ p = Append(toSim, [kind |-> IF Call(t).assert THEN "hold" ELSE "free", what |-> w, tile |-> Call(t).tile])
          /\ OnlyAll => sent[t] \in 0 .. 2 /\ w = Order(Call(t).assert, sent[t])

LEMMA NextCommand ==
  ASSUME RtlTypes, CallsInv, NEW t \in RtlThread, pc[t] = "send", sent[t] < Len(Commands(t)),
         NEW p, p = Posted(t, Commands(t)[sent[t] + 1])
  PROVE  NextIs(t, p)
<1>1. PICK op \in RtlOp, n \in Nat : op = Call(t) /\ n = sent[t]
  BY CallIs DEF RtlTypes, CallsInv
<1>2. CASE op.kind = "read"
  <2>1. Commands(t) = <<[kind |-> "read", of |-> t]>>
    BY <1>1, <1>2 DEF Commands
  <2>2. n = 0 /\ Commands(t)[n + 1] = [kind |-> "read", of |-> t]
    BY <1>1, <2>1
  <2> QED
    BY <1>1, <1>2, <2>2 DEF Posted, NextIs
<1>3. CASE op.kind = "write"
  <2>1. Commands(t) = <<[kind |-> "write", of |-> t, value |-> op.value, words |-> op.size \div 4]>>
    BY <1>1, <1>3 DEF Commands
  <2>2. n = 0 /\ Commands(t)[n + 1] = [kind |-> "write", of |-> t, value |-> op.value, words |-> op.size \div 4]
    BY <1>1, <2>1
  <2> QED
    BY <1>1, <1>3, <2>2 DEF Posted, NextIs
<1>4. CASE op.kind = "reset"
  <2>1. PICK c \in Seq(RtlCmd) : c = Commands(t) /\ c = ResetCommands(run.arch, op.sel, op.assert)
    <3>1. Commands(t) = ResetCommands(run.arch, op.sel, op.assert)
      BY <1>1, <1>4 DEF Commands
    <3>2. RiscTypesDms \in Seq(Dms)
      BY RtlAssumption
    <3> QED
      BY <3>1, <3>2, ResetCommandsAre
  <2>2. PICK e \in RtlCmd : e = c[n + 1]
    BY <1>1, <2>1
  <2>3. e.kind = "reset" /\ e.what \in RtlWhat \cup {"none"} /\ e = Cmd(e.what)
    BY DEF RtlCmd, Cmd
  <2>4. OnlyAll => n \in 0 .. 2 /\ e = Cmd(Order(op.assert, n)) /\ Order(op.assert, n) \in {"tensix", "dms", "uncores"}
    <3> SUFFICES ASSUME OnlyAll PROVE n \in 0 .. 2 /\ e = Cmd(Order(op.assert, n)) /\ Order(op.assert, n) \in {"tensix", "dms", "uncores"}
      OBVIOUS
    <3>1. op.sel = {"all"} /\ run.arch = "QUASAR"
      BY <1>1, <1>4, CallIs DEF OnlyAll, CallsInv
    <3>2. c = AllOrder(op.assert)
      BY <2>1, <3>1 DEF ResetCommands
    <3>3. n \in 0 .. 2
      BY <1>1, <2>1, <3>2, AllOrderIs
    <3>4. op.assert \in BOOLEAN
      BY <1>4 DEF RtlOp
    <3>5. n = 0 \/ n = 1 \/ n = 2
      BY <3>3
    <3>6. CASE op.assert
      <4>1. c[1] = Cmd("tensix") /\ c[2] = Cmd("dms") /\ c[3] = Cmd("uncores")
        BY <3>2, <3>6, AllOrderIs
      <4>2. Order(op.assert, 0) = "tensix" /\ Order(op.assert, 1) = "dms" /\ Order(op.assert, 2) = "uncores"
        BY <3>6 DEF Order
      <4>3. 0 + 1 = 1 /\ 1 + 1 = 2 /\ 2 + 1 = 3
        OBVIOUS
      <4> QED
        BY <2>2, <3>3, <3>5, <4>1, <4>2, <4>3
    <3>7. CASE ~op.assert
      <4>1. c[1] = Cmd("uncores") /\ c[2] = Cmd("dms") /\ c[3] = Cmd("tensix")
        BY <3>2, <3>7, AllOrderIs
      <4>2. Order(op.assert, 0) = "uncores" /\ Order(op.assert, 1) = "dms" /\ Order(op.assert, 2) = "tensix"
        BY <3>7 DEF Order
      <4>3. 0 + 1 = 1 /\ 1 + 1 = 2 /\ 2 + 1 = 3
        OBVIOUS
      <4> QED
        BY <2>2, <3>3, <3>5, <4>1, <4>2, <4>3
    <3> QED
      BY <3>6, <3>7
  <2>5. CASE e = Skip
    <3>1. p = toSim
      BY <1>1, <2>1, <2>2, <2>3, <2>5 DEF Posted
    <3>2. e.what = "none"
      BY <2>5 DEF Skip, Cmd
    <3>3. ~OnlyAll
      BY <2>4, <3>2 DEF Cmd
    <3> QED
      BY <1>1, <1>4, <3>1, <3>3 DEF NextIs
  <2>6. CASE e # Skip
    <3>1. PICK w : w = e.what
      OBVIOUS
    <3>2. w \in RtlWhat
      BY <2>3, <2>6, <3>1 DEF Skip
    <3>3. p = Append(toSim, [kind |-> IF Call(t).assert THEN "hold" ELSE "free", what |-> w, tile |-> Call(t).tile])
      BY <1>1, <2>1, <2>2, <2>3, <2>6, <3>1 DEF Posted
    <3>4. OnlyAll => n \in 0 .. 2 /\ w = Order(op.assert, n)
      BY <2>4, <3>1 DEF Cmd
    <3> QED
      BY <1>1, <1>4, <3>2, <3>3, <3>4 DEF NextIs
  <2> QED
    BY <2>5, <2>6
<1> QED
  BY <1>1, <1>2, <1>3, <1>4 DEF RtlOp

LEMMA SameWrites ==
  ASSUME NEW t \in RtlThread, NEW n, Done(t) = n, Done(t)' = n, run' = run
  PROVE  WroteLast(t)' = WroteLast(t)
<1>1. PICK c, W : c = run.calls[t] /\ W = {i \in 1 .. n : WholeWrite(c[i])}
  OBVIOUS
<1>2. WroteLast(t) = IF W = {} THEN 0 ELSE c[CHOOSE i \in W : \A j \in W : j <= i].value
  BY <1>1 DEF WroteLast
<1>3. WroteLast(t)' = IF W = {} THEN 0 ELSE c[CHOOSE i \in W : \A j \in W : j <= i].value
  BY <1>1 DEF WroteLast, WholeWrite
<1> QED
  BY <1>2, <1>3

(* Nobody begins a call, sends or ends one.                                *)
Still ==
  /\ run' = run /\ todo' = todo /\ sent' = sent /\ owner' = owner
  /\ \A t \in RtlThread : (pc'[t] = "idle" <=> pc[t] = "idle") /\ (pc'[t] = "send" <=> pc[t] = "send")

LEMMA StillCallers ==
  ASSUME RtlTypes, RtlTypes', CallsInv, Still
  PROVE  /\ CallsInv'
         /\ \A t \in RtlThread : /\ Call(t)' = Call(t) /\ Done(t)' = Done(t) /\ WroteLast(t)' = WroteLast(t)
                                 /\ LastSent(t)' = LastSent(t) /\ (Waiting(t)' <=> Waiting(t))
<1>1. \A t \in RtlThread : Call(t)' = Call(t) /\ Done(t)' = Done(t)
  BY DEF Still, Call, Done
<1>2. \A t \in RtlThread : WroteLast(t)' = WroteLast(t)
  BY <1>1, SameWrites DEF Still
<1>3. \A t \in RtlThread : Waiting(t)' <=> Waiting(t)
  BY DEF Still, Waiting, RtlTypes
<1>4. \A t \in RtlThread : LastSent(t)' = LastSent(t)
  BY <1>1, <1>2 DEF Still, LastSent, WholeWrite
<1>5. CallsInv'
  BY <1>1, <1>3 DEF Still, CallsInv
<1> QED
  BY <1>1, <1>2, <1>3, <1>4, <1>5

(* The end of a call.                                                      *)
LEMMA LastOfWrites ==
  ASSUME NEW t \in RtlThread, NEW n \in Nat, Done(t) = n, Done(t)' = n + 1, run' = run,
         NEW op, op = run.calls[t][n + 1]
  PROVE  WroteLast(t)' = IF WholeWrite(op) THEN op.value ELSE WroteLast(t)
<1>1. PICK W, V : W = {i \in 1 .. n : WholeWrite(run.calls[t][i])} /\ V = {i \in 1 .. (n + 1) : WholeWrite(run.calls[t][i])}
  OBVIOUS
<1>2. PICK c : c = run.calls[t]
  OBVIOUS
<1>3. WroteLast(t) = IF W = {} THEN 0 ELSE c[CHOOSE i \in W : \A j \in W : j <= i].value
  BY <1>1, <1>2 DEF WroteLast
<1>4. WroteLast(t)' = IF V = {} THEN 0 ELSE c[CHOOSE i \in V : \A j \in V : j <= i].value
  BY <1>1, <1>2 DEF WroteLast, WholeWrite
<1>5. CASE WholeWrite(op)
  <2>1. n + 1 \in V /\ \A j \in V : j <= n + 1
    BY <1>1, <1>5
  <2>2. \A i \in V : i \in Nat /\ ((\A j \in V : j <= i) => i = n + 1)
    BY <1>1, <2>1
  <2>3. (CHOOSE i \in V : \A j \in V : j <= i) = n + 1
    BY <2>1, <2>2
  <2> QED
    BY <1>2, <1>4, <1>5, <2>1, <2>3
<1>6. CASE ~WholeWrite(op)
  <2>1. V = W
    BY <1>1, <1>6
  <2> QED
    BY <1>3, <1>4, <1>6, <2>1
<1> QED
  BY <1>5, <1>6

LEMMA EndCallers ==
  ASSUME RtlTypes, CallsInv, run' = run, sent' = sent, NEW t \in RtlThread, pc[t] # "idle", EndCall(t)
  PROVE  /\ todo' \in [RtlThread -> Seq(RtlOp)] /\ pc' \in [RtlThread -> {"idle", "send", "test", "tested", "asleep"}]
         /\ CallsInv'
         /\ pc'[t] = "idle" /\ ~Waiting(t)' /\ Done(t) \in Nat /\ Done(t)' = Done(t) + 1
         /\ WroteLast(t)' = IF WholeWrite(Call(t)) THEN Call(t).value ELSE WroteLast(t)
         /\ LastSent(t)' = WroteLast(t)'
         /\ \A u \in RtlThread \ {t} :
              /\ pc'[u] = pc[u] /\ Call(u)' = Call(u) /\ Done(u)' = Done(u) /\ WroteLast(u)' = WroteLast(u)
              /\ LastSent(u)' = LastSent(u) /\ (Waiting(u)' <=> Waiting(u))
<1>1. todo[t] # <<>> /\ todo[t] \in Seq(RtlOp)
  BY DEF CallsInv, RtlTypes
<1>2. PICK T \in Seq(RtlOp), m \in Nat :
        T = Tail(todo[t]) /\ m = Len(T) /\ Len(todo[t]) = m + 1 /\ \A j \in 1 .. m : T[j] = todo[t][j + 1]
  <2>1. Tail(todo[t]) \in Seq(RtlOp) /\ Len(Tail(todo[t])) \in Nat
    BY <1>1
  <2>2. Len(todo[t]) = Len(Tail(todo[t])) + 1
    BY <1>1
  <2>3. \A j \in 1 .. Len(Tail(todo[t])) : Tail(todo[t])[j] = todo[t][j + 1]
    BY <1>1
  <2> QED
    BY <2>1, <2>2, <2>3
<1>3. /\ todo' = [todo EXCEPT ![t] = T] /\ pc' = [pc EXCEPT ![t] = "idle"] /\ owner' = IF owner = t THEN Free ELSE owner
  BY <1>2 DEF EndCall
<1>4. /\ todo' \in [RtlThread -> Seq(RtlOp)] /\ pc' \in [RtlThread -> {"idle", "send", "test", "tested", "asleep"}]
      /\ todo'[t] = T /\ pc'[t] = "idle" /\ \A u \in RtlThread \ {t} : todo'[u] = todo[u] /\ pc'[u] = pc[u]
  BY <1>3 DEF RtlTypes
<1>5. PICK n \in Nat, k \in Nat : n = Len(run.calls[t]) /\ k = Done(t) /\ k = n - (m + 1) /\ Call(t) = run.calls[t][k + 1] /\ Done(t)' = k + 1
  <2>1. run.calls[t] \in Seq(RtlOp)
    BY RtlFacts DEF RtlTypes
  <2>2. Done(t)' = Len(run.calls[t]) - m
    BY <1>2, <1>4 DEF Done
  <2>3. Done(t) = Len(run.calls[t]) - (m + 1)
    BY <1>2 DEF Done
  <2> QED
    BY <1>1, <2>1, <2>2, <2>3, CallIs
<1>6. WroteLast(t)' = IF WholeWrite(Call(t)) THEN Call(t).value ELSE WroteLast(t)
  BY <1>5, LastOfWrites
<1>7. \A u \in RtlThread \ {t} : Call(u)' = Call(u) /\ Done(u)' = Done(u) /\ (Waiting(u)' <=> Waiting(u))
  BY <1>4 DEF Call, Done, Waiting
<1>8. \A u \in RtlThread \ {t} : WroteLast(u)' = WroteLast(u)
  BY <1>7, SameWrites
<1>9. \A u \in RtlThread \ {t} : LastSent(u)' = LastSent(u)
  BY <1>4, <1>7, <1>8 DEF LastSent, WholeWrite
<1>10. LastSent(t)' = WroteLast(t)' /\ ~Waiting(t)'
  BY <1>4 DEF LastSent, Waiting
<1>11. CallsInv'
  <2> SUFFICES ASSUME NEW u \in RtlThread
               PROVE  /\ Len(todo'[u]) <= Len(run.calls[u])
                      /\ \A j \in 1 .. Len(todo'[u]) : todo'[u][j] = run.calls[u][Done(u)' + j]
                      /\ pc'[u] # "idle" => todo'[u] # <<>> /\ (Call(u)'.via = "device" => owner' = u)
                      /\ pc'[u] = "send" /\ Call(u)'.kind = "read" => sent[u] = 0
                      /\ Waiting(u)' => Call(u)'.kind = "read"
    BY DEF CallsInv
  <2>1. CASE u = t
    <3>1. m <= n
      BY <1>5
    <3>2. \A j \in 1 .. m : T[j] = run.calls[t][(k + 1) + j]
      <4> TAKE j \in 1 .. m
      <4>1. j + 1 \in 1 .. Len(todo[t])
        BY <1>2
      <4>2. todo[t][j + 1] = run.calls[t][k + (j + 1)]
        BY <1>5, <4>1 DEF CallsInv
      <4>3. k + (j + 1) = (k + 1) + j
        OBVIOUS
      <4> QED
        BY <1>2, <4>2, <4>3
    <3> QED
      BY <1>2, <1>4, <1>5, <1>10, <2>1, <3>1, <3>2
  <2>2. CASE u # t
    <3>1. owner = u => owner' = u
      BY <1>3, <2>2
    <3> QED
      BY <1>4, <1>7, <2>2, <3>1 DEF CallsInv
  <2> QED
    BY <2>1, <2>2
<1> QED
  BY <1>4, <1>5, <1>6, <1>7, <1>8, <1>9, <1>10, <1>11

(* Types.                                                                  *)
LEMMA CommandsAre ==
  ASSUME RtlTypes, CallsInv, NEW t \in RtlThread, pc[t] = "send"
  PROVE  Len(Commands(t)) \in Nat
<1>1. PICK op \in RtlOp : op = Call(t)
  BY CallIs DEF CallsInv
<1>2. CASE op.kind = "read"
  BY <1>1, <1>2 DEF Commands
<1>3. CASE op.kind = "write"
  BY <1>1, <1>3 DEF Commands
<1>4. CASE op.kind = "reset"
  <2>1. Commands(t) = ResetCommands(run.arch, op.sel, op.assert)
    BY <1>1, <1>4 DEF Commands
  <2>2. Commands(t) \in Seq(RtlCmd)
    BY <2>1, ResetCommandsAre, RtlAssumption
  <2> QED
    BY <2>2
<1> QED
  BY <1>2, <1>3, <1>4 DEF RtlOp

LEMMA SendIs ==
  ASSUME RtlTypes, CallsInv, NEW t \in RtlThread, SendCommand(t), sent[t] < Len(Commands(t)),
         NEW p, p = Posted(t, Commands(t)[sent[t] + 1])
  PROVE  /\ pc[t] = "send" /\ toSim' = p /\ sent' = [sent EXCEPT ![t] = @ + 1] /\ todo' = todo /\ owner' = owner
         /\ pc' = [pc EXCEPT ![t] = IF Call(t).kind = "read" THEN "test" ELSE "send"]
         /\ crossed' = (crossed \/ \E u \in RtlThread \ {t} : Waiting(u) /\ Call(t).kind = "read")
         /\ UNCHANGED <<run, up, got, fromSim, hostSide, simulator, missed>>
<1>1. pc[t] = "send" /\ sent[t] \in Nat
  BY DEF SendCommand, RtlTypes
<1>2. ~(sent[t] >= Len(Commands(t)))
  BY <1>1, CommandsAre
<1> QED
  BY <1>2 DEF SendCommand

LEMMA RtlTypesCaller ==
  ASSUME RtlTypes, CallsInv, NEW t \in RtlThread, Caller(t)
  PROVE  RtlTypes'
<1>1. CASE BeginCall(t)
  BY <1>1 DEF BeginCall, RtlTypes, hostSide, simulator, histories
<1>2. CASE SendCommand(t) /\ sent[t] < Len(Commands(t))
  <2>1. PICK p : p = Posted(t, Commands(t)[sent[t] + 1])
    OBVIOUS
  <2>2. /\ pc[t] = "send" /\ toSim' = p /\ sent' = [sent EXCEPT ![t] = @ + 1] /\ todo' = todo /\ owner' = owner
        /\ pc' = [pc EXCEPT ![t] = IF Call(t).kind = "read" THEN "test" ELSE "send"]
        /\ crossed' = (crossed \/ \E u \in RtlThread \ {t} : Waiting(u) /\ Call(t).kind = "read")
        /\ UNCHANGED <<run, up, got, fromSim, hostSide, simulator, missed>>
    BY <1>2, <2>1, SendIs
  <2>3. PICK op \in RtlOp : op = Call(t)
    BY <2>2, CallIs DEF CallsInv
  <2>4. p \in Seq(RtlToSim)
    <3>1. [kind |-> "read", of |-> t] \in RtlToSim
      BY DEF RtlToSim
    <3>2. Call(t).kind = "write" =>
            [kind |-> "write", of |-> t, value |-> Call(t).value, words |-> Call(t).size \div 4] \in RtlToSim
      <4>1. Call(t).kind = "write" => Call(t).value \in Nat /\ Call(t).size \div 4 \in Nat
        BY <2>3 DEF RtlOp
      <4> QED
        BY <4>1 DEF RtlToSim
    <3>3. Call(t).kind = "reset" =>
            \A w \in RtlWhat : [kind |-> IF Call(t).assert THEN "hold" ELSE "free", what |-> w, tile |-> Call(t).tile] \in RtlToSim
      <4>1. Call(t).kind = "reset" => Call(t).tile \in RtlTile
        BY <2>3 DEF RtlOp
      <4> QED
        BY <4>1 DEF RtlToSim
    <3>4. toSim \in Seq(RtlToSim) /\ \A m \in RtlToSim : Append(toSim, m) \in Seq(RtlToSim)
      BY DEF RtlTypes
    <3>5. p = toSim \/ \E m \in RtlToSim : p = Append(toSim, m)
      <4>1. \/ p = Append(toSim, [kind |-> "read", of |-> t])
            \/ /\ Call(t).kind = "write"
               /\ p = Append(toSim, [kind |-> "write", of |-> t, value |-> Call(t).value, words |-> Call(t).size \div 4])
            \/ p = toSim
            \/ /\ Call(t).kind = "reset"
               /\ \E w \in RtlWhat : p = Append(toSim, [kind |-> IF Call(t).assert THEN "hold" ELSE "free", what |-> w, tile |-> Call(t).tile])
        BY <1>2, <2>1, <2>2, NextCommand, Zenon DEF NextIs
      <4> QED
        BY ONLY <3>1, <3>2, <3>3, <4>1
    <3> QED
      BY <3>4, <3>5
  <2>5. /\ pc' \in [RtlThread -> {"idle", "send", "test", "tested", "asleep"}] /\ sent' \in [RtlThread -> Nat]
        /\ crossed' \in BOOLEAN
    BY <2>2 DEF RtlTypes
  <2> QED
    BY <2>2, <2>4, <2>5 DEF RtlTypes, hostSide, simulator
<1>3. CASE SendCommand(t) /\ pc[t] = "send" /\ EndCall(t) /\ UNCHANGED <<toSim, sent, crossed>>
           /\ UNCHANGED <<run, up, got, fromSim, hostSide, simulator, missed>>
  <2>1. todo' \in [RtlThread -> Seq(RtlOp)] /\ pc' \in [RtlThread -> {"idle", "send", "test", "tested", "asleep"}]
    BY <1>3, EndCallers
  <2> QED
    BY <1>3, <2>1 DEF RtlTypes, hostSide, simulator
<1>4. CASE TestQueue(t)
  <2>1. CASE EndCall(t)
    <3>1. todo' \in [RtlThread -> Seq(RtlOp)] /\ pc' \in [RtlThread -> {"idle", "send", "test", "tested", "asleep"}]
      BY <1>4, <2>1, EndCallers DEF TestQueue
    <3>2. got' \in [RtlThread -> RtlDatum \cup {Nothing}] /\ queue' \in Seq(RtlDatum)
      <4>1. CASE queue # <<>> /\ got' = [got EXCEPT ![t] = Head(queue)] /\ queue' = Tail(queue)
        <5>1. Head(queue) \in RtlDatum /\ Tail(queue) \in Seq(RtlDatum)
          BY <4>1 DEF RtlTypes
        <5> QED
          BY <4>1, <5>1 DEF RtlTypes
      <4>2. CASE got' = got /\ queue' = queue
        BY <4>2 DEF RtlTypes
      <4> QED
        BY <1>4, <4>1, <4>2 DEF TestQueue
    <3> QED
      BY <1>4, <3>1, <3>2 DEF TestQueue, RtlTypes, simulator, histories
  <2>2. CASE ~EndCall(t)
    BY <1>4, <2>2 DEF TestQueue, RtlTypes, simulator, histories
  <2> QED
    BY <2>1, <2>2
<1>5. CASE Sleep(t)
  BY <1>5 DEF Sleep, RtlTypes, hostSide, simulator, histories
<1> QED
  BY <1>1, <1>2, <1>3, <1>4, <1>5 DEF Caller, SendCommand

LEMMA RtlTypesLife ==
  ASSUME RtlTypes, LifeStep \/ StopHandler
  PROVE  RtlTypes'
<1>1. [kind |-> "exit"] \in RtlToSim /\ [kind |-> "exit"] \in RtlFromSim /\ [kind |-> "other"] \in RtlFromSim
  BY DEF RtlToSim, RtlFromSim, Hello
<1>2. CASE Spawn
  <2>1. <<[kind |-> "exit"]>> \in Seq(RtlFromSim) /\ <<[kind |-> "other"]>> \in Seq(RtlFromSim)
    BY <1>1
  <2>2. fromSim' \in Seq(RtlFromSim) /\ up' \in {"failed", "waiting"}
    BY <1>2, <2>1 DEF Spawn, RtlTypes
  <2> QED
    BY <1>2, <2>2 DEF Spawn, RtlTypes, callers, hostSide, simulator, histories
<1>3. CASE Acknowledged
  <2>1. fromSim # <<>> /\ fromSim' = Tail(fromSim) /\ UNCHANGED <<run, callers, toSim, queue, ramReply, sysmem, simulator, histories>>
    BY <1>3 DEF Acknowledged
  <2>2. up' \in {"ready", "failed"} /\ running' \in BOOLEAN /\ handler' \in {"test", handler}
    BY <1>3 DEF Acknowledged, RtlTypes
  <2>3. fromSim' \in Seq(RtlFromSim)
    <3>1. fromSim \in Seq(RtlFromSim)
      BY DEF RtlTypes
    <3> QED
      BY <2>1, <3>1
  <2> QED
    BY <2>1, <2>2, <2>3 DEF RtlTypes, callers, simulator, histories
<1>4. CASE StopHandler
  BY <1>4 DEF StopHandler, RtlTypes, callers, simulator, histories
<1>5. CASE NotifyAll
  BY <1>5 DEF NotifyAll, RtlTypes, hostSide, simulator
<1>6. CASE JoinHandler
  BY <1>1, <1>6 DEF JoinHandler, RtlTypes, callers, hostSide, simulator, histories
<1> QED
  BY <1>2, <1>3, <1>4, <1>5, <1>6 DEF LifeStep

LEMMA RtlTypesHandler ==
  ASSUME RtlTypes, HandlerStep
  PROVE  RtlTypes'
<1>1. CASE HandlerTest
  BY <1>1 DEF HandlerTest, RtlTypes, callers, simulator, histories
<1>2. CASE RecvTimeout
  BY <1>2 DEF RecvTimeout, RtlTypes, callers, simulator, histories
<1>3. CASE HandlerReceive
  <2>1. PICK m \in RtlFromSim : m = Head(fromSim)
    BY <1>3 DEF HandlerReceive, RtlTypes
  <2>2. fromSim' \in Seq(RtlFromSim)
    BY <1>3 DEF HandlerReceive, RtlTypes
  <2>3. queue' \in Seq(RtlDatum) /\ ramReply' \in Nat /\ sysmem' \in Nat
        /\ handler' \in {"none", "test", "recv", "notify", "reply", "gone"}
    <3>1. CASE m.kind = "ramwrite" /\ RamWrite(m)
      BY <3>1 DEF RamWrite, RtlTypes
    <3>2. CASE m.kind = "ramread" /\ RamRead(m)
      BY <3>2 DEF RamRead, RtlTypes
    <3>3. CASE m.kind = "response" /\ PushResponse(m)
      <4>1. m.data \in RtlDatum
        BY <3>3 DEF RtlFromSim, RtlNote, Hello
      <4> QED
        BY <3>3, <4>1 DEF PushResponse, RtlTypes
    <3> QED
      BY <1>3, <2>1, <3>1, <3>2, <3>3 DEF HandlerReceive
  <2> QED
    BY <1>3, <2>2, <2>3 DEF HandlerReceive, RtlTypes, callers, simulator, histories
<1>4. CASE NotifyOne
  BY <1>4 DEF NotifyOne, RtlTypes, simulator, histories
<1>5. CASE SendRamReply
  <2>1. [kind |-> "ramread", value |-> ramReply] \in RtlToSim
    BY DEF RtlToSim, RtlTypes
  <2> QED
    BY <1>5, <2>1 DEF SendRamReply, RtlTypes, callers, simulator, histories
<1> QED
  BY <1>1, <1>2, <1>3, <1>4, <1>5 DEF HandlerStep

LEMMA RtlTypesSim ==
  ASSUME RtlTypes, Made \in Nat, SimCommand \/ SimNote
  PROVE  RtlTypes'
<1>1. CASE SimCommand
  <2>1. PICK m \in RtlToSim : m = Head(toSim)
    BY <1>1 DEF SimCommand, RtlTypes
  <2>2. toSim' \in Seq(RtlToSim)
    BY <1>1 DEF SimCommand, RtlTypes
  <2>3. fromSim' \in Seq(RtlFromSim) /\ cell' \in [RtlThread -> Nat] /\ held' \in RtlHeld /\ answered' \in Seq(Nat)
        /\ notes' = notes
    <3>1. CASE m.kind = "read"
      <4>1. PICK d : d = [of |-> m.of, value |-> cell[m.of], writes |-> WritesTo(Made)]
        OBVIOUS
      <4>2. m.of \in RtlThread /\ cell[m.of] \in Nat /\ WritesTo(Made) \in Nat
        BY <3>1, WritesCounted DEF RtlToSim, RtlTypes
      <4>3. d \in RtlDatum
        BY <4>1, <4>2 DEF RtlDatum
      <4>4. [kind |-> "response", data |-> d] \in RtlFromSim
        BY <4>3 DEF RtlFromSim
      <4>5. fromSim' = Append(fromSim, [kind |-> "response", data |-> d]) /\ UNCHANGED simulator
        BY <1>1, <2>1, <3>1, <4>1 DEF SimCommand
      <4>6. fromSim' \in Seq(RtlFromSim)
        BY <4>4, <4>5 DEF RtlTypes
      <4> QED
        BY <4>5, <4>6 DEF RtlTypes, simulator
    <3>2. CASE m.kind = "write"
      <4>1. m.of \in RtlThread /\ m.value \in Nat
        BY <3>2 DEF RtlToSim
      <4> QED
        BY <1>1, <2>1, <3>2, <4>1 DEF SimCommand, RtlTypes
    <3>3. CASE m.kind \in {"hold", "free"}
      <4>1. m.what \in RtlWhat /\ m.tile \in RtlTile
        BY <3>3 DEF RtlToSim
      <4>2. held' = Holding(held, m.what, m.tile) \/ held' = Freeing(held, m.what, m.tile)
        BY <1>1, <2>1, <3>3 DEF SimCommand, Holding, Freeing
      <4>3. held' \in RtlHeld
        BY <4>1, <4>2, HeldIs DEF RtlTypes
      <4> QED
        BY <1>1, <2>1, <3>3, <4>3 DEF SimCommand, RtlTypes
    <3>4. CASE m.kind = "ramread"
      <4>1. m.value \in Nat
        BY <3>4 DEF RtlToSim
      <4>2. answered' = Append(answered, m.value) /\ UNCHANGED <<fromSim, cell, held, notes>>
        BY <1>1, <2>1, <3>4 DEF SimCommand
      <4>3. answered' \in Seq(Nat)
        BY <4>1, <4>2 DEF RtlTypes
      <4> QED
        BY <4>2, <4>3 DEF RtlTypes
    <3>5. CASE m.kind = "exit"
      BY <1>1, <2>1, <3>5 DEF SimCommand, RtlTypes, simulator
    <3> QED
      BY <3>1, <3>2, <3>3, <3>4, <3>5 DEF RtlToSim
  <2> QED
    BY <1>1, <2>2, <2>3 DEF SimCommand, RtlTypes, callers, hostSide, histories
<1>2. CASE SimNote
  <2>1. Head(notes) \in RtlNote /\ Tail(notes) \in Seq(RtlNote) /\ Head(notes) \in RtlFromSim
    BY <1>2 DEF SimNote, RtlTypes, RtlFromSim, Hello
  <2> QED
    BY <1>2, <2>1 DEF SimNote, RtlTypes, callers, hostSide, histories
<1> QED
  BY <1>1, <1>2

LEMMA RtlTypesStep ==
  ASSUME RtlTypes, CallsInv, Made \in Nat, RtlNext
  PROVE  RtlTypes'
  BY RtlTypesCaller, RtlTypesLife, RtlTypesHandler, RtlTypesSim DEF RtlNext

(* Elements of the sockets and of the queue.                               *)
LEMMA ElementIs ==
  ASSUME NEW S, NEW s \in Seq(S), NEW i \in DOMAIN s
  PROVE  s[i] \in S /\ i \in 1 .. Len(s) /\ Len(s) \in Nat
  OBVIOUS

LEMMA ReadersAre ==
  ASSUME RtlTypes
  PROVE  /\ \A i \in Reads : i \in 1 .. Len(toSim) /\ toSim[i].of \in RtlThread
         /\ \A i \in Responses : i \in 1 .. Len(fromSim) /\ fromSim[i].data \in RtlDatum /\ fromSim[i].data.of \in RtlThread
         /\ \A i \in DOMAIN queue : i \in 1 .. Len(queue) /\ queue[i] \in RtlDatum /\ queue[i].of \in RtlThread
<1>1. ASSUME NEW i \in Reads
      PROVE  i \in 1 .. Len(toSim) /\ toSim[i].of \in RtlThread
  <2>1. i \in DOMAIN toSim /\ toSim[i].kind = "read" /\ toSim \in Seq(RtlToSim)
    BY <1>1 DEF Reads, RtlTypes
  <2>2. PICK m \in RtlToSim : m = toSim[i] /\ i \in 1 .. Len(toSim)
    BY <2>1, ElementIs
  <2>3. m.of \in RtlThread
    BY <2>1, <2>2 DEF RtlToSim
  <2> QED
    BY <2>2, <2>3
<1>2. ASSUME NEW i \in Responses
      PROVE  i \in 1 .. Len(fromSim) /\ fromSim[i].data \in RtlDatum /\ fromSim[i].data.of \in RtlThread
  <2>1. i \in DOMAIN fromSim /\ fromSim[i].kind = "response" /\ fromSim \in Seq(RtlFromSim)
    BY <1>2 DEF Responses, RtlTypes
  <2>2. PICK m \in RtlFromSim : m = fromSim[i] /\ i \in 1 .. Len(fromSim)
    BY <2>1, ElementIs
  <2>3. m.data \in RtlDatum
    BY <2>1, <2>2 DEF RtlFromSim, RtlNote, Hello
  <2> QED
    BY <2>2, <2>3 DEF RtlDatum
<1>3. ASSUME NEW i \in DOMAIN queue
      PROVE  i \in 1 .. Len(queue) /\ queue[i] \in RtlDatum /\ queue[i].of \in RtlThread
  <2>1. queue \in Seq(RtlDatum)
    BY DEF RtlTypes
  <2>2. PICK d \in RtlDatum : d = queue[i] /\ i \in 1 .. Len(queue)
    BY <1>3, <2>1, ElementIs
  <2> QED
    BY <2>2 DEF RtlDatum
<1> QED
  BY <1>1, <1>2, <1>3

(* Frames.                                                                 *)
SameCallers == \A t \in RtlThread :
  Done(t)' = Done(t) /\ WroteLast(t)' = WroteLast(t) /\ LastSent(t)' = LastSent(t) /\ (Waiting(t)' <=> Waiting(t))

LEMMA ReaderFrame ==
  ASSUME RtlTypes, ReaderInv, SameCallers, run' = run, toSim' = toSim, fromSim' = fromSim, queue' = queue, got' = got, Calm' => Calm
  PROVE  ReaderInv'
<1>1. SUFFICES ASSUME Calm' PROVE ReaderInv'
  BY DEF ReaderInv
<1>2. Calm /\ Reads' = Reads /\ Responses' = Responses
  BY <1>1 DEF Reads, Responses
<1>3. \A t, u \in RtlThread : Waiting(t)' /\ Waiting(u)' => t = u
  BY <1>2 DEF ReaderInv, SameCallers
<1>4. \A i \in Reads : Waiting(toSim[i].of)' /\ Responses = {} /\ queue = <<>> /\ \A j \in Reads : i = j
  <2> TAKE i \in Reads
  <2>1. toSim[i].of \in RtlThread
    BY ReadersAre
  <2> QED
    BY <1>2, <2>1 DEF ReaderInv, SameCallers
<1>5. \A i \in Responses :
       /\ Waiting(fromSim[i].data.of)' /\ fromSim[i].data.value = LastSent(fromSim[i].data.of)'
       /\ queue = <<>> /\ \A j \in Responses : i = j
  <2> TAKE i \in Responses
  <2>1. fromSim[i].data.of \in RtlThread
    BY ReadersAre
  <2> QED
    BY <1>2, <2>1 DEF ReaderInv, SameCallers
<1>6. \A i \in DOMAIN queue : i = 1 /\ Waiting(queue[i].of)' /\ queue[i].value = LastSent(queue[i].of)'
  <2> TAKE i \in DOMAIN queue
  <2>1. queue[i].of \in RtlThread
    BY ReadersAre
  <2> QED
    BY <1>2, <2>1 DEF ReaderInv, SameCallers
<1>7. \A t \in RtlThread : Done(t)' > 0 /\ run.calls[t][Done(t)'].kind = "read" => got[t].of = t /\ got[t].value = WroteLast(t)'
  BY <1>2 DEF ReaderInv, SameCallers
<1> QED
  BY <1>2, <1>3, <1>4, <1>5, <1>6, <1>7 DEF ReaderInv

LEMMA ResetFrame ==
  ASSUME NEW h, ResetInv(h), run' = run, toSim' = toSim,
         \A t \in RtlThread : pc'[t] = "send" /\ Call(t)'.kind = "reset" =>
           sent'[t] = 0 \/ (pc[t] = "send" /\ Call(t)' = Call(t) /\ sent'[t] = sent[t])
  PROVE  ResetInv(h)'
<1>1. SUFFICES ASSUME OnlyAll
               PROVE  /\ \A i \in 0 .. Len(toSim) : Steady(h[i].held)
                      /\ \A t \in RtlThread : pc'[t] = "send" /\ Call(t)'.kind = "reset" =>
                           Underway(Call(t)'.assert, sent'[t], h[Len(toSim)].held[Call(t)'.tile])
  BY RtlConstant DEF ResetInv, Underway
<1>2. \A b, H : Underway(b, 0, H)
  BY DEF Underway
<1> QED
  BY <1>1, <1>2 DEF ResetInv

LEMMA CellFrame ==
  ASSUME NEW h, CellInv(h), toSim' = toSim, \A t \in RtlThread : LastSent(t)' = LastSent(t)
  PROVE  CellInv(h)'
  BY DEF CellInv

LEMMA PendingFrame ==
  ASSUME NEW h, PendingInv(h), toSim' = toSim, Calm' => Calm
  PROVE  PendingInv(h)'
  BY DEF PendingInv, Reads

LEMMA MemoryFrame ==
  ASSUME NEW h, NEW q, MemoryOrder(h, q), run' = run, toSim' = toSim, fromSim' = fromSim, notes' = notes, sysmem' = sysmem,
         answered' = answered, queue' = queue, got' = got, ramReply' = ramReply, handler' = "reply" <=> handler = "reply"
  PROVE  MemoryOrder(h, q)'
<1>1. Made' = Made
  BY DEF Made
<1> QED
  BY <1>1, RtlConstant DEF MemoryOrder

LEMMA PassedFrame ==
  ASSUME NEW s, NEW q, Passed(s, q), run' = run
  PROVE  Passed(s, q)'
  BY DEF Passed

LEMMA CrossFrame ==
  ASSUME CrossInv, run' = run, crossed' => crossed
  PROVE  CrossInv'
  BY DEF CrossInv

(* A step that leaves the sockets, the queue and the device as they are.   *)
LEMMA AsideKeepsRtl ==
  ASSUME RtlInv, RtlTypes', EarlyInv', Still, UNCHANGED <<toSim, fromSim, queue, cell, held, answered, notes, sysmem, got, ramReply>>,
         crossed' = crossed, handler' = "reply" <=> handler = "reply", up' = "ready" => up = "ready"
  PROVE  RtlInv'
<1>1. PICK h, q : SocketsInv(h, q)
  BY DEF RtlInv
<1>2. /\ CallsInv' /\ SameCallers /\ run' = run /\ (Calm' => Calm)
      /\ \A t \in RtlThread : Call(t)' = Call(t)
  BY StillCallers DEF RtlInv, SameCallers, Still, Calm
<1>3. ReaderInv'
  BY <1>2, ReaderFrame DEF RtlInv
<1>4. ResetInv(h)'
  BY <1>1, <1>2, ResetFrame DEF SocketsInv, Still
<1>5. CellInv(h)' /\ PendingInv(h)' /\ MemoryOrder(h, q)' /\ CrossInv'
  BY <1>1, <1>2, CellFrame, PendingFrame, MemoryFrame, CrossFrame DEF SocketsInv, RtlInv, SameCallers
<1>6. Course(toSim, [held |-> held, cell |-> cell, count |-> Len(answered)], h)' /\ Passed(fromSim, q)'
  BY <1>1, <1>2 DEF SocketsInv, Course, Effect, Passed
<1>7. SocketsInv(h, q)'
  BY <1>4, <1>5, <1>6 DEF SocketsInv
<1> QED
  BY <1>2, <1>3, <1>5, <1>7 DEF RtlInv

Early == {"new", "waiting", "failed"}

LEMMA NotEarly ==
  ASSUME up' \notin Early, up' = "ready" => running'
  PROVE  EarlyInv'
  BY DEF EarlyInv, Early

(* Threads that wait are woken and sleep, the handler tests and waits.     *)
LEMMA WaitKeeps ==
  ASSUME RtlInv, RtlTypes',
         \/ HandlerTest \/ RecvTimeout \/ NotifyOne \/ StopHandler \/ NotifyAll
         \/ \E t \in RtlThread : Sleep(t) \/ (TestQueue(t) /\ ~EndCall(t))
  PROVE  RtlInv'
<1>1. RtlTypes /\ EarlyInv /\ CallsInv
  BY DEF RtlInv
<1>2. CASE HandlerTest \/ RecvTimeout
  <2>1. up \notin Early /\ (up = "ready" => running)
    BY <1>1, <1>2 DEF HandlerTest, RecvTimeout, EarlyInv, Early
  <2>2. EarlyInv'
    BY <1>2, <2>1, NotEarly DEF HandlerTest, RecvTimeout
  <2>3. Still
    BY <1>2 DEF HandlerTest, RecvTimeout, callers, Still
  <2> QED
    BY <1>2, <2>2, <2>3, AsideKeepsRtl DEF HandlerTest, RecvTimeout, callers, simulator, histories
<1>3. CASE NotifyOne
  <2>1. up \notin Early /\ (up = "ready" => running)
    BY <1>1, <1>3 DEF NotifyOne, EarlyInv, Early
  <2>2. EarlyInv'
    BY <1>3, <2>1, NotEarly DEF NotifyOne
  <2>3. \A t \in RtlThread : pc'[t] = pc[t] \/ (pc[t] = "asleep" /\ pc'[t] = "test")
    BY <1>1, <1>3 DEF NotifyOne, RtlTypes
  <2>4. Still
    BY <1>3, <2>3 DEF NotifyOne, Still
  <2> QED
    BY <1>3, <2>2, <2>4, AsideKeepsRtl DEF NotifyOne, simulator, histories
<1>4. CASE StopHandler
  <2>1. EarlyInv'
    BY <1>4, NotEarly DEF StopHandler, Early
  <2>2. Still
    BY <1>4 DEF StopHandler, callers, Still
  <2> QED
    BY <1>4, <2>1, <2>2, AsideKeepsRtl DEF StopHandler, callers, simulator, histories
<1>5. CASE NotifyAll
  <2>1. EarlyInv'
    BY <1>5, NotEarly DEF NotifyAll, Early
  <2>2. \A t \in RtlThread : pc'[t] = pc[t] \/ (pc[t] = "asleep" /\ pc'[t] = "test")
    BY <1>5 DEF NotifyAll
  <2>3. Still
    BY <1>5, <2>2 DEF NotifyAll, Still
  <2> QED
    BY <1>5, <2>1, <2>3, AsideKeepsRtl DEF NotifyAll, hostSide, simulator
<1>6. ASSUME NEW t \in RtlThread, Sleep(t) \/ (TestQueue(t) /\ ~EndCall(t))
      PROVE  RtlInv'
  <2>1. pc[t] \in {"test", "tested"} /\ (pc' = [pc EXCEPT ![t] = "tested"] \/ pc' = [pc EXCEPT ![t] = "asleep"])
    BY <1>6 DEF Sleep, TestQueue
  <2>2. up \notin Early /\ (up = "ready" => running)
    BY <1>1, <2>1 DEF EarlyInv, Early
  <2>3. /\ UNCHANGED <<run, todo, sent, owner, toSim, fromSim, queue, cell, held, answered, notes, sysmem, got, ramReply>>
        /\ UNCHANGED <<crossed, handler, up, running>>
    BY <1>6 DEF Sleep, TestQueue, hostSide, simulator, histories
  <2>4. EarlyInv'
    BY <2>2, <2>3, NotEarly
  <2>5. Still
    BY <1>1, <2>1, <2>3 DEF Still, RtlTypes
  <2> QED
    BY <2>3, <2>4, <2>5, AsideKeepsRtl
<1> QED
  BY <1>2, <1>3, <1>4, <1>5, <1>6

LEMMA StutterKeepsRtl ==
  ASSUME RtlInv, UNCHANGED rtlVars
  PROVE  RtlInv'
<1>1. RtlTypes'
  BY DEF RtlInv, RtlTypes, rtlVars
<1>2. Still
  BY DEF rtlVars, Still
<1>3. EarlyInv'
  BY <1>2, <1>1, StillCallers DEF RtlInv, EarlyInv, rtlVars, Done
<1> QED
  BY <1>1, <1>2, <1>3, AsideKeepsRtl DEF rtlVars

(* initialize().                                                           *)
LEMMA SpawnKeeps ==
  ASSUME RtlInv, RtlTypes', Spawn
  PROVE  RtlInv'
<1>1. PICK h, q : SocketsInv(h, q)
  BY DEF RtlInv
<1>2. up = "new" /\ fromSim = <<>> /\ up' \in {"failed", "waiting"} /\ RtlTypes
      /\ (\A t \in RtlThread : pc[t] = "idle" /\ Done(t) = 0) /\ toSim = <<>> /\ queue = <<>> /\ handler = "none"
  BY DEF Spawn, RtlInv, EarlyInv
<1>3. UNCHANGED <<run, callers, toSim, hostSide, simulator, histories>>
  BY DEF Spawn
<1>4. Still /\ ~Calm'
  BY <1>2, <1>3 DEF Still, callers, Calm
<1>5. CallsInv' /\ SameCallers /\ \A t \in RtlThread : Call(t)' = Call(t)
  BY <1>2, <1>4, StillCallers DEF RtlInv, SameCallers
<1>6. ReaderInv' /\ CrossInv' /\ ResetInv(h)' /\ CellInv(h)' /\ PendingInv(h)'
  <2>1. ReaderInv' /\ PendingInv(h)'
    BY <1>4 DEF ReaderInv, PendingInv
  <2>2. CrossInv'
    BY <1>3, CrossFrame DEF RtlInv, histories
  <2>3. ResetInv(h)'
    BY <1>1, <1>2, <1>3, <1>5, ResetFrame DEF SocketsInv, callers
  <2>4. CellInv(h)'
    BY <1>1, <1>3, <1>5, CellFrame DEF SocketsInv, SameCallers
  <2> QED
    BY <2>1, <2>2, <2>3, <2>4
<1>7. Course(toSim, [held |-> held, cell |-> cell, count |-> Len(answered)], h)'
  BY <1>1, <1>3 DEF SocketsInv, Course, Effect, simulator
<1>8. EarlyInv' /\ \A i \in DOMAIN fromSim' : fromSim'[i].kind \in Hello
  <2>1. \A i \in DOMAIN fromSim' : fromSim'[i].kind \in Hello
    BY <1>2 DEF Spawn, Hello
  <2> QED
    BY <1>2, <1>3, <1>5, <2>1 DEF EarlyInv, hostSide, callers, SameCallers
<1>9. PICK r : Passed(fromSim', r) /\ r[0] = q[0] /\ r[Len(fromSim')] = q[0] /\ Len(fromSim') \in Nat
  <2>1. Passed(<<>>, q) /\ q[0] \in 0 .. Len(run.notes)
    BY <1>1, <1>2 DEF SocketsInv, Passed
  <2>2. CASE fromSim' = <<>>
    BY <2>1, <2>2
  <2>3. ASSUME NEW k \in Hello, fromSim' = <<[kind |-> k]>>
        PROVE  \E r : Passed(fromSim', r) /\ r[0] = q[0] /\ r[Len(fromSim')] = q[0] /\ Len(fromSim') \in Nat
    <3>1. PICK m \in RtlFromSim : m = [kind |-> k]
      BY DEF RtlFromSim
    <3>2. fromSim' = Append(<<>>, m) /\ <<>> \in Seq(RtlFromSim) /\ Len(<<>>) = 0 /\ Len(fromSim') = 1
      BY <2>3, <3>1
    <3>3. \E r : Passed(Append(<<>>, m), r) /\ r[0 + 1] = q[0] /\ \A i \in 0 .. 0 : r[i] = q[i]
      <4>1. PICK s \in Seq(RtlFromSim), v \in 0 .. Len(run.notes) : s = <<>> /\ Len(s) = 0 /\ v = q[0] /\ Passed(s, q)
        BY <2>1, <3>2
      <4>2. run \in RtlScenarios /\ v = Onward(m, q[Len(s)])
        BY <1>2, <3>1, <4>1 DEF RtlTypes, Onward, Hello
      <4>3. s \in Seq(RtlFromSim) /\ v \in Places /\ Passed(s, q)
        BY <4>1 DEF Places
      <4>4. Longer(s, m, q, v)
        BY ONLY <4>2, <4>3, m \in RtlFromSim, PassedGrows, Zenon
      <4> QED
        BY <4>1, <4>4 DEF Longer
    <3> QED
      BY <3>2, <3>3
  <2>4. fromSim' = <<>> \/ \E k \in Hello : fromSim' = <<[kind |-> k]>>
    BY <1>2 DEF Spawn, Hello
  <2> QED
    BY <2>2, <2>3, <2>4
<1>10. Passed(fromSim, r)'
  BY <1>3, <1>9, PassedFrame DEF Passed
<1>11. MemoryOrder(h, r)'
  <2>1. Made' = Made /\ q[0] = Made
    BY <1>1, <1>2, <1>3 DEF Made, SocketsInv, MemoryOrder, simulator
  <2>2. \A i \in 1 .. Len(fromSim') : fromSim'[i].kind \notin {"ramread", "ramwrite", "response"}
    <3>1. fromSim' \in Seq(RtlFromSim)
      BY DEF RtlTypes
    <3>2. DOMAIN fromSim' = 1 .. Len(fromSim')
      BY <3>1
    <3> QED
      BY <1>8, <3>2 DEF Hello
  <2> QED
    BY <1>1, <1>2, <1>3, <1>9, <2>1, <2>2, RtlConstant DEF SocketsInv, MemoryOrder, hostSide, simulator, callers
<1>12. SocketsInv(h, r)'
  BY <1>6, <1>7, <1>10, <1>11 DEF SocketsInv
<1> QED
  BY <1>5, <1>6, <1>8, <1>12 DEF RtlInv

LEMMA TailIs ==
  ASSUME NEW S, NEW s \in Seq(S), s # <<>>
  PROVE  /\ Tail(s) \in Seq(S) /\ Head(s) = s[1] /\ Head(s) \in S /\ Len(s) \in Nat /\ Len(s) >= 1
         /\ Len(Tail(s)) = Len(s) - 1 /\ Len(Tail(s)) \in Nat /\ DOMAIN Tail(s) = 1 .. (Len(s) - 1)
         /\ \A i \in 1 .. (Len(s) - 1) : Tail(s)[i] = s[i + 1] /\ i + 1 \in 2 .. Len(s)
  OBVIOUS

LEMMA AcknowledgedKeeps ==
  ASSUME RtlInv, RtlTypes', Acknowledged
  PROVE  RtlInv'
<1>1. PICK h, q : SocketsInv(h, q)
  BY DEF RtlInv
<1>2. up = "waiting" /\ fromSim # <<>> /\ fromSim' = Tail(fromSim) /\ RtlTypes
      /\ ((up' = "ready" /\ running' = TRUE /\ handler' = "test") \/ (up' = "failed" /\ handler' = "none"))
      /\ (\A t \in RtlThread : pc[t] = "idle" /\ Done(t) = 0) /\ toSim = <<>> /\ queue = <<>> /\ handler = "none"
      /\ \A i \in DOMAIN fromSim : fromSim[i].kind \in Hello
  BY DEF Acknowledged, RtlInv, EarlyInv
<1>3. UNCHANGED <<run, callers, toSim, queue, ramReply, sysmem, simulator, histories>>
  BY DEF Acknowledged
<1>4. Still
  BY <1>3 DEF Still, callers
<1>5. CallsInv' /\ SameCallers /\ \A t \in RtlThread : Call(t)' = Call(t)
  BY <1>2, <1>4, StillCallers DEF RtlInv, SameCallers
<1>6. /\ fromSim \in Seq(RtlFromSim) /\ Len(fromSim) \in Nat /\ Len(fromSim) >= 1 /\ Len(fromSim') = Len(fromSim) - 1
      /\ DOMAIN fromSim' = 1 .. (Len(fromSim) - 1)
      /\ \A i \in 1 .. (Len(fromSim) - 1) : fromSim'[i] = fromSim[i + 1] /\ fromSim'[i].kind \in Hello
  <2>1. fromSim \in Seq(RtlFromSim)
    BY <1>2 DEF RtlTypes
  <2>2. DOMAIN fromSim = 1 .. Len(fromSim)
    BY <2>1
  <2> QED
    BY <1>2, <2>1, <2>2, TailIs
<1>7. EarlyInv'
  <2>1. CASE up' = "ready"
    BY <1>2, <2>1, NotEarly DEF Early
  <2>2. CASE up' = "failed" /\ handler' = "none"
    BY <1>2, <1>3, <1>5, <1>6, <2>2 DEF EarlyInv, callers, SameCallers
  <2> QED
    BY <1>2, <2>1, <2>2
<1>8. ReaderInv' /\ PendingInv(h)'
  <2>1. Reads' = {} /\ Responses' = {} /\ queue' = <<>>
    BY <1>2, <1>3, <1>6 DEF Reads, Responses, Hello
  <2>2. \A t \in RtlThread : ~Waiting(t)' /\ Done(t)' = 0
    BY <1>2, <1>5 DEF Waiting, SameCallers
  <2> QED
    BY <2>1, <2>2 DEF ReaderInv, PendingInv
<1>9. CrossInv' /\ ResetInv(h)' /\ CellInv(h)'
  <2>1. CrossInv'
    BY <1>3, CrossFrame DEF RtlInv, histories
  <2>2. ResetInv(h)'
    BY <1>1, <1>2, <1>3, <1>5, ResetFrame DEF SocketsInv, callers
  <2>3. CellInv(h)'
    BY <1>1, <1>3, <1>5, CellFrame DEF SocketsInv, SameCallers
  <2> QED
    BY <2>1, <2>2, <2>3
<1>10. Course(toSim, [held |-> held, cell |-> cell, count |-> Len(answered)], h)'
  BY <1>1, <1>3 DEF SocketsInv, Course, Effect, simulator
<1>11. PICK r : Passed(fromSim', r) /\ \A i \in 0 .. Len(fromSim') : r[i] = q[i + 1]
  BY <1>1, <1>2, <1>6, PassedShrinks DEF SocketsInv, RtlTypes
<1>12. Passed(fromSim, r)'
  BY <1>3, <1>11, PassedFrame DEF Passed
<1>13. r[0] = q[0] /\ r[Len(fromSim')] = q[Len(fromSim)]
  <2>1. q[1] = IF fromSim[1].kind \in {"ramread", "ramwrite"} THEN q[1 - 1] + 1 ELSE q[1 - 1]
    BY <1>1, <1>6 DEF SocketsInv, Passed
  <2>2. fromSim[1].kind \notin {"ramread", "ramwrite"}
    BY <1>2, <1>6 DEF Hello
  <2>3. r[0] = q[0 + 1] /\ r[Len(fromSim')] = q[Len(fromSim') + 1] /\ Len(fromSim') + 1 = Len(fromSim)
    BY <1>6, <1>11
  <2> QED
    BY <2>1, <2>2, <2>3
<1>14. MemoryOrder(h, r)'
  <2>1. Made' = Made
    BY <1>3 DEF Made, simulator
  <2>2. \A i \in 1 .. Len(fromSim') : fromSim'[i].kind \notin {"ramread", "ramwrite", "response"}
    BY <1>6 DEF Hello
  <2> QED
    BY <1>1, <1>2, <1>3, <1>13, <2>1, <2>2, RtlConstant DEF SocketsInv, MemoryOrder, simulator, callers
<1>15. SocketsInv(h, r)'
  BY <1>8, <1>9, <1>10, <1>12, <1>14 DEF SocketsInv
<1> QED
  BY <1>5, <1>7, <1>8, <1>9, <1>15 DEF RtlInv

(* A message is put into the socket to the simulator.                      *)
Posts(m, h, g) ==
  /\ Len(toSim) \in Nat /\ Len(toSim') = Len(toSim) + 1
  /\ DOMAIN toSim = 1 .. Len(toSim) /\ DOMAIN toSim' = 1 .. (Len(toSim) + 1)
  /\ \A i \in 1 .. Len(toSim) : toSim'[i] = toSim[i]
  /\ toSim'[Len(toSim) + 1] = m
  /\ Course(toSim, [held |-> held, cell |-> cell, count |-> Len(answered)], g)'
  /\ g[Len(toSim) + 1] = Effect(m, h[Len(toSim)])
  /\ \A i \in 0 .. Len(toSim) : g[i] = h[i]

LEMMA AppendIs ==
  ASSUME NEW S, NEW s \in Seq(S), NEW m \in S
  PROVE  /\ Append(s, m) \in Seq(S) /\ Len(s) \in Nat /\ Len(Append(s, m)) = Len(s) + 1
         /\ DOMAIN s = 1 .. Len(s) /\ DOMAIN Append(s, m) = 1 .. (Len(s) + 1)
         /\ \A i \in 1 .. Len(s) : Append(s, m)[i] = s[i]
         /\ Append(s, m)[Len(s) + 1] = m
  OBVIOUS

LEMMA PostGrows ==
  ASSUME RtlTypes, NEW h, NEW q, SocketsInv(h, q), NEW m \in RtlToSim, toSim' = Append(toSim, m),
         UNCHANGED <<cell, held, answered>>
  PROVE  \E g : Posts(m, h, g)
<1>1. PICK s, x : s \in Seq(RtlToSim) /\ s = toSim /\ x = [held |-> held, cell |-> cell, count |-> Len(answered)]
  BY DEF RtlTypes
<1>2. Course(s, x, h)
  BY <1>1 DEF SocketsInv
<1>3. PICK g : /\ Course(Append(s, m), x, g) /\ g[Len(s) + 1] = Effect(m, h[Len(s)])
               /\ \A i \in 0 .. Len(s) : g[i] = h[i]
  BY ONLY <1>1, <1>2, m \in RtlToSim, CourseGrows
<1>4. Course(toSim, [held |-> held, cell |-> cell, count |-> Len(answered)], g)'
  BY <1>1, <1>3 DEF Course, Effect
<1>5. /\ Len(s) \in Nat /\ Len(Append(s, m)) = Len(s) + 1
      /\ DOMAIN s = 1 .. Len(s) /\ DOMAIN Append(s, m) = 1 .. (Len(s) + 1)
      /\ \A i \in 1 .. Len(s) : Append(s, m)[i] = s[i]
      /\ Append(s, m)[Len(s) + 1] = m
  BY ONLY <1>1, m \in RtlToSim, AppendIs
<1>6. Posts(m, h, g)
  BY <1>1, <1>3, <1>4, <1>5 DEF Posts
<1> QED
  BY <1>6

LEMMA PostReset ==
  ASSUME NEW m, NEW h, NEW g, Posts(m, h, g), ResetInv(h), run' = run, NEW H, H = Effect(m, h[Len(toSim)]).held,
         OnlyAll => Steady(H),
         \A t \in RtlThread : OnlyAll /\ pc'[t] = "send" /\ Call(t)'.kind = "reset" => Underway(Call(t)'.assert, sent'[t], H[Call(t)'.tile])
  PROVE  ResetInv(g)'
<1>1. OnlyAll' <=> OnlyAll
  BY RtlConstant
<1>2. PICK n \in Nat : n = Len(toSim) /\ Len(toSim') = n + 1
  BY DEF Posts
<1>3. g[n + 1].held = H /\ \A i \in 0 .. n : g[i] = h[i]
  BY <1>2 DEF Posts
<1>4. OnlyAll => \A i \in 0 .. n : Steady(h[i].held)
  BY <1>2 DEF ResetInv
<1>5. OnlyAll => \A i \in 0 .. (n + 1) : Steady(g[i].held)
  <2> SUFFICES ASSUME OnlyAll, NEW i \in 0 .. (n + 1) PROVE Steady(g[i].held)
    OBVIOUS
  <2>1. i \in 0 .. n \/ i = n + 1
    OBVIOUS
  <2> QED
    BY <1>3, <1>4, <2>1
<1>6. OnlyAll => \A t \in RtlThread : pc'[t] = "send" /\ Call(t)'.kind = "reset" =>
        Underway(Call(t)'.assert, sent'[t], g[n + 1].held[Call(t)'.tile])
  BY <1>3
<1> QED
  BY <1>1, <1>2, <1>5, <1>6, RtlConstant DEF ResetInv, Underway

LEMMA PostCell ==
  ASSUME NEW m, NEW h, NEW g, Posts(m, h, g), NEW C, C = Effect(m, h[Len(toSim)]).cell, \A t \in RtlThread : C[t] = LastSent(t)'
  PROVE  CellInv(g)'
<1>1. g[Len(toSim')].cell = C
  BY DEF Posts
<1> QED
  BY <1>1 DEF CellInv

LEMMA PostMemory ==
  ASSUME NEW m, NEW h, NEW g, NEW q, Posts(m, h, g), MemoryOrder(h, q), m.kind # "ramread", run' = run, fromSim' = fromSim,
         notes' = notes, sysmem' = sysmem, answered' = answered, queue' = queue, got' = got, ramReply' = ramReply, handler' = handler
  PROVE  MemoryOrder(g, q)'
<1>1. Made' = Made
  BY DEF Made
<1>2. PICK n \in Nat : n = Len(toSim) /\ Len(toSim') = n + 1
  BY DEF Posts
<1>3. g[n + 1].count = h[n].count
  BY <1>2 DEF Posts, Effect
<1>4. \A i \in 1 .. (n + 1) : toSim'[i].kind = "ramread" => Right(g[i].count, toSim'[i].value)
  <2> SUFFICES ASSUME NEW i \in 1 .. (n + 1), toSim'[i].kind = "ramread" PROVE Right(g[i].count, toSim'[i].value)
    OBVIOUS
  <2>1. i \in 1 .. n /\ i \in 0 .. n
    <3>1. i \in 1 .. n \/ i = n + 1
      OBVIOUS
    <3> QED
      BY <1>2, <3>1 DEF Posts
  <2> QED
    BY <1>2, <2>1 DEF Posts, MemoryOrder
<1> QED
  BY <1>1, <1>2, <1>3, <1>4, RtlConstant DEF MemoryOrder

(* A message that is not a read adds no request.                           *)
LEMMA PostReads ==
  ASSUME NEW m, NEW h, NEW g, Posts(m, h, g)
  PROVE  /\ Reads' = Reads \cup (IF m.kind = "read" THEN {Len(toSim) + 1} ELSE {})
         /\ \A i \in Reads : toSim'[i] = toSim[i] /\ g[i] = h[i] /\ i \in 1 .. Len(toSim)
  BY DEF Posts, Reads

LEMMA JoinKeeps ==
  ASSUME RtlInv, RtlTypes', JoinHandler
  PROVE  RtlInv'
<1>1. PICK h, q : SocketsInv(h, q)
  BY DEF RtlInv
<1>2. PICK m \in RtlToSim : m = [kind |-> "exit"]
  BY DEF RtlToSim
<1>3. up' = "down" /\ toSim' = Append(toSim, m) /\ UNCHANGED <<run, callers, fromSim, hostSide, simulator, histories>> /\ RtlTypes
  BY <1>2 DEF JoinHandler, RtlInv
<1>4. PICK g : Posts(m, h, g)
  BY <1>1, <1>3, PostGrows DEF simulator
<1>5. Still /\ ~Calm'
  BY <1>3 DEF Still, callers, Calm
<1>6. CallsInv' /\ SameCallers /\ \A t \in RtlThread : Call(t)' = Call(t)
  BY <1>3, <1>5, StillCallers DEF RtlInv, SameCallers
<1>7. Effect(m, h[Len(toSim)]).held = h[Len(toSim)].held /\ Effect(m, h[Len(toSim)]).cell = h[Len(toSim)].cell
  BY <1>2 DEF Effect
<1>8. ResetInv(g)'
  <2>1. PICK H : H = Effect(m, h[Len(toSim)]).held /\ H = h[Len(toSim)].held
    BY <1>7
  <2>2. OnlyAll => Steady(H)
    BY <1>1, <1>4, <2>1 DEF SocketsInv, ResetInv, Posts
  <2>3. \A t \in RtlThread : OnlyAll /\ pc'[t] = "send" /\ Call(t)'.kind = "reset" =>
          Underway(Call(t)'.assert, sent'[t], H[Call(t)'.tile])
    BY <1>1, <1>3, <1>6, <2>1 DEF SocketsInv, ResetInv, callers
  <2> QED
    BY <1>1, <1>3, <1>4, <2>1, <2>2, <2>3, PostReset DEF SocketsInv
<1>9. CellInv(g)'
  <2>1. PICK C : C = Effect(m, h[Len(toSim)]).cell /\ C = h[Len(toSim)].cell
    BY <1>7
  <2>2. \A t \in RtlThread : C[t] = LastSent(t)'
    BY <1>1, <1>6, <2>1 DEF SocketsInv, CellInv, SameCallers
  <2>3. C = Effect(m, h[Len(toSim)]).cell
    BY <2>1
  <2> QED
    BY ONLY <1>4, <2>2, <2>3, PostCell, Zenon
<1>10. MemoryOrder(g, q)'
  BY <1>1, <1>2, <1>3, <1>4, PostMemory DEF SocketsInv, callers, hostSide, simulator
<1>11. Passed(fromSim, q)'
  BY <1>1, <1>3 DEF SocketsInv, Passed
<1>12. ReaderInv' /\ PendingInv(g)'
  BY <1>5 DEF ReaderInv, PendingInv
<1>13. EarlyInv' /\ CrossInv'
  BY <1>3, NotEarly, CrossFrame DEF Early, RtlInv, histories
<1>14. SocketsInv(g, q)'
  BY <1>4, <1>8, <1>9, <1>10, <1>11, <1>12 DEF SocketsInv, Posts
<1> QED
  BY <1>6, <1>12, <1>13, <1>14 DEF RtlInv

(* A call begins.                                                          *)
LEMMA BeginKeeps ==
  ASSUME RtlInv, RtlTypes', NEW t \in RtlThread, BeginCall(t)
  PROVE  RtlInv'
<1>1. PICK h, q : SocketsInv(h, q)
  BY DEF RtlInv
<1>2. /\ RtlTypes /\ CallsInv /\ pc[t] = "idle" /\ todo[t] # <<>> /\ up \notin Early
      /\ pc' = [pc EXCEPT ![t] = "send"] /\ sent' = [sent EXCEPT ![t] = 0]
      /\ (Call(t).via = "device" => owner' = t) /\ (owner' = owner \/ owner = Free)
      /\ UNCHANGED <<run, up, todo, got, toSim, fromSim, hostSide, simulator, histories>>
  BY DEF BeginCall, LockDevice, RtlInv, Early
<1>3. /\ pc'[t] = "send" /\ sent'[t] = 0
      /\ \A u \in RtlThread \ {t} : pc'[u] = pc[u] /\ sent'[u] = sent[u]
  BY <1>2 DEF RtlTypes
<1>4. \A u \in RtlThread : Call(u)' = Call(u) /\ Done(u)' = Done(u)
  BY <1>2 DEF Call, Done
<1>5. \A u \in RtlThread : WroteLast(u)' = WroteLast(u)
  BY <1>2, <1>4, SameWrites
<1>6. \A u \in RtlThread : LastSent(u)' = LastSent(u) /\ (Waiting(u)' <=> Waiting(u))
  <2> TAKE u \in RtlThread
  <2>1. CASE u = t
    BY <1>2, <1>3, <1>5, <2>1 DEF LastSent, Waiting
  <2>2. CASE u # t
    BY <1>3, <1>4, <1>5, <2>2 DEF LastSent, Waiting, WholeWrite
  <2> QED
    BY <2>1, <2>2
<1>7. SameCallers
  BY <1>4, <1>5, <1>6 DEF SameCallers
<1>8. CallsInv'
  <2> SUFFICES ASSUME NEW u \in RtlThread
               PROVE  /\ Len(todo[u]) <= Len(run.calls[u])
                      /\ \A j \in 1 .. Len(todo[u]) : todo[u][j] = run.calls[u][Done(u)' + j]
                      /\ pc'[u] # "idle" => todo[u] # <<>> /\ (Call(u)'.via = "device" => owner' = u)
                      /\ pc'[u] = "send" /\ Call(u)'.kind = "read" => sent'[u] = 0
                      /\ Waiting(u)' => Call(u)'.kind = "read"
    BY <1>2 DEF CallsInv
  <2>1. CASE u = t
    BY <1>2, <1>3, <1>4, <1>6, <2>1 DEF CallsInv, Waiting
  <2>2. CASE u # t
    <3>1. owner = u => owner' = u
      BY <1>2, RtlAssumption
    <3> QED
      BY <1>2, <1>3, <1>4, <1>6, <2>2, <3>1 DEF CallsInv
  <2> QED
    BY <2>1, <2>2
<1>9. EarlyInv'
  <2>1. up = "ready" => running
    BY DEF RtlInv, EarlyInv
  <2> QED
    BY <1>2, <2>1, NotEarly DEF hostSide
<1>10. ReaderInv'
  BY <1>2, <1>7, ReaderFrame DEF RtlInv, Calm, hostSide, histories
<1>11. ResetInv(h)'
  BY <1>1, <1>2, <1>3, <1>4, ResetFrame DEF SocketsInv
<1>12. CellInv(h)' /\ PendingInv(h)' /\ CrossInv'
  BY <1>1, <1>2, <1>6, CellFrame, PendingFrame, CrossFrame DEF SocketsInv, RtlInv, Calm, histories
<1>13. MemoryOrder(h, q)'
  BY <1>1, <1>2, MemoryFrame DEF SocketsInv, hostSide, simulator
<1>14. Course(toSim, [held |-> held, cell |-> cell, count |-> Len(answered)], h)' /\ Passed(fromSim, q)'
  BY <1>1, <1>2 DEF SocketsInv, Course, Effect, Passed, simulator
<1>15. SocketsInv(h, q)'
  BY <1>11, <1>12, <1>13, <1>14 DEF SocketsInv
<1> QED
  BY <1>8, <1>9, <1>10, <1>12, <1>15 DEF RtlInv

(* A message that is not a read leaves the readers as they are.            *)
SameReaders == \A u \in RtlThread :
  /\ Done(u)' = Done(u) /\ WroteLast(u)' = WroteLast(u) /\ (Waiting(u)' <=> Waiting(u))
  /\ Waiting(u) => LastSent(u)' = LastSent(u)

LEMMA PostReader ==
  ASSUME RtlTypes, ReaderInv, NEW m, NEW h, NEW g, Posts(m, h, g), m.kind # "read", SameReaders,
         run' = run, fromSim' = fromSim, queue' = queue, got' = got, Calm' => Calm
  PROVE  ReaderInv'
<1>1. SUFFICES ASSUME Calm' PROVE ReaderInv'
  BY DEF ReaderInv
<1>2. Calm /\ Reads' = Reads /\ Responses' = Responses /\ \A i \in Reads : toSim'[i] = toSim[i]
  BY <1>1, PostReads DEF Responses
<1>3. \A t, u \in RtlThread : Waiting(t)' /\ Waiting(u)' => t = u
  BY <1>2 DEF ReaderInv, SameReaders
<1>4. \A i \in Reads : Waiting(toSim[i].of)' /\ Responses = {} /\ queue = <<>> /\ \A j \in Reads : i = j
  <2> TAKE i \in Reads
  <2>1. toSim[i].of \in RtlThread
    BY ReadersAre
  <2> QED
    BY <1>2, <2>1 DEF ReaderInv, SameReaders
<1>5. \A i \in Responses :
       /\ Waiting(fromSim[i].data.of)' /\ fromSim[i].data.value = LastSent(fromSim[i].data.of)'
       /\ queue = <<>> /\ \A j \in Responses : i = j
  <2> TAKE i \in Responses
  <2>1. fromSim[i].data.of \in RtlThread
    BY ReadersAre
  <2> QED
    BY <1>2, <2>1 DEF ReaderInv, SameReaders
<1>6. \A i \in DOMAIN queue : i = 1 /\ Waiting(queue[i].of)' /\ queue[i].value = LastSent(queue[i].of)'
  <2> TAKE i \in DOMAIN queue
  <2>1. queue[i].of \in RtlThread
    BY ReadersAre
  <2> QED
    BY <1>2, <2>1 DEF ReaderInv, SameReaders
<1>7. \A t \in RtlThread : Done(t)' > 0 /\ run.calls[t][Done(t)'].kind = "read" => got[t].of = t /\ got[t].value = WroteLast(t)'
  BY <1>2 DEF ReaderInv, SameReaders
<1>8. \A i \in Reads' : Waiting(toSim[i].of)' /\ Responses' = {} /\ queue' = <<>> /\ \A j \in Reads' : i = j
  <2> TAKE i \in Reads'
  <2>1. i \in Reads /\ toSim'[i] = toSim[i]
    BY <1>2
  <2>2. Waiting(toSim[i].of)' /\ Responses = {} /\ queue = <<>> /\ \A j \in Reads : i = j
    BY <1>4, <2>1
  <2> QED
    BY <1>2, <2>1, <2>2
<1> QED
  BY <1>2, <1>3, <1>5, <1>6, <1>7, <1>8 DEF ReaderInv

LEMMA PostPending ==
  ASSUME RtlTypes, ReaderInv, NEW m, NEW h, NEW g, Posts(m, h, g), PendingInv(h), m.kind # "read", Calm' => Calm,
         NEW C, C = Effect(m, h[Len(toSim)]).cell, \A u \in RtlThread : Waiting(u) => C[u] = h[Len(toSim)].cell[u]
  PROVE  PendingInv(g)'
<1>1. SUFFICES ASSUME Calm', NEW i \in Reads'
               PROVE  g[i].cell[toSim'[i].of] = g[Len(toSim')].cell[toSim'[i].of]
  BY DEF PendingInv
<1>2. Calm /\ i \in Reads /\ toSim'[i] = toSim[i] /\ g[i] = h[i]
  BY <1>1, PostReads
<1>3. PICK u : u = toSim[i].of
  OBVIOUS
<1>4. u \in RtlThread /\ Waiting(u)
  BY <1>2, <1>3, ReadersAre DEF ReaderInv
<1>5. h[i].cell[u] = h[Len(toSim)].cell[u]
  BY <1>2, <1>3 DEF PendingInv
<1>6. g[Len(toSim')].cell = C
  BY DEF Posts
<1> QED
  BY <1>2, <1>3, <1>4, <1>5, <1>6

LEMMA TileProgress ==
  ASSUME NEW H, NEW b \in BOOLEAN, NEW n \in 0 .. 2, Beside(H), Underway(b, n, H), NEW w, w = Order(b, n), NEW c \in RtlTile,
         NEW G, G = (IF b THEN H \cup Affected(w, c, c) ELSE H \ Affected(w, c, c)),
         "uncore" \notin Dms, "tensix" \notin Dms, "dms" \notin Dms
  PROVE  Beside(G) /\ Underway(b, n + 1, G) /\ (Ordered(H) => Ordered(G))
<1>1. n = 0 \/ n = 1 \/ n = 2
  OBVIOUS
<1>2. Affected("tensix", c, c) = {"tensix"} /\ Affected("uncores", c, c) = {"uncore"} /\ Affected("dms", c, c) = Dms
  BY DEF Affected
<1>3. CASE b /\ n = 0
  <2>1. w = "tensix"
    BY <1>3 DEF Order
  <2>2. G = H \cup {"tensix"}
    BY <1>2, <1>3, <2>1, Zenon
  <2>3. n + 1 = 1 /\ ~(1 >= 2)
    BY <1>3
  <2>4. Beside(G) /\ (Ordered(H) => Ordered(G))
    BY <2>2 DEF Beside, Ordered
  <2>5. b /\ "tensix" \in G
    BY <1>3, <2>2
  <2>6. Underway(b, 1, G)
    BY <2>3, <2>5, Zenon DEF Underway
  <2> QED
    BY <2>3, <2>4, <2>6
<1>4. CASE b /\ n = 1
  <2>1. w = "dms" /\ "tensix" \in H
    BY <1>4 DEF Order, Underway
  <2> QED
    BY <1>2, <1>4, <2>1 DEF Beside, Ordered, Underway
<1>5. CASE b /\ n = 2
  <2>1. w = "uncores" /\ "tensix" \in H /\ Dms \subseteq H
    BY <1>5 DEF Order, Underway
  <2> QED
    BY <1>2, <1>5, <2>1 DEF Beside, Ordered, Underway
<1>6. CASE ~b /\ n = 0
  <2>1. w = "uncores"
    BY <1>6 DEF Order
  <2> QED
    BY <1>2, <1>6, <2>1 DEF Beside, Ordered, Underway
<1>7. CASE ~b /\ n = 1
  <2>1. w = "dms" /\ "uncore" \notin H
    BY <1>7 DEF Order, Underway
  <2> QED
    BY <1>2, <1>7, <2>1 DEF Beside, Ordered, Underway
<1>8. CASE ~b /\ n = 2
  <2>1. w = "tensix" /\ "uncore" \notin H /\ Dms \cap H = {}
    BY <1>8 DEF Order, Underway
  <2> QED
    BY <1>2, <1>8, <2>1 DEF Beside, Ordered, Underway
<1> QED
  BY <1>1, <1>3, <1>4, <1>5, <1>6, <1>7, <1>8

(* On another tile the uncore is all that a reset of ALL touches.          *)
LEMMA ResetProgress ==
  ASSUME NEW H \in RtlHeld, NEW b \in BOOLEAN, NEW n \in 0 .. 2, Steady(H), NEW c \in RtlTile, Underway(b, n, H[c]),
         NEW w, w = Order(b, n), NEW G, G = (IF b THEN Holding(H, w, c) ELSE Freeing(H, w, c)),
         b => \A k \in RtlTile \ {c} : ~Lone(k), "uncore" \notin Dms, "tensix" \notin Dms, "dms" \notin Dms
  PROVE  Steady(G) /\ Underway(b, n + 1, G[c])
<1>1. \A k \in RtlTile : G[k] = IF b THEN H[k] \cup Affected(w, c, k) ELSE H[k] \ Affected(w, c, k)
  BY DEF Holding, Freeing
<1>2. Beside(G[c]) /\ Underway(b, n + 1, G[c]) /\ (Ordered(H[c]) => Ordered(G[c]))
  <2>1. PICK X, Y : X = H[c] /\ Y = G[c]
    OBVIOUS
  <2>2. Beside(X) /\ Underway(b, n, X) /\ Y = (IF b THEN X \cup Affected(w, c, c) ELSE X \ Affected(w, c, c))
    BY <1>1, <2>1 DEF Steady
  <2>3. Beside(Y) /\ Underway(b, n + 1, Y) /\ (Ordered(X) => Ordered(Y))
    BY ONLY <2>2, b \in BOOLEAN, n \in 0 .. 2, c \in RtlTile, w = Order(b, n), "uncore" \notin Dms, "tensix" \notin Dms, "dms" \notin Dms, TileProgress
  <2> QED
    BY <2>1, <2>3
<1>3. ASSUME NEW k \in RtlTile, k # c PROVE (Lone(k) => Ordered(G[k])) /\ Beside(G[k])
  <2>1. PICK X, Y, A : X = H[k] /\ Y = G[k] /\ A = Affected(w, c, k)
    OBVIOUS
  <2>2. A \subseteq {"uncore"}
    BY <1>3, <2>1 DEF Affected
  <2>3. Beside(X) /\ (Lone(k) => Ordered(X))
    BY <2>1 DEF Steady
  <2>4. CASE b
    <3>1. Y = X \cup A /\ ~Lone(k)
      BY <1>1, <1>3, <2>1, <2>4
    <3>2. Beside(Y)
      BY <2>2, <2>3, <3>1 DEF Beside
    <3> QED
      BY <2>1, <3>1, <3>2
  <2>5. CASE ~b
    <3>1. Y = X \ A
      BY <1>1, <2>1, <2>5
    <3>2. Beside(Y)
      BY <2>2, <2>3, <3>1 DEF Beside
    <3>3. Ordered(X) => Ordered(Y)
      BY <2>2, <3>1 DEF Ordered
    <3> QED
      BY <2>1, <2>3, <3>2, <3>3
  <2> QED
    BY <2>4, <2>5
<1>4. ASSUME NEW k \in RtlTile PROVE (Lone(k) => Ordered(G[k])) /\ Beside(G[k])
  <2>1. CASE k = c
    BY <1>2, <2>1 DEF Steady
  <2> QED
    BY <1>3, <2>1
<1>5. Steady(G)
  BY <1>4 DEF Steady
<1> QED
  BY <1>2, <1>5

(* A thread goes through a command of its call.                            *)
Sends(t) ==
  /\ pc[t] = "send" /\ sent' = [sent EXCEPT ![t] = @ + 1] /\ todo' = todo /\ owner' = owner
  /\ pc' = [pc EXCEPT ![t] = IF Call(t).kind = "read" THEN "test" ELSE "send"]
  /\ crossed' = (crossed \/ \E u \in RtlThread \ {t} : Waiting(u) /\ Call(t).kind = "read")
  /\ UNCHANGED <<run, up, got, fromSim, hostSide, simulator, missed>>

LEMMA SendCallers ==
  ASSUME RtlTypes, CallsInv, NEW t \in RtlThread, Sends(t)
  PROVE  /\ CallsInv' /\ ~Waiting(t) /\ (Waiting(t)' <=> Call(t).kind = "read")
         /\ sent[t] \in Nat /\ sent'[t] = sent[t] + 1 /\ (pc'[t] = "send" => Call(t).kind # "read")
         /\ LastSent(t)' = IF WholeWrite(Call(t)) THEN Call(t).value ELSE WroteLast(t)
         /\ (sent[t] = 0 \/ ~WholeWrite(Call(t)) => LastSent(t) = WroteLast(t))
         /\ \A u \in RtlThread : Call(u)' = Call(u) /\ Done(u)' = Done(u) /\ WroteLast(u)' = WroteLast(u)
         /\ \A u \in RtlThread \ {t} :
              pc'[u] = pc[u] /\ sent'[u] = sent[u] /\ LastSent(u)' = LastSent(u) /\ (Waiting(u)' <=> Waiting(u))
<1>1. /\ sent[t] \in Nat /\ sent'[t] = sent[t] + 1 /\ pc'[t] = IF Call(t).kind = "read" THEN "test" ELSE "send"
      /\ \A u \in RtlThread \ {t} : pc'[u] = pc[u] /\ sent'[u] = sent[u]
  BY DEF Sends, RtlTypes
<1>2. \A u \in RtlThread : Call(u)' = Call(u) /\ Done(u)' = Done(u)
  BY DEF Sends, Call, Done
<1>3. \A u \in RtlThread : WroteLast(u)' = WroteLast(u)
  BY <1>2, SameWrites DEF Sends
<1>4. \A u \in RtlThread \ {t} : LastSent(u)' = LastSent(u) /\ (Waiting(u)' <=> Waiting(u))
  BY <1>1, <1>2, <1>3 DEF LastSent, Waiting, WholeWrite
<1>5. ~Waiting(t) /\ (Waiting(t)' <=> Call(t).kind = "read") /\ (pc'[t] = "send" => Call(t).kind # "read")
  BY <1>1 DEF Waiting, Sends
<1>6. LastSent(t)' = IF WholeWrite(Call(t)) THEN Call(t).value ELSE WroteLast(t)
  <2>1. CASE WholeWrite(Call(t))
    <3>1. pc'[t] = "send" /\ sent'[t] >= 1 /\ WholeWrite(Call(t))' /\ Call(t)' = Call(t)
      BY <1>1, <1>2, <2>1 DEF WholeWrite
    <3> QED
      BY <2>1, <3>1 DEF LastSent
  <2>2. CASE ~WholeWrite(Call(t))
    <3>1. ~WholeWrite(Call(t))'
      BY <1>2, <2>2 DEF WholeWrite
    <3> QED
      BY <1>3, <2>2, <3>1 DEF LastSent
  <2> QED
    BY <2>1, <2>2
<1>7. sent[t] = 0 \/ ~WholeWrite(Call(t)) => LastSent(t) = WroteLast(t)
  BY DEF LastSent
<1>8. CallsInv'
  <2> SUFFICES ASSUME NEW u \in RtlThread
               PROVE  /\ Len(todo[u]) <= Len(run.calls[u])
                      /\ \A j \in 1 .. Len(todo[u]) : todo[u][j] = run.calls[u][Done(u)' + j]
                      /\ pc'[u] # "idle" => todo[u] # <<>> /\ (Call(u)'.via = "device" => owner = u)
                      /\ pc'[u] = "send" /\ Call(u)'.kind = "read" => sent'[u] = 0
                      /\ Waiting(u)' => Call(u)'.kind = "read"
    BY DEF CallsInv, Sends
  <2>1. CASE u = t
    <3>1. pc[t] # "idle"
      BY DEF Sends
    <3> QED
      BY <1>1, <1>2, <1>5, <2>1, <3>1 DEF CallsInv
  <2>2. CASE u # t
    BY <1>1, <1>2, <1>4, <2>2 DEF CallsInv
  <2> QED
    BY <2>1, <2>2
<1> QED
  BY <1>1, <1>2, <1>3, <1>4, <1>5, <1>6, <1>7, <1>8

(* SendCommand: what is left alone.                                        *)
LEMMA SendFrame ==
  ASSUME RtlInv, NEW t \in RtlThread, Sends(t), NEW q, Passed(fromSim, q)
  PROVE  EarlyInv' /\ Passed(fromSim, q)' /\ (Calm' => Calm)
<1>1. up \notin Early /\ (up = "ready" => running)
  BY DEF RtlInv, EarlyInv, Early, Sends
<1>2. EarlyInv'
  BY <1>1, NotEarly DEF Sends, hostSide
<1> QED
  BY <1>2 DEF Sends, Passed, Calm

LEMMA OneAtATime ==
  ASSUME CallsInv, NEW t \in RtlThread, NEW u \in RtlThread, pc[t] # "idle", pc[u] # "idle",
         Call(t).via = "device", Call(u).via = "device"
  PROVE  t = u
  BY DEF CallsInv

(* A read is requested.                                                    *)
LEMMA ReadPosted ==
  ASSUME RtlInv, RtlTypes', NEW t \in RtlThread, Sends(t), Call(t).kind = "read", sent[t] = 0,
         NEW m \in RtlToSim, m = [kind |-> "read", of |-> t], toSim' = Append(toSim, m)
  PROVE  RtlInv'
<1>1. PICK h, q : SocketsInv(h, q)
  BY DEF RtlInv
<1>2. RtlTypes /\ CallsInv /\ ReaderInv /\ CrossInv
  BY DEF RtlInv
<1>3. UNCHANGED <<run, up, got, fromSim, hostSide, simulator, missed>>
  BY DEF Sends
<1>4. PICK g : Posts(m, h, g)
  BY <1>1, <1>2, <1>3, PostGrows DEF simulator
<1>5. /\ CallsInv' /\ ~Waiting(t) /\ Waiting(t)' /\ pc'[t] # "send"
      /\ LastSent(t)' = WroteLast(t) /\ LastSent(t) = WroteLast(t)
      /\ \A u \in RtlThread : Call(u)' = Call(u) /\ Done(u)' = Done(u) /\ WroteLast(u)' = WroteLast(u)
      /\ \A u \in RtlThread \ {t} :
           pc'[u] = pc[u] /\ sent'[u] = sent[u] /\ LastSent(u)' = LastSent(u) /\ (Waiting(u)' <=> Waiting(u))
  <2>1. ~WholeWrite(Call(t))
    BY DEF WholeWrite
  <2> QED
    BY <1>2, <2>1, SendCallers
<1>6. EarlyInv' /\ Passed(fromSim, q)' /\ (Calm' => Calm)
  BY <1>1, SendFrame DEF SocketsInv
<1>7. Effect(m, h[Len(toSim)]).held = h[Len(toSim)].held /\ Effect(m, h[Len(toSim)]).cell = h[Len(toSim)].cell
  BY DEF Effect
<1>8. ResetInv(g)'
  <2>1. PICK H : H = Effect(m, h[Len(toSim)]).held /\ H = h[Len(toSim)].held
    BY <1>7
  <2>2. OnlyAll => Steady(H)
    BY <1>1, <1>4, <2>1 DEF SocketsInv, ResetInv, Posts
  <2>3. \A u \in RtlThread : OnlyAll /\ pc'[u] = "send" /\ Call(u)'.kind = "reset" => Underway(Call(u)'.assert, sent'[u], H[Call(u)'.tile])
    BY <1>1, <1>5, <2>1 DEF SocketsInv, ResetInv
  <2> QED
    BY <1>1, <1>3, <1>4, <2>1, <2>2, <2>3, PostReset DEF SocketsInv
<1>9. CellInv(g)'
  <2>1. PICK C : C = Effect(m, h[Len(toSim)]).cell /\ C = h[Len(toSim)].cell
    BY <1>7
  <2>2. \A u \in RtlThread : C[u] = LastSent(u)'
    BY <1>1, <1>5, <2>1 DEF SocketsInv, CellInv
  <2>3. C = Effect(m, h[Len(toSim)]).cell
    BY <2>1
  <2> QED
    BY ONLY <1>4, <2>2, <2>3, PostCell, Zenon
<1>10. MemoryOrder(g, q)'
  BY <1>1, <1>3, <1>4, PostMemory DEF SocketsInv, hostSide, simulator
<1>11. CrossInv'
  <2>1. CASE crossed
    BY <1>2, <1>3, <2>1, CrossFrame
  <2>2. CASE ~crossed
    <3>1. SUFFICES ASSUME crossed' PROVE \E v \in RtlThread : \E i \in DOMAIN run.calls[v] : run.calls[v][i].via = "window"
      BY <1>3 DEF CrossInv
    <3>2. PICK u \in RtlThread \ {t} : Waiting(u)
      BY <2>2, <3>1 DEF Sends
    <3>3. pc[t] # "idle" /\ pc[u] # "idle" /\ Call(u).kind = "read"
      BY <1>2, <3>2 DEF Sends, Waiting, CallsInv
    <3>4. \A v \in {t, u} : /\ Call(v) \in RtlOp /\ Done(v) + 1 \in DOMAIN run.calls[v]
                            /\ Call(v) = run.calls[v][Done(v) + 1]
      BY <1>2, <3>3, CallIs DEF CallsInv
    <3>5. \A op \in RtlOp : op.kind = "read" => op.via = "device" \/ op.via = "window"
      BY DEF RtlOp
    <3>6. Call(t).via = "window" \/ Call(u).via = "window"
      BY <1>2, <3>2, <3>3, <3>4, <3>5, OneAtATime
    <3> QED
      BY <3>4, <3>6
  <2> QED
    BY <2>1, <2>2
<1>12. ASSUME Calm'
       PROVE  Calm /\ (\A u \in RtlThread : Waiting(u)' => u = t) /\ Reads' = {Len(toSim) + 1} /\ Responses' = {} /\ queue' = <<>>
  <2>1. Calm /\ \A u \in RtlThread \ {t} : ~Waiting(u)
    BY <1>6, <1>12 DEF Calm, Sends
  <2>2. \A u \in RtlThread : ~Waiting(u)
    BY <1>5, <2>1
  <2>3. Reads = {} /\ Responses = {}
    BY <1>2, <2>1, <2>2, ReadersAre DEF ReaderInv
  <2>4. queue = <<>>
    <3>1. queue \in Seq(RtlDatum)
      BY <1>2 DEF RtlTypes
    <3>2. \A i \in DOMAIN queue : FALSE
      BY <1>2, <2>1, <2>2, ReadersAre DEF ReaderInv
    <3>3. DOMAIN queue = 1 .. Len(queue) /\ Len(queue) \in Nat
      BY <3>1
    <3>4. Len(queue) = 0
      BY <3>2, <3>3
    <3> QED
      BY <3>1, <3>4
  <2>5. Reads' = {Len(toSim) + 1}
    BY <1>4, <2>3, PostReads
  <2> QED
    BY <1>3, <1>5, <2>1, <2>3, <2>4, <2>5 DEF Responses, hostSide
<1>13. ReaderInv'
  <2>1. SUFFICES ASSUME Calm' PROVE ReaderInv'
    BY DEF ReaderInv
  <2>2. toSim'[Len(toSim) + 1].of = t
    BY <1>4 DEF Posts
  <2>3. \A i \in Reads' : Waiting(toSim[i].of)' /\ Responses' = {} /\ queue' = <<>> /\ \A j \in Reads' : i = j
    BY <1>5, <1>12, <2>1, <2>2
  <2>4. \A u \in RtlThread : Done(u)' > 0 /\ run'.calls[u][Done(u)'].kind = "read" => got'[u].of = u /\ got'[u].value = WroteLast(u)'
    BY <1>2, <1>3, <1>5, <1>12, <2>1 DEF ReaderInv
  <2>5. DOMAIN queue' = {}
    BY <1>12, <2>1
  <2> QED
    BY <1>12, <2>1, <2>3, <2>4, <2>5 DEF ReaderInv
<1>14. PendingInv(g)'
  BY <1>4, <1>12 DEF PendingInv, Posts
<1>15. SocketsInv(g, q)'
  BY <1>4, <1>6, <1>8, <1>9, <1>10, <1>14 DEF SocketsInv, Posts
<1> QED
  BY <1>5, <1>6, <1>11, <1>13, <1>15 DEF RtlInv

(* A write or a reset command is sent.                                     *)
LEMMA OtherPosted ==
  ASSUME RtlInv, RtlTypes', NEW t \in RtlThread, Sends(t), Call(t).kind # "read",
         NEW h, NEW q, SocketsInv(h, q), NEW m \in RtlToSim, m.kind \notin {"read", "ramread"}, toSim' = Append(toSim, m),
         NEW H, H = Effect(m, h[Len(toSim)]).held, NEW C, C = Effect(m, h[Len(toSim)]).cell,
         OnlyAll => Steady(H),
         \A u \in RtlThread : OnlyAll /\ pc'[u] = "send" /\ Call(u)'.kind = "reset" => Underway(Call(u)'.assert, sent'[u], H[Call(u)'.tile]),
         C[t] = LastSent(t)', \A u \in RtlThread \ {t} : C[u] = h[Len(toSim)].cell[u]
  PROVE  RtlInv'
<1>2. RtlTypes /\ CallsInv /\ ReaderInv /\ CrossInv
  BY DEF RtlInv
<1>3. UNCHANGED <<run, up, got, fromSim, hostSide, simulator, missed>>
  BY DEF Sends
<1>4. PICK g : Posts(m, h, g)
  BY <1>2, <1>3, PostGrows DEF simulator
<1>5. /\ CallsInv' /\ ~Waiting(t) /\ ~Waiting(t)'
      /\ \A u \in RtlThread : Call(u)' = Call(u) /\ Done(u)' = Done(u) /\ WroteLast(u)' = WroteLast(u)
      /\ \A u \in RtlThread \ {t} : LastSent(u)' = LastSent(u) /\ (Waiting(u)' <=> Waiting(u))
  BY <1>2, SendCallers
<1>6. EarlyInv' /\ Passed(fromSim, q)' /\ (Calm' => Calm)
  BY SendFrame DEF SocketsInv
<1>7. SameReaders
  BY <1>5 DEF SameReaders
<1>8. ResetInv(g)'
  BY <1>3, <1>4, PostReset DEF SocketsInv
<1>9. CellInv(g)'
  <2>1. \A u \in RtlThread : C[u] = LastSent(u)'
    BY <1>5 DEF SocketsInv, CellInv
  <2> QED
    BY ONLY <1>4, <2>1, C = Effect(m, h[Len(toSim)]).cell, PostCell, Zenon
<1>10. MemoryOrder(g, q)'
  BY <1>3, <1>4, PostMemory DEF SocketsInv, hostSide, simulator
<1>11. CrossInv'
  BY <1>2, <1>3, CrossFrame DEF Sends
<1>12. ReaderInv'
  BY <1>2, <1>3, <1>4, <1>6, <1>7, PostReader DEF hostSide
<1>13. PendingInv(g)'
  <2>1. \A u \in RtlThread : Waiting(u) => C[u] = h[Len(toSim)].cell[u]
    BY <1>5
  <2> QED
    BY <1>2, <1>4, <1>6, <2>1, PostPending DEF SocketsInv
<1>14. SocketsInv(g, q)'
  BY <1>4, <1>6, <1>8, <1>9, <1>10, <1>13 DEF SocketsInv, Posts
<1> QED
  BY <1>5, <1>6, <1>11, <1>12, <1>14 DEF RtlInv

(* SendCommand, as long as there is a command to send.                     *)
LEMMA WritePosted ==
  ASSUME RtlInv, RtlTypes', NEW t \in RtlThread, Sends(t), Call(t).kind = "write", sent[t] = 0,
         toSim' = Append(toSim, [kind |-> "write", of |-> t, value |-> Call(t).value, words |-> Call(t).size \div 4])
  PROVE  RtlInv'
<1>1. PICK h, q : SocketsInv(h, q)
  BY DEF RtlInv
<1>2. RtlTypes /\ CallsInv
  BY DEF RtlInv
<1>3. PICK op \in RtlOp : op = Call(t)
  BY <1>2, CallIs DEF CallsInv, Sends
<1>4. PICK k \in Nat, v \in Nat : k = op.size \div 4 /\ v = op.value /\ (k # 0 <=> WholeWrite(op))
  <2>1. op.size \in Nat /\ op.value \in Nat /\ op.kind = "write"
    BY <1>3 DEF RtlOp
  <2>2. op.size \div 4 \in Nat /\ (op.size \div 4 # 0 <=> op.size >= 4)
    BY <2>1
  <2> QED
    BY <2>1, <2>2 DEF WholeWrite
<1>5. PICK m \in RtlToSim : m = [kind |-> "write", of |-> t, value |-> v, words |-> k]
  BY DEF RtlToSim
<1>6. toSim' = Append(toSim, m)
  BY <1>3, <1>4, <1>5
<1>7. Len(toSim) \in Nat /\ h[Len(toSim)].cell \in [RtlThread -> Nat]
  <2>1. Len(toSim) \in Nat
    BY <1>2 DEF RtlTypes
  <2>2. h[Len(toSim)] \in RtlDevice
    BY <1>1, <2>1 DEF SocketsInv, Course
  <2> QED
    BY <2>1, <2>2 DEF RtlDevice
<1>8. PICK H, C : H = Effect(m, h[Len(toSim)]).held /\ C = Effect(m, h[Len(toSim)]).cell
  OBVIOUS
<1>9. H = h[Len(toSim)].held /\ C = IF k # 0 THEN [h[Len(toSim)].cell EXCEPT ![t] = v] ELSE h[Len(toSim)].cell
  BY <1>5, <1>8 DEF Effect
<1>10. /\ LastSent(t)' = IF WholeWrite(Call(t)) THEN Call(t).value ELSE WroteLast(t)
       /\ LastSent(t) = WroteLast(t)
       /\ \A u \in RtlThread : Call(u)' = Call(u)
       /\ \A u \in RtlThread \ {t} : pc'[u] = pc[u] /\ sent'[u] = sent[u]
  BY <1>2, SendCallers
<1>11. C[t] = LastSent(t)' /\ \A u \in RtlThread \ {t} : C[u] = h[Len(toSim)].cell[u]
  <2>1. h[Len(toSim)].cell[t] = LastSent(t)
    BY <1>1 DEF SocketsInv, CellInv
  <2>2. C[t] = (IF k # 0 THEN v ELSE h[Len(toSim)].cell[t]) /\ \A u \in RtlThread \ {t} : C[u] = h[Len(toSim)].cell[u]
    BY <1>7, <1>9
  <2> QED
    BY <1>3, <1>4, <1>10, <2>1, <2>2
<1>12. OnlyAll => Steady(H)
  BY <1>1, <1>7, <1>9 DEF SocketsInv, ResetInv
<1>13. \A u \in RtlThread : OnlyAll /\ pc'[u] = "send" /\ Call(u)'.kind = "reset" => Underway(Call(u)'.assert, sent'[u], H[Call(u)'.tile])
  BY <1>1, <1>9, <1>10 DEF SocketsInv, ResetInv
<1>14. m.kind \notin {"read", "ramread"} /\ Call(t).kind # "read"
  BY <1>5
<1>15. H = Effect(m, h[Len(toSim)]).held /\ C = Effect(m, h[Len(toSim)]).cell
  BY <1>8
<1> QED
  BY ONLY RtlInv, RtlTypes', t \in RtlThread, Sends(t), m \in RtlToSim, <1>1, <1>6, <1>11, <1>12, <1>13, <1>14, <1>15, OtherPosted

LEMMA ResetPosted ==
  ASSUME RtlInv, RtlTypes', NEW t \in RtlThread, Sends(t), Call(t).kind = "reset", NEW w \in RtlWhat,
         toSim' = Append(toSim, [kind |-> IF Call(t).assert THEN "hold" ELSE "free", what |-> w, tile |-> Call(t).tile]),
         OnlyAll => sent[t] \in 0 .. 2 /\ w = Order(Call(t).assert, sent[t])
  PROVE  RtlInv'
<1>1. PICK h, q : SocketsInv(h, q)
  BY DEF RtlInv
<1>2. RtlTypes /\ CallsInv
  BY DEF RtlInv
<1>3. PICK op \in RtlOp : op = Call(t)
  BY <1>2, CallIs DEF CallsInv, Sends
<1>4. op.assert \in BOOLEAN /\ op.via = "device" /\ ~WholeWrite(op) /\ op.tile \in RtlTile
  BY <1>3 DEF RtlOp, WholeWrite
<1>5. PICK m \in RtlToSim : m = [kind |-> IF op.assert THEN "hold" ELSE "free", what |-> w, tile |-> op.tile]
  <2>1. PICK k \in {"hold", "free"} : k = IF op.assert THEN "hold" ELSE "free"
    BY <1>4
  <2>2. [kind |-> k, what |-> w, tile |-> op.tile] \in RtlToSim
    BY <1>4 DEF RtlToSim
  <2> QED
    BY <2>1, <2>2
<1>6. toSim' = Append(toSim, m)
  BY <1>3, <1>5
<1>7. Len(toSim) \in Nat
  BY <1>2 DEF RtlTypes
<1>8. PICK H, C : H = Effect(m, h[Len(toSim)]).held /\ C = Effect(m, h[Len(toSim)]).cell
  OBVIOUS
<1>9. PICK G : G = h[Len(toSim)].held
  OBVIOUS
<1>10. C = h[Len(toSim)].cell /\ H = (IF op.assert THEN Holding(G, w, op.tile) ELSE Freeing(G, w, op.tile))
  <2>1. m.what = w /\ m.tile = op.tile /\ (op.assert => m.kind = "hold") /\ (~op.assert => m.kind = "free")
    BY <1>5
  <2>2. C = h[Len(toSim)].cell
    BY <1>4, <1>8, <2>1 DEF Effect
  <2>3. H = (IF m.kind = "hold" THEN Holding(G, m.what, m.tile) ELSE IF m.kind = "free" THEN Freeing(G, m.what, m.tile) ELSE G)
    BY <1>8, <1>9 DEF Effect
  <2> QED
    BY <1>4, <2>1, <2>2, <2>3
<1>11. /\ LastSent(t)' = WroteLast(t) /\ LastSent(t) = WroteLast(t) /\ sent[t] \in Nat /\ sent'[t] = sent[t] + 1
       /\ \A u \in RtlThread : Call(u)' = Call(u)
       /\ \A u \in RtlThread \ {t} : pc'[u] = pc[u] /\ sent'[u] = sent[u]
  BY <1>2, <1>3, <1>4, SendCallers
<1>12. C[t] = LastSent(t)' /\ \A u \in RtlThread \ {t} : C[u] = h[Len(toSim)].cell[u]
  BY <1>1, <1>10, <1>11 DEF SocketsInv, CellInv
<1>13. ASSUME OnlyAll PROVE Steady(H) /\ Underway(op.assert, sent'[t], H[op.tile])
  <2>1. Steady(G) /\ Underway(op.assert, sent[t], G[op.tile])
    BY <1>1, <1>3, <1>7, <1>9, <1>13 DEF SocketsInv, ResetInv, Sends
  <2>2. PICK n \in 0 .. 2, b \in BOOLEAN, c \in RtlTile : n = sent[t] /\ b = op.assert /\ c = op.tile
    BY <1>4, <1>13
  <2>3. w = Order(b, n) /\ Steady(G) /\ Underway(b, n, G[c]) /\ H = (IF b THEN Holding(G, w, c) ELSE Freeing(G, w, c))
    BY <1>3, <1>10, <1>13, <2>1, <2>2
  <2>4. "uncore" \notin Dms /\ "tensix" \notin Dms /\ "dms" \notin Dms
    BY <1>2, RtlFacts DEF RtlTypes
  <2>5. G \in RtlHeld
    <3>1. h[Len(toSim)] \in RtlDevice
      BY <1>1, <1>7 DEF SocketsInv, Course
    <3> QED
      BY <1>9, <3>1 DEF RtlDevice
  <2>6. b => \A k \in RtlTile \ {c} : ~Lone(k)
    <3> SUFFICES ASSUME b, NEW k \in RtlTile, k # c PROVE ~Lone(k)
      OBVIOUS
    <3>1. PICK i \in DOMAIN run.calls[t] : run.calls[t][i] = op
      BY <1>2, <1>3, CallIs DEF CallsInv, Sends
    <3>2. op.kind = "reset" /\ op.assert /\ op.tile # k
      BY <1>3, <2>2
    <3> QED
      BY <3>1, <3>2 DEF Lone
  <2>7. Steady(H) /\ Underway(b, n + 1, H[c])
    BY ONLY n \in 0 .. 2, b \in BOOLEAN, c \in RtlTile, <2>3, <2>4, <2>5, <2>6, ResetProgress
  <2> QED
    BY <1>11, <2>2, <2>7
<1>14. ASSUME NEW u \in RtlThread, OnlyAll, pc'[u] = "send", Call(u)'.kind = "reset"
       PROVE  Underway(Call(u)'.assert, sent'[u], H[Call(u)'.tile])
  <2>1. CASE u = t
    BY <1>3, <1>11, <1>13, <1>14, <2>1
  <2>2. CASE u # t
    <3>1. pc[u] = "send" /\ pc[t] = "send" /\ Call(u).kind = "reset"
      BY <1>11, <1>14, <2>2 DEF Sends
    <3>2. Call(u) \in RtlOp
      BY <1>2, <3>1, CallIs DEF CallsInv
    <3>3. Call(u).via = "device"
      BY <3>1, <3>2 DEF RtlOp
    <3> QED
      BY <1>2, <1>3, <1>4, <2>2, <3>1, <3>3, OneAtATime
  <2> QED
    BY <2>1, <2>2
<1>15. m.kind \notin {"read", "ramread"} /\ Call(t).kind # "read"
  BY <1>5
<1>16. H = Effect(m, h[Len(toSim)]).held /\ C = Effect(m, h[Len(toSim)]).cell
  BY <1>8
<1>17. OnlyAll => Steady(H)
  BY <1>13
<1>18. \A u \in RtlThread : OnlyAll /\ pc'[u] = "send" /\ Call(u)'.kind = "reset" => Underway(Call(u)'.assert, sent'[u], H[Call(u)'.tile])
  BY <1>14
<1> QED
  BY ONLY RtlInv, RtlTypes', t \in RtlThread, Sends(t), m \in RtlToSim, <1>1, <1>6, <1>12, <1>15, <1>16, <1>17, <1>18, OtherPosted

(* A data movement core that is not selected.                              *)
LEMMA SkipKeeps ==
  ASSUME RtlInv, RtlTypes', NEW t \in RtlThread, Sends(t), Call(t).kind = "reset", ~OnlyAll, toSim' = toSim
  PROVE  RtlInv'
<1>1. PICK h, q : SocketsInv(h, q)
  BY DEF RtlInv
<1>2. RtlTypes /\ CallsInv /\ ReaderInv /\ CrossInv
  BY DEF RtlInv
<1>3. UNCHANGED <<run, up, got, fromSim, hostSide, simulator, missed>>
  BY DEF Sends
<1>4. CallsInv' /\ SameCallers
  <2>1. ~WholeWrite(Call(t))
    BY DEF WholeWrite
  <2>2. /\ CallsInv' /\ ~Waiting(t) /\ ~Waiting(t)' /\ LastSent(t)' = WroteLast(t) /\ LastSent(t) = WroteLast(t)
        /\ \A u \in RtlThread : Call(u)' = Call(u) /\ Done(u)' = Done(u) /\ WroteLast(u)' = WroteLast(u)
        /\ \A u \in RtlThread \ {t} : LastSent(u)' = LastSent(u) /\ (Waiting(u)' <=> Waiting(u))
    BY <1>2, <2>1, SendCallers
  <2> QED
    BY <2>2 DEF SameCallers
<1>5. EarlyInv' /\ Passed(fromSim, q)' /\ (Calm' => Calm)
  BY <1>1, SendFrame DEF SocketsInv
<1>6. ReaderInv'
  BY <1>2, <1>3, <1>4, <1>5, ReaderFrame DEF hostSide
<1>7. ResetInv(h)'
  BY <1>3, RtlConstant DEF ResetInv
<1>8. CellInv(h)' /\ PendingInv(h)'
  BY <1>1, <1>4, <1>5, CellFrame, PendingFrame DEF SocketsInv, SameCallers
<1>9. MemoryOrder(h, q)'
  BY <1>1, <1>3, MemoryFrame DEF SocketsInv, hostSide, simulator
<1>10. CrossInv'
  BY <1>2, <1>3, CrossFrame DEF Sends
<1>11. Course(toSim, [held |-> held, cell |-> cell, count |-> Len(answered)], h)'
  BY <1>1, <1>3 DEF SocketsInv, Course, Effect, simulator
<1>12. SocketsInv(h, q)'
  BY <1>5, <1>7, <1>8, <1>9, <1>11 DEF SocketsInv
<1> QED
  BY <1>4, <1>5, <1>6, <1>10, <1>12 DEF RtlInv

LEMMA PostKeeps ==
  ASSUME RtlInv, RtlTypes', NEW t \in RtlThread, SendCommand(t), sent[t] < Len(Commands(t))
  PROVE  RtlInv'
<1>1. PICK p : p = Posted(t, Commands(t)[sent[t] + 1])
  OBVIOUS
<1>2. RtlTypes /\ CallsInv /\ pc[t] = "send"
  BY DEF RtlInv, SendCommand
<1>3. Sends(t) /\ toSim' = p
  BY <1>1, <1>2, SendIs DEF Sends
<1>4. NextIs(t, p)
  BY ONLY <1>1, <1>2, t \in RtlThread, sent[t] < Len(Commands(t)), NextCommand
<1>5. CASE Call(t).kind = "read" /\ sent[t] = 0 /\ p = Append(toSim, [kind |-> "read", of |-> t])
  <2>1. PICK m \in RtlToSim : m = [kind |-> "read", of |-> t]
    BY DEF RtlToSim
  <2> QED
    BY <1>3, <1>5, <2>1, ReadPosted
<1>6. CASE /\ Call(t).kind = "write" /\ sent[t] = 0
           /\ p = Append(toSim, [kind |-> "write", of |-> t, value |-> Call(t).value, words |-> Call(t).size \div 4])
  BY <1>3, <1>6, WritePosted
<1>7. CASE Call(t).kind = "reset" /\ ~OnlyAll /\ p = toSim
  BY <1>3, <1>7, SkipKeeps
<1>8. ASSUME NEW w \in RtlWhat, Call(t).kind = "reset",
             p = Append(toSim, [kind |-> IF Call(t).assert THEN "hold" ELSE "free", what |-> w, tile |-> Call(t).tile]),
             OnlyAll => sent[t] \in 0 .. 2 /\ w = Order(Call(t).assert, sent[t])
      PROVE  RtlInv'
  BY <1>3, <1>8, ResetPosted
<1> QED
  BY <1>4, <1>5, <1>6, <1>7, <1>8 DEF NextIs

(* The end of a call.                                                      *)
LEMMA AllSent ==
  ASSUME RtlTypes, CallsInv, NEW t \in RtlThread, pc[t] = "send", sent[t] >= Len(Commands(t))
  PROVE  Call(t).kind # "read" /\ (Call(t).kind = "write" => sent[t] >= 1)
<1>1. CASE Call(t).kind = "read"
  <2>1. Len(Commands(t)) = 1 /\ sent[t] = 0
    BY <1>1 DEF Commands, CallsInv
  <2> QED
    BY <2>1
<1>2. CASE Call(t).kind = "write"
  <2>1. Len(Commands(t)) = 1
    BY <1>2 DEF Commands
  <2> QED
    BY <1>2, <2>1
<1> QED
  BY <1>1, <1>2

LEMMA MemoryHost ==
  ASSUME NEW h, NEW q, MemoryOrder(h, q), run' = run, toSim' = toSim, fromSim' = fromSim, notes' = notes, sysmem' = sysmem,
         answered' = answered, ramReply' = ramReply, handler' = handler,
         run.callbacks => \A i \in DOMAIN queue' : queue'[i].writes <= sysmem,
         run.callbacks => \A t \in RtlThread : got'[t].writes <= sysmem
  PROVE  MemoryOrder(h, q)'
<1>1. Made' = Made
  BY DEF Made
<1> QED
  BY <1>1, RtlConstant DEF MemoryOrder

(* What a call's end leaves alone.                                         *)
LEMMA EndFrame ==
  ASSUME RtlInv, NEW t \in RtlThread, pc[t] # "idle", EndCall(t), LastSent(t)' = LastSent(t),
         UNCHANGED <<run, up, sent, toSim, fromSim, running, simulator, crossed>>,
         NEW h, NEW q, SocketsInv(h, q)
  PROVE  /\ CallsInv' /\ EarlyInv' /\ CrossInv' /\ ResetInv(h)' /\ CellInv(h)' /\ PendingInv(h)'
         /\ Course(toSim, [held |-> held, cell |-> cell, count |-> Len(answered)], h)' /\ Passed(fromSim, q)'
<1>1. RtlTypes /\ CallsInv /\ CrossInv
  BY DEF RtlInv
<1>2. /\ CallsInv' /\ pc'[t] = "idle"
      /\ \A u \in RtlThread \ {t} : pc'[u] = pc[u] /\ Call(u)' = Call(u) /\ LastSent(u)' = LastSent(u)
  BY <1>1, EndCallers
<1>3. EarlyInv'
  <2>1. up \notin Early /\ (up = "ready" => running)
    BY DEF RtlInv, EarlyInv, Early
  <2> QED
    BY <2>1, NotEarly
<1>4. CrossInv' /\ (Calm' => Calm)
  BY <1>1, CrossFrame DEF Calm
<1>5. ResetInv(h)'
  BY <1>2, ResetFrame DEF SocketsInv
<1>6. CellInv(h)' /\ PendingInv(h)'
  BY <1>2, <1>4, CellFrame, PendingFrame DEF SocketsInv
<1>7. Course(toSim, [held |-> held, cell |-> cell, count |-> Len(answered)], h)' /\ Passed(fromSim, q)'
  BY DEF SocketsInv, Course, Effect, Passed, simulator
<1> QED
  BY <1>2, <1>3, <1>4, <1>5, <1>6, <1>7

LEMMA SendEndKeeps ==
  ASSUME RtlInv, RtlTypes', NEW t \in RtlThread, SendCommand(t), ~(sent[t] < Len(Commands(t)))
  PROVE  RtlInv'
<1>1. PICK h, q : SocketsInv(h, q)
  BY DEF RtlInv
<1>2. RtlTypes /\ CallsInv /\ ReaderInv
  BY DEF RtlInv
<1>3. /\ pc[t] = "send" /\ sent[t] >= Len(Commands(t)) /\ EndCall(t) /\ UNCHANGED <<toSim, sent, crossed>>
      /\ UNCHANGED <<run, up, got, fromSim, hostSide, simulator, missed>>
  BY DEF SendCommand
<1>4. Call(t).kind # "read" /\ (Call(t).kind = "write" => sent[t] >= 1)
  BY <1>2, <1>3, AllSent
<1>5. /\ ~Waiting(t)' /\ Done(t) \in Nat /\ Done(t)' = Done(t) + 1
      /\ WroteLast(t)' = IF WholeWrite(Call(t)) THEN Call(t).value ELSE WroteLast(t)
      /\ LastSent(t)' = WroteLast(t)'
      /\ \A u \in RtlThread \ {t} : /\ Done(u)' = Done(u) /\ WroteLast(u)' = WroteLast(u)
                                    /\ LastSent(u)' = LastSent(u) /\ (Waiting(u)' <=> Waiting(u))
  BY <1>2, <1>3, EndCallers
<1>6. LastSent(t)' = LastSent(t)
  BY <1>3, <1>4, <1>5 DEF LastSent, WholeWrite
<1>7. /\ CallsInv' /\ EarlyInv' /\ CrossInv' /\ ResetInv(h)' /\ CellInv(h)' /\ PendingInv(h)'
      /\ Course(toSim, [held |-> held, cell |-> cell, count |-> Len(answered)], h)' /\ Passed(fromSim, q)'
  BY <1>1, <1>3, <1>6, EndFrame DEF hostSide
<1>8. MemoryOrder(h, q)'
  BY <1>1, <1>3, MemoryFrame DEF SocketsInv, hostSide, simulator
<1>9. ReaderInv'
  <2>1. SUFFICES ASSUME Calm' PROVE ReaderInv'
    BY DEF ReaderInv
  <2>2. Calm /\ Reads' = Reads /\ Responses' = Responses /\ queue' = queue /\ toSim' = toSim /\ fromSim' = fromSim /\ run' = run /\ got' = got
    BY <1>3, <2>1 DEF Calm, Reads, Responses, hostSide
  <2>3. \A u \in RtlThread : LastSent(u)' = LastSent(u) /\ (Waiting(u)' <=> Waiting(u))
    <3>1. ~Waiting(t)
      BY <1>3 DEF Waiting
    <3> QED
      BY <1>5, <1>6, <3>1
  <2>4. \A u, v \in RtlThread : Waiting(u)' /\ Waiting(v)' => u = v
    BY <1>2, <2>2, <2>3 DEF ReaderInv
  <2>5. \A i \in Reads : Waiting(toSim[i].of)' /\ Responses = {} /\ queue = <<>> /\ \A j \in Reads : i = j
    BY <1>2, <2>2, <2>3, ReadersAre DEF ReaderInv
  <2>6. \A i \in Responses :
         /\ Waiting(fromSim[i].data.of)' /\ fromSim[i].data.value = LastSent(fromSim[i].data.of)'
         /\ queue = <<>> /\ \A j \in Responses : i = j
    BY <1>2, <2>2, <2>3, ReadersAre DEF ReaderInv
  <2>7. \A i \in DOMAIN queue : i = 1 /\ Waiting(queue[i].of)' /\ queue[i].value = LastSent(queue[i].of)'
    BY <1>2, <2>2, <2>3, ReadersAre DEF ReaderInv
  <2>8. ASSUME NEW u \in RtlThread, Done(u)' > 0, run.calls[u][Done(u)'].kind = "read"
        PROVE  got[u].of = u /\ got[u].value = WroteLast(u)'
    <3>1. u # t
      <4>1. Call(t) = run.calls[t][Done(t) + 1]
        BY <1>2, <1>3, CallIs DEF CallsInv
      <4> QED
        BY <1>4, <1>5, <2>8, <4>1
    <3> QED
      BY <1>2, <1>5, <2>2, <2>8, <3>1 DEF ReaderInv
  <2> QED
    BY <2>2, <2>4, <2>5, <2>6, <2>7, <2>8 DEF ReaderInv
<1>10. SocketsInv(h, q)'
  BY <1>7, <1>8 DEF SocketsInv
<1> QED
  BY <1>7, <1>9, <1>10 DEF RtlInv

(* A reader gets a reply, or the handler has stopped.                      *)
LEMMA ReadEndKeeps ==
  ASSUME RtlInv, RtlTypes', NEW t \in RtlThread, TestQueue(t), EndCall(t)
  PROVE  RtlInv'
<1>1. PICK h, q : SocketsInv(h, q)
  BY DEF RtlInv
<1>2. RtlTypes /\ CallsInv /\ ReaderInv
  BY DEF RtlInv
<1>3. /\ pc[t] = "test"
      /\ UNCHANGED <<run, up, sent, toSim, fromSim, running, handler, ramReply, sysmem, simulator, histories>>
  BY DEF TestQueue
<1>4. Waiting(t) /\ Call(t).kind = "read" /\ ~WholeWrite(Call(t))
  BY <1>2, <1>3 DEF Waiting, CallsInv, WholeWrite
<1>5. /\ ~Waiting(t)' /\ Done(t) \in Nat /\ Done(t)' = Done(t) + 1
      /\ WroteLast(t)' = WroteLast(t) /\ LastSent(t)' = WroteLast(t)
      /\ \A u \in RtlThread \ {t} : /\ Done(u)' = Done(u) /\ WroteLast(u)' = WroteLast(u)
                                    /\ LastSent(u)' = LastSent(u) /\ (Waiting(u)' <=> Waiting(u))
  BY <1>2, <1>3, <1>4, EndCallers
<1>6. LastSent(t)' = LastSent(t) /\ LastSent(t) = WroteLast(t)
  BY <1>3, <1>5 DEF LastSent
<1>7. /\ CallsInv' /\ EarlyInv' /\ CrossInv' /\ ResetInv(h)' /\ CellInv(h)' /\ PendingInv(h)'
      /\ Course(toSim, [held |-> held, cell |-> cell, count |-> Len(answered)], h)' /\ Passed(fromSim, q)'
  BY <1>1, <1>3, <1>6, EndFrame DEF histories
<1>8. ReaderInv' /\ MemoryOrder(h, q)'
  <2>1. CASE queue = <<>>
    <3>1. queue' = queue /\ got' = got
      BY <2>1 DEF TestQueue
    <3>2. ReaderInv'
      <4>1. SUFFICES ASSUME Calm' PROVE FALSE
        BY DEF ReaderInv
      <4>2. up = "ready" /\ running
        BY <1>3, <4>1 DEF Calm, RtlInv, EarlyInv
      <4>3. pc' = [pc EXCEPT ![t] = "tested"]
        BY <2>1, <4>2 DEF TestQueue
      <4> QED
        BY <1>2, <4>3 DEF EndCall, RtlTypes
    <3> QED
      BY <1>1, <1>3, <3>1, <3>2, MemoryFrame DEF SocketsInv, simulator
  <2>2. CASE queue # <<>>
    <3>1. PICK d \in RtlDatum : d = Head(queue) /\ d = queue[1] /\ 1 \in DOMAIN queue /\ Len(queue) \in Nat /\ Len(queue) >= 1
      <4>1. queue \in Seq(RtlDatum)
        BY <1>2 DEF RtlTypes
      <4> QED
        BY <2>2, <4>1, TailIs
    <3>2. queue' = Tail(queue) /\ got' = [got EXCEPT ![t] = d]
      BY <2>2, <3>1 DEF TestQueue
    <3>3. got'[t] = d /\ \A u \in RtlThread \ {t} : got'[u] = got[u]
      BY <1>2, <3>2 DEF RtlTypes
    <3>4. DOMAIN queue' = 1 .. (Len(queue) - 1) /\ \A i \in DOMAIN queue' : queue'[i] = queue[i + 1] /\ i + 1 \in DOMAIN queue
      <4>1. queue \in Seq(RtlDatum) /\ DOMAIN queue = 1 .. Len(queue)
        BY <1>2 DEF RtlTypes
      <4> QED
        BY <2>2, <3>1, <3>2, <4>1, TailIs
    <3>5. MemoryOrder(h, q)'
      <4>1. run.callbacks => \A i \in DOMAIN queue' : queue'[i].writes <= sysmem
        BY <1>1, <3>4 DEF SocketsInv, MemoryOrder
      <4>2. run.callbacks => \A u \in RtlThread : got'[u].writes <= sysmem
        BY <1>1, <3>1, <3>3 DEF SocketsInv, MemoryOrder
      <4> QED
        BY <1>1, <1>3, <4>1, <4>2, MemoryHost DEF SocketsInv, simulator
    <3>6. ReaderInv'
      <4>1. SUFFICES ASSUME Calm' PROVE ReaderInv'
        BY DEF ReaderInv
      <4>2. Calm
        BY <1>3, <4>1 DEF Calm, histories
      <4>3. d.of = t /\ d.value = LastSent(t)
        <5>1. d.of \in RtlThread /\ Waiting(d.of) /\ d.value = LastSent(d.of)
          BY <1>2, <3>1, <4>2 DEF ReaderInv, RtlDatum
        <5> QED
          BY <1>2, <1>4, <4>2, <5>1 DEF ReaderInv
      <4>4. Reads = {} /\ Responses = {}
        BY <1>2, <2>2, <4>2 DEF ReaderInv
      <4>5. DOMAIN queue' = {}
        <5>1. \A i \in DOMAIN queue : i = 1
          BY <1>2, <4>2 DEF ReaderInv
        <5> QED
          BY <3>1, <3>4, <5>1
      <4>6. Reads' = {} /\ Responses' = {}
        BY <1>3, <4>4 DEF Reads, Responses
      <4>7. \A u \in RtlThread : ~Waiting(u)'
        BY <1>2, <1>4, <1>5, <4>2 DEF ReaderInv
      <4>8. \A u \in RtlThread : Done(u)' > 0 /\ run.calls[u][Done(u)'].kind = "read" => got'[u].of = u /\ got'[u].value = WroteLast(u)'
        <5> TAKE u \in RtlThread
        <5>1. CASE u = t
          BY <1>5, <1>6, <3>3, <4>3, <5>1
        <5>2. CASE u # t
          BY <1>2, <1>5, <3>3, <4>2, <5>2 DEF ReaderInv
        <5> QED
          BY <5>1, <5>2
      <4> QED
        BY <1>3, <4>5, <4>6, <4>7, <4>8 DEF ReaderInv
    <3> QED
      BY <3>5, <3>6
  <2> QED
    BY <2>1, <2>2
<1>9. SocketsInv(h, q)'
  BY <1>7, <1>8 DEF SocketsInv
<1> QED
  BY <1>7, <1>8, <1>9 DEF RtlInv

(* The handler takes a message from the other socket.                      *)
Takes(q, r) ==
  /\ Len(fromSim) \in Nat /\ Len(fromSim) >= 1 /\ Len(fromSim') = Len(fromSim) - 1
  /\ DOMAIN fromSim = 1 .. Len(fromSim) /\ DOMAIN fromSim' = 1 .. (Len(fromSim) - 1)
  /\ \A i \in 1 .. (Len(fromSim) - 1) : fromSim'[i] = fromSim[i + 1]
  /\ Passed(fromSim, r)'
  /\ \A i \in 0 .. (Len(fromSim) - 1) : r[i] = q[i + 1]
  /\ q[0] \in 0 .. Len(run.notes) /\ q[1] \in 0 .. Len(run.notes) /\ q[1] = Onward(fromSim[1], q[0])

LEMMA TakeShrinks ==
  ASSUME RtlTypes, run' = run, NEW q, Passed(fromSim, q), fromSim # <<>>, fromSim' = Tail(fromSim)
  PROVE  \E r : Takes(q, r)
<1>1. PICK s : s = fromSim /\ s \in Seq(RtlFromSim) /\ s # <<>>
  BY DEF RtlTypes
<1>2. /\ Len(s) \in Nat /\ Len(s) >= 1 /\ Len(Tail(s)) = Len(s) - 1 /\ DOMAIN Tail(s) = 1 .. (Len(s) - 1)
      /\ \A i \in 1 .. (Len(s) - 1) : Tail(s)[i] = s[i + 1]
  BY ONLY <1>1, TailIs
<1>3. DOMAIN s = 1 .. Len(s)
  BY <1>1
<1>4. run \in RtlScenarios /\ s \in Seq(RtlFromSim) /\ s # <<>> /\ Passed(s, q)
  BY <1>1 DEF RtlTypes
<1>5. PICK r : Passed(Tail(s), r) /\ \A i \in 0 .. Len(Tail(s)) : r[i] = q[i + 1]
  BY ONLY <1>4, PassedShrinks
<1>6. Passed(fromSim, r)'
  BY <1>1, <1>5 DEF Passed
<1>7. q[0] \in 0 .. Len(run.notes) /\ q[1] \in 0 .. Len(run.notes) /\ q[1] = Onward(s[1], q[0])
  <2>1. 0 \in 0 .. Len(s) /\ 1 \in 0 .. Len(s) /\ 1 \in 1 .. Len(s) /\ 1 - 1 = 0
    BY <1>2
  <2>2. q \in [0 .. Len(s) -> 0 .. Len(run.notes)]
    BY <1>4 DEF Passed
  <2>3. q[1] = IF s[1].kind \in {"ramread", "ramwrite"} THEN q[1 - 1] + 1 ELSE q[1 - 1]
    BY <1>4, <2>1 DEF Passed
  <2> QED
    BY <2>1, <2>2, <2>3 DEF Onward
<1>8. Takes(q, r)
  BY <1>1, <1>2, <1>3, <1>5, <1>6, <1>7 DEF Takes
<1> QED
  BY <1>8

LEMMA TakeResponses ==
  ASSUME NEW q, NEW r, Takes(q, r)
  PROVE  /\ \A i \in Responses' : i + 1 \in Responses /\ fromSim'[i] = fromSim[i + 1] /\ i + 1 # 1
         /\ fromSim[1].kind = "response" => 1 \in Responses
<1>1. ASSUME NEW i \in Responses' PROVE i + 1 \in Responses /\ fromSim'[i] = fromSim[i + 1] /\ i + 1 # 1
  <2>1. i \in 1 .. (Len(fromSim) - 1) /\ fromSim'[i].kind = "response"
    BY <1>1 DEF Takes, Responses
  <2>2. i + 1 \in 1 .. Len(fromSim) /\ i + 1 # 1
    BY <2>1 DEF Takes
  <2> QED
    BY <2>1, <2>2 DEF Takes, Responses
<1>2. 1 \in DOMAIN fromSim
  BY DEF Takes
<1> QED
  BY <1>1, <1>2 DEF Responses

LEMMA MemoryReceived ==
  ASSUME RtlTypes, NEW h, NEW q, NEW r, MemoryOrder(h, q), Takes(q, r), UNCHANGED <<run, toSim, notes, answered, got>>,
         sysmem' = IF run.callbacks THEN WritesTo(q[1]) ELSE 0, sysmem' \in Nat, run.callbacks => sysmem <= sysmem',
         h[Len(toSim)].count + (IF handler' = "reply" THEN 1 ELSE 0) = ReadsTo(q[1]),
         handler' = "reply" => Right(ReadsTo(q[1]), ramReply'),
         run.callbacks => \A i \in DOMAIN queue' : queue'[i].writes <= sysmem'
  PROVE  MemoryOrder(h, r)'
<1>1. Made' = Made
  BY DEF Made
<1>2. PICK n \in Nat : Len(fromSim) = n + 1 /\ Len(fromSim') = n
  BY DEF Takes
<1>3. \A i \in 0 .. n : r[i] = q[i + 1]
  BY <1>2 DEF Takes
<1>4. r[0] = q[1] /\ r[n] = Made
  <2>1. r[0] = q[0 + 1] /\ r[n] = q[n + 1] /\ 0 + 1 = 1
    BY <1>3
  <2>2. q[n + 1] = Made
    BY <1>2 DEF MemoryOrder
  <2> QED
    BY <2>1, <2>2
<1>5. \A i \in 1 .. n :
        /\ fromSim'[i].kind \in {"ramread", "ramwrite"} => r[i] >= 1 /\ fromSim'[i] = run.notes[r[i]]
        /\ fromSim'[i].kind = "response" => fromSim'[i].data.writes = WritesTo(r[i])
  <2> TAKE i \in 1 .. n
  <2>1. i + 1 \in 1 .. (n + 1) /\ i \in 0 .. n /\ i \in 1 .. (Len(fromSim) - 1)
    BY <1>2
  <2>2. fromSim'[i] = fromSim[i + 1] /\ r[i] = q[i + 1]
    BY <1>3, <2>1 DEF Takes
  <2> QED
    BY <1>2, <2>1, <2>2 DEF MemoryOrder
<1>6. run.callbacks => \A t \in RtlThread : got[t].writes <= sysmem'
  <2> SUFFICES ASSUME run.callbacks, NEW t \in RtlThread PROVE got[t].writes <= sysmem'
    OBVIOUS
  <2>1. got[t].writes <= sysmem /\ sysmem <= sysmem' /\ sysmem \in Nat /\ sysmem' \in Nat
    BY DEF MemoryOrder, RtlTypes
  <2>2. got[t].writes \in Nat
    BY DEF RtlTypes, RtlDatum, Nothing
  <2> QED
    BY <2>1, <2>2
<1> QED
  BY <1>1, <1>2, <1>4, <1>5, <1>6, RtlConstant DEF MemoryOrder

LEMMA ReceiveKeeps ==
  ASSUME RtlInv, RtlTypes', HandlerReceive
  PROVE  RtlInv'
<1>1. PICK h, q : SocketsInv(h, q)
  BY DEF RtlInv
<1>2. RtlTypes /\ CallsInv /\ ReaderInv /\ CrossInv /\ MemoryOrder(h, q)
  BY <1>1 DEF RtlInv, SocketsInv
<1>3. /\ handler = "recv" /\ fromSim # <<>> /\ fromSim' = Tail(fromSim)
      /\ UNCHANGED <<run, up, callers, toSim, running, simulator, histories>>
  BY DEF HandlerReceive
<1>4. PICK r : Takes(q, r)
  BY <1>1, <1>2, <1>3, TakeShrinks DEF SocketsInv
<1>5. PICK m \in RtlFromSim : m = fromSim[1] /\ m = Head(fromSim)
  <2>1. fromSim \in Seq(RtlFromSim)
    BY <1>2 DEF RtlTypes
  <2> QED
    BY <1>3, <2>1, TailIs
<1>6. Still /\ (Calm' => Calm)
  BY <1>3 DEF Still, callers, Calm, histories
<1>7. CallsInv' /\ SameCallers /\ \A t \in RtlThread : Call(t)' = Call(t)
  BY <1>2, <1>6, StillCallers DEF SameCallers
<1>8. EarlyInv' /\ CrossInv'
  <2>1. up \notin Early /\ (up = "ready" => running)
    BY <1>3 DEF RtlInv, EarlyInv, Early
  <2> QED
    BY <1>2, <1>3, <2>1, NotEarly, CrossFrame DEF histories
<1>9. ResetInv(h)' /\ CellInv(h)' /\ PendingInv(h)'
  <2>1. ResetInv(h)'
    BY <1>1, <1>3, <1>7, ResetFrame DEF SocketsInv, callers
  <2> QED
    BY <1>1, <1>3, <1>6, <1>7, <2>1, CellFrame, PendingFrame DEF SocketsInv, SameCallers
<1>10. Course(toSim, [held |-> held, cell |-> cell, count |-> Len(answered)], h)'
  BY <1>1, <1>3 DEF SocketsInv, Course, Effect, simulator
<1>11. PICK a \in Nat, b \in Nat : a = q[0] /\ b = q[1] /\ b = Onward(m, a) /\ b \in DOMAIN run.notes \cup {0}
  <2>1. Len(run.notes) \in Nat /\ DOMAIN run.notes = 1 .. Len(run.notes)
    BY <1>2, RtlFacts DEF RtlTypes
  <2>2. q[0] \in 0 .. Len(run.notes) /\ q[1] \in 0 .. Len(run.notes) /\ q[1] = Onward(m, q[0])
    BY <1>4, <1>5 DEF Takes
  <2> QED
    BY <2>1, <2>2
<1>12. /\ WritesTo(a) \in Nat /\ WritesTo(a + 1) = WritesTo(a) + IF Stores(run.notes[a + 1]) THEN 1 ELSE 0
       /\ ReadsTo(a) \in Nat /\ ReadsTo(a + 1) = ReadsTo(a) + IF Answers(run.notes[a + 1]) THEN 1 ELSE 0
  BY WritesCounted, ReadsCounted
<1>13. PICK c : c = h[Len(toSim)].count /\ c = ReadsTo(a)
  <2>1. h[Len(toSim)].count + (IF handler = "reply" THEN 1 ELSE 0) = ReadsTo(a)
    BY <1>2, <1>11 DEF MemoryOrder
  <2>2. h[Len(toSim)].count \in Nat
    <3>1. Len(toSim) \in Nat
      BY <1>2 DEF RtlTypes
    <3>2. h[Len(toSim)] \in RtlDevice
      BY <1>1, <3>1 DEF SocketsInv, Course
    <3> QED
      BY <3>2 DEF RtlDevice
  <2> QED
    BY <1>3, <2>1, <2>2
<1>14. sysmem = (IF run.callbacks THEN WritesTo(a) ELSE 0) /\ sysmem \in Nat /\ run.callbacks \in BOOLEAN
  BY <1>2, <1>11, RtlFacts DEF MemoryOrder, RtlTypes
<1>15. m.kind \in {"ramread", "ramwrite"} => b = a + 1 /\ m = run.notes[b] /\ b \in DOMAIN run.notes /\ m.inside \in BOOLEAN
  <2>1. 1 \in 1 .. Len(fromSim)
    BY <1>4 DEF Takes
  <2>2. m.kind \in {"ramread", "ramwrite"} => q[1] >= 1 /\ m = run.notes[q[1]]
    BY <1>2, <1>5, <2>1 DEF MemoryOrder
  <2>3. m.kind \in {"ramread", "ramwrite"} => m.inside \in BOOLEAN
    BY DEF RtlFromSim, RtlNote, Hello
  <2> QED
    BY <1>11, <2>2, <2>3 DEF Onward
<1>16. run.callbacks => \A i \in DOMAIN queue : queue[i].writes <= sysmem
  BY <1>2 DEF MemoryOrder
<1>17. ASSUME m.kind # "response", queue' = queue
       PROVE  ReaderInv'
  <2>1. SUFFICES ASSUME Calm' PROVE ReaderInv'
    BY DEF ReaderInv
  <2>2. Calm /\ Reads' = Reads /\ toSim' = toSim /\ queue' = queue /\ got' = got /\ run' = run
    BY <1>3, <1>6, <1>17, <2>1 DEF Reads, callers
  <2>3. \A i \in Responses' : i + 1 \in Responses /\ fromSim'[i] = fromSim[i + 1]
    BY <1>4, TakeResponses
  <2>4. \A t, u \in RtlThread : Waiting(t)' /\ Waiting(u)' => t = u
    BY <1>2, <1>7, <2>2 DEF ReaderInv, SameCallers
  <2>5. \A i \in Reads : Waiting(toSim[i].of)' /\ Responses' = {} /\ queue = <<>> /\ \A j \in Reads : i = j
    BY <1>2, <1>7, <2>2, <2>3, ReadersAre DEF ReaderInv, SameCallers
  <2>6. \A i \in Responses' :
         /\ Waiting(fromSim[i].data.of)' /\ fromSim'[i].data.value = LastSent(fromSim[i].data.of)'
         /\ queue = <<>> /\ \A j \in Responses' : i = j
    <3> SUFFICES ASSUME NEW i \in Responses'
                 PROVE  /\ Waiting(fromSim[i].data.of)' /\ fromSim'[i].data.value = LastSent(fromSim[i].data.of)'
                        /\ queue = <<>> /\ \A j \in Responses' : i = j
      OBVIOUS
    <3>1. PICK d \in RtlDatum : d = fromSim[i + 1].data /\ d = fromSim'[i].data /\ d.of \in RtlThread
      BY <1>2, <2>3, ReadersAre
    <3>2. Waiting(d.of) /\ d.value = LastSent(d.of) /\ queue = <<>> /\ \A j \in Responses : i + 1 = j
      BY <1>2, <2>2, <2>3, <3>1 DEF ReaderInv
    <3>3. Waiting(d.of)' /\ d.value = LastSent(d.of)'
      BY <1>7, <3>1, <3>2 DEF SameCallers
    <3>4. \A j \in Responses' : i = j
      <4> TAKE j \in Responses'
      <4>1. i + 1 = j + 1
        BY <2>3, <3>2
      <4>2. i \in Nat /\ j \in Nat
        BY <1>4 DEF Responses, Takes
      <4> QED
        BY <4>1, <4>2
    <3> QED
      BY <3>1, <3>2, <3>3, <3>4
  <2>7. \A i \in DOMAIN queue : i = 1 /\ Waiting(queue[i].of)' /\ queue[i].value = LastSent(queue[i].of)'
    BY <1>2, <1>7, <2>2, ReadersAre DEF ReaderInv, SameCallers
  <2>8. \A t \in RtlThread : Done(t)' > 0 /\ run.calls[t][Done(t)'].kind = "read" => got[t].of = t /\ got[t].value = WroteLast(t)'
    BY <1>2, <1>7, <2>2 DEF ReaderInv, SameCallers
  <2> QED
    BY <2>2, <2>4, <2>5, <2>6, <2>7, <2>8 DEF ReaderInv
<1>18. CASE m.kind = "ramwrite" /\ RamWrite(m)
  <2>1. /\ sysmem' = (IF run.callbacks /\ m.inside THEN sysmem + 1 ELSE sysmem)
        /\ handler' = "test" /\ queue' = queue /\ ramReply' = ramReply
    BY <1>18 DEF RamWrite
  <2>2. WritesTo(b) = WritesTo(a) + (IF m.inside THEN 1 ELSE 0) /\ ReadsTo(b) = ReadsTo(a) /\ b = a + 1
    BY <1>12, <1>15, <1>18 DEF Stores, Answers
  <2>3. sysmem' = (IF run.callbacks THEN WritesTo(b) ELSE 0) /\ sysmem' \in Nat /\ sysmem <= sysmem'
    BY <1>12, <1>14, <1>15, <1>18, <2>1, <2>2
  <2>4. run.callbacks => \A i \in DOMAIN queue' : queue'[i].writes <= sysmem'
    <3> SUFFICES ASSUME run.callbacks, NEW i \in DOMAIN queue PROVE queue[i].writes <= sysmem'
      BY <2>1
    <3>1. queue[i].writes <= sysmem /\ queue[i].writes \in Nat
      BY <1>2, <1>16, ReadersAre DEF RtlDatum
    <3> QED
      BY <1>14, <2>3, <3>1
  <2>5. MemoryOrder(h, r)'
    <3>1. UNCHANGED <<run, toSim, notes, answered, got>>
      BY <1>3 DEF callers, simulator
    <3>2. h[Len(toSim)].count + (IF handler' = "reply" THEN 1 ELSE 0) = ReadsTo(q[1]) /\ handler' # "reply"
      BY <1>11, <1>12, <1>13, <2>1, <2>2
    <3>3. sysmem' = (IF run.callbacks THEN WritesTo(q[1]) ELSE 0)
      BY <1>11, <2>3
    <3> QED
      BY <1>2, <1>4, <2>3, <2>4, <3>1, <3>2, <3>3, MemoryReceived
  <2>6. ReaderInv'
    BY <1>17, <1>18, <2>1
  <2>7. SocketsInv(h, r)'
    BY <1>4, <1>9, <1>10, <2>5 DEF SocketsInv, Takes
  <2> QED
    BY <1>7, <1>8, <2>6, <2>7 DEF RtlInv
<1>19. CASE m.kind = "ramread" /\ RamRead(m)
  <2>1. /\ (run.callbacks /\ m.inside => handler' = "reply" /\ ramReply' = sysmem)
        /\ (run.callbacks /\ ~m.inside => handler' = "test") /\ (~run.callbacks => handler' = "reply" /\ ramReply' = 0)
        /\ queue' = queue /\ sysmem' = sysmem
    BY <1>19 DEF RamRead
  <2>2. WritesTo(b) = WritesTo(a) /\ ReadsTo(b) = ReadsTo(a) + (IF m.inside \/ ~run.callbacks THEN 1 ELSE 0) /\ b = a + 1
    BY <1>12, <1>15, <1>19 DEF Stores, Answers
  <2>3. handler' = "reply" <=> (m.inside \/ ~run.callbacks)
    BY <1>14, <1>15, <1>19, <2>1
  <2>4. handler' = "reply" => Right(ReadsTo(q[1]), ramReply')
    <3> SUFFICES ASSUME handler' = "reply" PROVE Right(ReadsTo(b), ramReply')
      BY <1>11
    <3>1. b \in DOMAIN run.notes /\ Answers(run.notes[b])
      BY <1>15, <1>19, <2>3 DEF Answers
    <3>2. ramReply' = IF run.callbacks THEN WritesTo(b) ELSE 0
      BY <1>14, <1>15, <1>19, <2>1, <2>2, <2>3
    <3> QED
      BY <3>1, <3>2 DEF Right
  <2>5. MemoryOrder(h, r)'
    <3>1. UNCHANGED <<run, toSim, notes, answered, got>>
      BY <1>3 DEF callers, simulator
    <3>2. h[Len(toSim)].count + (IF handler' = "reply" THEN 1 ELSE 0) = ReadsTo(q[1])
      BY <1>11, <1>12, <1>13, <2>2, <2>3
    <3>3. sysmem' = (IF run.callbacks THEN WritesTo(q[1]) ELSE 0) /\ sysmem' \in Nat /\ (run.callbacks => sysmem <= sysmem')
      BY <1>11, <1>14, <2>1, <2>2
    <3>4. run.callbacks => \A i \in DOMAIN queue' : queue'[i].writes <= sysmem'
      BY <1>16, <2>1
    <3> QED
      BY <1>2, <1>4, <2>4, <3>1, <3>2, <3>3, <3>4, MemoryReceived
  <2>6. ReaderInv'
    BY <1>17, <1>19, <2>1
  <2>7. SocketsInv(h, r)'
    BY <1>4, <1>9, <1>10, <2>5 DEF SocketsInv, Takes
  <2> QED
    BY <1>7, <1>8, <2>6, <2>7 DEF RtlInv
<1>20. CASE m.kind = "response" /\ PushResponse(m)
  <2>1. handler' = "notify" /\ queue' = Append(queue, m.data) /\ ramReply' = ramReply /\ sysmem' = sysmem
    BY <1>20 DEF PushResponse
  <2>2. PICK d \in RtlDatum : d = m.data
    BY <1>20 DEF RtlFromSim, RtlNote, Hello
  <2>3. b = a /\ d.writes = WritesTo(a)
    <3>1. b = a
      BY <1>11, <1>20 DEF Onward
    <3>2. 1 \in 1 .. Len(fromSim)
      BY <1>4 DEF Takes
    <3>3. m.data.writes = WritesTo(q[1])
      BY <1>2, <1>5, <1>20, <3>2 DEF MemoryOrder
    <3> QED
      BY <1>11, <2>2, <3>1, <3>3
  <2>4. /\ queue \in Seq(RtlDatum) /\ Len(queue) \in Nat /\ DOMAIN queue = 1 .. Len(queue) /\ DOMAIN queue' = 1 .. (Len(queue) + 1)
        /\ (\A i \in 1 .. Len(queue) : queue'[i] = queue[i]) /\ queue'[Len(queue) + 1] = d
    <3>1. queue \in Seq(RtlDatum)
      BY <1>2 DEF RtlTypes
    <3> QED
      BY <2>1, <2>2, <3>1, AppendIs
  <2>5. MemoryOrder(h, r)'
    <3>1. UNCHANGED <<run, toSim, notes, answered, got>>
      BY <1>3 DEF callers, simulator
    <3>2. h[Len(toSim)].count + (IF handler' = "reply" THEN 1 ELSE 0) = ReadsTo(q[1]) /\ handler' # "reply"
      BY <1>11, <1>12, <1>13, <2>1, <2>3
    <3>3. sysmem' = (IF run.callbacks THEN WritesTo(q[1]) ELSE 0) /\ sysmem' \in Nat /\ (run.callbacks => sysmem <= sysmem')
      BY <1>11, <1>14, <2>1, <2>3
    <3>4. run.callbacks => \A i \in DOMAIN queue' : queue'[i].writes <= sysmem'
      <4> SUFFICES ASSUME run.callbacks, NEW i \in DOMAIN queue' PROVE queue'[i].writes <= sysmem
        BY <2>1
      <4>1. CASE i \in 1 .. Len(queue)
        BY <1>16, <2>4, <4>1
      <4>2. CASE i = Len(queue) + 1
        BY <1>12, <1>14, <2>3, <2>4, <4>2
      <4> QED
        BY <2>4, <4>1, <4>2
    <3> QED
      BY <1>2, <1>4, <3>1, <3>2, <3>3, <3>4, MemoryReceived
  <2>6. ReaderInv'
    <3>1. SUFFICES ASSUME Calm' PROVE ReaderInv'
      BY DEF ReaderInv
    <3>2. Calm /\ Reads' = Reads /\ toSim' = toSim /\ got' = got /\ run' = run
      BY <1>3, <1>6, <3>1 DEF Reads, callers
    <3>3. /\ 1 \in Responses /\ \A i \in Responses' : i + 1 \in Responses /\ i + 1 # 1
      BY <1>4, <1>5, <1>20, TakeResponses
    <3>4. Waiting(d.of) /\ d.value = LastSent(d.of) /\ queue = <<>> /\ \A j \in Responses : 1 = j
      BY <1>2, <1>5, <2>2, <3>2, <3>3 DEF ReaderInv
    <3>5. Responses' = {} /\ Reads = {}
      BY <1>2, <3>2, <3>3, <3>4 DEF ReaderInv
    <3>6. d.of \in RtlThread
      BY DEF RtlDatum
    <3>7. DOMAIN queue' = {1} /\ queue'[1] = d
      <4>1. Len(queue) = 0
        BY <3>4
      <4> QED
        BY <2>4, <4>1
    <3>8. \A i \in DOMAIN queue' : i = 1 /\ Waiting(queue[i].of)' /\ queue'[i].value = LastSent(queue[i].of)'
      BY <1>7, <3>4, <3>6, <3>7 DEF SameCallers
    <3>9. \A t, u \in RtlThread : Waiting(t)' /\ Waiting(u)' => t = u
      BY <1>2, <1>7, <3>2 DEF ReaderInv, SameCallers
    <3>10. \A t \in RtlThread : Done(t)' > 0 /\ run.calls[t][Done(t)'].kind = "read" => got[t].of = t /\ got[t].value = WroteLast(t)'
      BY <1>2, <1>7, <3>2 DEF ReaderInv, SameCallers
    <3> QED
      BY <3>2, <3>5, <3>8, <3>9, <3>10 DEF ReaderInv
  <2>7. SocketsInv(h, r)'
    BY <1>4, <1>9, <1>10, <2>5 DEF SocketsInv, Takes
  <2> QED
    BY <1>7, <1>8, <2>6, <2>7 DEF RtlInv
<1> QED
  BY <1>5, <1>18, <1>19, <1>20 DEF HandlerReceive

(* The handler answers a read of host memory.                              *)
LEMMA ReplyKeeps ==
  ASSUME RtlInv, RtlTypes', SendRamReply
  PROVE  RtlInv'
<1>1. PICK h, q : SocketsInv(h, q)
  BY DEF RtlInv
<1>2. RtlTypes /\ CallsInv /\ ReaderInv /\ CrossInv /\ MemoryOrder(h, q)
  BY <1>1 DEF RtlInv, SocketsInv
<1>3. PICK m \in RtlToSim : m = [kind |-> "ramread", value |-> ramReply]
  BY <1>2 DEF RtlToSim, RtlTypes
<1>4. /\ handler = "reply" /\ handler' = "test" /\ toSim' = Append(toSim, m)
      /\ UNCHANGED <<run, up, callers, fromSim, queue, running, ramReply, sysmem, simulator, histories>>
  BY <1>3 DEF SendRamReply
<1>5. PICK g : Posts(m, h, g)
  BY <1>1, <1>2, <1>4, PostGrows DEF simulator
<1>6. Still /\ (Calm' => Calm)
  BY <1>4 DEF Still, callers, Calm, histories
<1>7. CallsInv' /\ SameCallers /\ \A t \in RtlThread : Call(t)' = Call(t)
  BY <1>2, <1>6, StillCallers DEF SameCallers
<1>8. EarlyInv' /\ CrossInv'
  <2>1. up \notin Early /\ (up = "ready" => running)
    BY <1>4 DEF RtlInv, EarlyInv, Early
  <2> QED
    BY <1>2, <1>4, <2>1, NotEarly, CrossFrame DEF histories
<1>9. PICK H, C : H = Effect(m, h[Len(toSim)]).held /\ C = Effect(m, h[Len(toSim)]).cell
  OBVIOUS
<1>10. H = h[Len(toSim)].held /\ C = h[Len(toSim)].cell /\ Effect(m, h[Len(toSim)]).count = h[Len(toSim)].count + 1
  BY <1>3, <1>9 DEF Effect
<1>11. ResetInv(g)'
  <2>1. OnlyAll => Steady(H)
    BY <1>1, <1>5, <1>10 DEF SocketsInv, ResetInv, Posts
  <2>2. \A u \in RtlThread : OnlyAll /\ pc'[u] = "send" /\ Call(u)'.kind = "reset" => Underway(Call(u)'.assert, sent'[u], H[Call(u)'.tile])
    BY <1>1, <1>4, <1>7, <1>10 DEF SocketsInv, ResetInv, callers
  <2> QED
    BY <1>1, <1>4, <1>5, <1>9, <2>1, <2>2, PostReset DEF SocketsInv
<1>12. CellInv(g)'
  <2>1. \A u \in RtlThread : C[u] = LastSent(u)'
    BY <1>1, <1>7, <1>10 DEF SocketsInv, CellInv, SameCallers
  <2>2. C = Effect(m, h[Len(toSim)]).cell
    BY <1>9
  <2> QED
    BY ONLY <1>5, <2>1, <2>2, PostCell, Zenon
<1>13. m.kind # "read" /\ SameReaders
  BY <1>3, <1>7 DEF SameReaders, SameCallers
<1>14. ReaderInv'
  BY <1>2, <1>4, <1>5, <1>6, <1>13, PostReader DEF callers
<1>15. PendingInv(g)'
  <2>1. \A u \in RtlThread : Waiting(u) => C[u] = h[Len(toSim)].cell[u]
    BY <1>10
  <2> QED
    BY <1>1, <1>2, <1>5, <1>6, <1>9, <1>13, <2>1, PostPending DEF SocketsInv
<1>16. MemoryOrder(g, q)'
  <2>1. Made' = Made
    BY <1>4 DEF Made, simulator
  <2>2. PICK n \in Nat : n = Len(toSim) /\ Len(toSim') = n + 1
    BY <1>5 DEF Posts
  <2>3. h[n].count \in Nat
    <3>1. n \in 0 .. n
      OBVIOUS
    <3>2. h[n] \in RtlDevice
      BY <1>1, <2>2, <3>1 DEF SocketsInv, Course
    <3> QED
      BY <3>2 DEF RtlDevice
  <2>4. g[n + 1].count = h[n].count + 1 /\ h[n].count + 1 = ReadsTo(q[0])
    <3>1. g[n + 1].count = h[n].count + 1
      BY <1>5, <1>10, <2>2 DEF Posts
    <3> QED
      BY <1>2, <1>4, <2>2, <3>1 DEF MemoryOrder
  <2>5. \A i \in 1 .. (n + 1) : toSim'[i].kind = "ramread" => Right(g[i].count, toSim'[i].value)
    <3> SUFFICES ASSUME NEW i \in 1 .. (n + 1), toSim'[i].kind = "ramread" PROVE Right(g[i].count, toSim'[i].value)
      OBVIOUS
    <3>1. CASE i = n + 1
      <4>1. toSim'[i].value = ramReply
        BY <1>3, <1>5, <2>2, <3>1 DEF Posts
      <4>2. Right(ReadsTo(q[0]), ramReply)
        BY <1>2, <1>4 DEF MemoryOrder
      <4> QED
        BY <2>4, <3>1, <4>1, <4>2
    <3>2. CASE i # n + 1
      <4>1. i \in 1 .. n /\ i \in 0 .. n
        BY <3>2
      <4> QED
        BY <1>2, <1>5, <2>2, <4>1 DEF Posts, MemoryOrder
    <3> QED
      BY <3>1, <3>2
  <2>6. g[n + 1].count + (IF handler' = "reply" THEN 1 ELSE 0) = ReadsTo(q[0])
    BY <1>4, <2>3, <2>4
  <2> QED
    BY <1>2, <1>4, <2>1, <2>2, <2>5, <2>6, RtlConstant DEF MemoryOrder, callers, simulator
<1>17. Passed(fromSim, q)'
  BY <1>1, <1>4 DEF SocketsInv, Passed
<1>18. SocketsInv(g, q)'
  BY <1>5, <1>11, <1>12, <1>15, <1>16, <1>17 DEF SocketsInv, Posts
<1> QED
  BY <1>7, <1>8, <1>14, <1>18 DEF RtlInv

(* The simulator sends a message.                                          *)
Gives(m, v, q, r) ==
  /\ Len(fromSim) \in Nat /\ Len(fromSim') = Len(fromSim) + 1
  /\ DOMAIN fromSim = 1 .. Len(fromSim) /\ DOMAIN fromSim' = 1 .. (Len(fromSim) + 1)
  /\ \A i \in 1 .. Len(fromSim) : fromSim'[i] = fromSim[i]
  /\ fromSim'[Len(fromSim) + 1] = m
  /\ Passed(fromSim, r)'
  /\ r[Len(fromSim) + 1] = v /\ \A i \in 0 .. Len(fromSim) : r[i] = q[i]

LEMMA GiveGrows ==
  ASSUME RtlTypes, run' = run, NEW q, Passed(fromSim, q), NEW m \in RtlFromSim, fromSim' = Append(fromSim, m),
         NEW v \in 0 .. Len(run.notes), v = Onward(m, q[Len(fromSim)])
  PROVE  \E r : Gives(m, v, q, r)
<1>1. PICK s : s = fromSim
  OBVIOUS
<1>2. run \in RtlScenarios /\ s \in Seq(RtlFromSim) /\ Passed(s, q) /\ v = Onward(m, q[Len(s)])
  BY <1>1 DEF RtlTypes
<1>3. PICK r : Passed(Append(s, m), r) /\ r[Len(s) + 1] = v /\ \A i \in 0 .. Len(s) : r[i] = q[i]
  <2>1. v \in Places
    BY DEF Places
  <2>2. Longer(s, m, q, v)
    BY ONLY <1>2, <2>1, m \in RtlFromSim, PassedGrows, Zenon
  <2> QED
    BY <2>2 DEF Longer
<1>4. Passed(fromSim, r)'
  BY <1>1, <1>3 DEF Passed
<1>5. /\ Len(s) \in Nat /\ Len(Append(s, m)) = Len(s) + 1
      /\ DOMAIN s = 1 .. Len(s) /\ DOMAIN Append(s, m) = 1 .. (Len(s) + 1)
      /\ \A i \in 1 .. Len(s) : Append(s, m)[i] = s[i]
      /\ Append(s, m)[Len(s) + 1] = m
  BY ONLY <1>2, m \in RtlFromSim, AppendIs
<1>6. Gives(m, v, q, r)
  BY <1>1, <1>3, <1>4, <1>5 DEF Gives
<1> QED
  BY <1>6

LEMMA GiveResponses ==
  ASSUME NEW m, NEW v, NEW q, NEW r, Gives(m, v, q, r)
  PROVE  /\ Responses' = Responses \cup (IF m.kind = "response" THEN {Len(fromSim) + 1} ELSE {})
         /\ \A i \in Responses : fromSim'[i] = fromSim[i]
  BY DEF Gives, Responses

LEMMA GiveOrder ==
  ASSUME NEW m, NEW v, NEW q, NEW r, NEW h, Gives(m, v, q, r), MemoryOrder(h, q), run' = run,
         m.kind \in {"ramread", "ramwrite"} => v >= 1 /\ m = run.notes[v],
         m.kind = "response" => m.data.writes = WritesTo(v)
  PROVE  \A i \in 1 .. Len(fromSim') :
           /\ fromSim'[i].kind \in {"ramread", "ramwrite"} => r[i] >= 1 /\ fromSim'[i] = run.notes[r[i]]
           /\ fromSim'[i].kind = "response" => fromSim'[i].data.writes = WritesTo(r[i])
<1>1. PICK n \in Nat : n = Len(fromSim) /\ Len(fromSim') = n + 1
  BY DEF Gives
<1>2. ASSUME NEW i \in 1 .. (n + 1)
      PROVE  /\ fromSim'[i].kind \in {"ramread", "ramwrite"} => r[i] >= 1 /\ fromSim'[i] = run.notes[r[i]]
             /\ fromSim'[i].kind = "response" => fromSim'[i].data.writes = WritesTo(r[i])
  <2>1. CASE i = n + 1
    <3>1. fromSim'[i] = m /\ r[i] = v
      BY <1>1, <2>1 DEF Gives
    <3> QED
      BY <3>1
  <2>2. CASE i # n + 1
    <3>1. i \in 1 .. n /\ i \in 0 .. n
      BY <1>2, <2>2
    <3>2. fromSim'[i] = fromSim[i] /\ r[i] = q[i]
      BY <1>1, <3>1 DEF Gives
    <3> QED
      BY <1>1, <3>1, <3>2 DEF MemoryOrder
  <2> QED
    BY <2>1, <2>2
<1> QED
  BY <1>1, <1>2

(* An access to host memory is notified.                                   *)
LEMMA NoteKeeps ==
  ASSUME RtlInv, RtlTypes', SimNote
  PROVE  RtlInv'
<1>1. PICK h, q : SocketsInv(h, q)
  BY DEF RtlInv
<1>2. RtlTypes /\ CallsInv /\ ReaderInv /\ CrossInv /\ MemoryOrder(h, q)
  BY <1>1 DEF RtlInv, SocketsInv
<1>3. /\ up \in {"ready", "stopping", "joining"} /\ notes # <<>> /\ fromSim' = Append(fromSim, Head(notes)) /\ notes' = Tail(notes)
      /\ UNCHANGED <<run, up, callers, toSim, hostSide, cell, held, answered, histories>>
  BY DEF SimNote
<1>4. PICK k \in Nat : Len(notes) = k + 1 /\ Len(notes') = k /\ Head(notes) = notes[1] /\ Head(notes) \in RtlNote
                       /\ \A j \in 1 .. k : notes'[j] = notes[j + 1] /\ j + 1 \in 1 .. Len(notes)
  <2>1. notes \in Seq(RtlNote)
    BY <1>2 DEF RtlTypes
  <2>2. /\ Head(notes) = notes[1] /\ Head(notes) \in RtlNote /\ Len(notes) \in Nat /\ Len(notes) >= 1
        /\ Len(Tail(notes)) = Len(notes) - 1
        /\ \A i \in 1 .. (Len(notes) - 1) : Tail(notes)[i] = notes[i + 1] /\ i + 1 \in 2 .. Len(notes)
    BY <1>3, <2>1, TailIs
  <2>3. PICK k \in Nat : Len(notes) - 1 = k /\ Len(notes) = k + 1
    BY <2>2
  <2>4. Len(notes') = k /\ \A j \in 1 .. k : notes'[j] = notes[j + 1] /\ j + 1 \in 1 .. Len(notes)
    <3>1. Len(notes') = k
      BY <1>3, <2>2, <2>3
    <3>2. ASSUME NEW j \in 1 .. k PROVE notes'[j] = notes[j + 1] /\ j + 1 \in 1 .. Len(notes)
      <4>1. Tail(notes)[j] = notes[j + 1]
        BY <2>2, <2>3
      <4>2. j + 1 \in 1 .. (k + 1)
        OBVIOUS
      <4> QED
        BY <1>3, <2>3, <4>1, <4>2
    <3> QED
      BY <3>1, <3>2
  <2> QED
    BY <2>2, <2>3, <2>4
<1>5. PICK N \in Nat, d \in Nat : N = Len(run.notes) /\ d = Made /\ d + 1 \in 0 .. N /\ Made' = d + 1
  <2>1. Len(run.notes) \in Nat
    BY <1>2, RtlFacts DEF RtlTypes
  <2>2. Len(notes) <= Len(run.notes)
    BY <1>2 DEF MemoryOrder
  <2>3. PICK N \in Nat : N = Len(run.notes) /\ k + 1 <= N
    BY <1>4, <2>1, <2>2
  <2>4. Made = N - (k + 1) /\ Made' = N - k
    BY <1>3, <1>4, <2>3 DEF Made
  <2>5. N - (k + 1) \in Nat /\ (N - (k + 1)) + 1 \in 0 .. N /\ N - k = (N - (k + 1)) + 1
    BY <2>3
  <2> QED
    BY <2>3, <2>4, <2>5
<1>6. PICK m \in RtlFromSim : m = Head(notes) /\ m.kind \in {"ramread", "ramwrite"} /\ m = run.notes[d + 1]
  <2>1. notes[1] = run.notes[d + 1]
    BY <1>2, <1>4, <1>5 DEF MemoryOrder
  <2> QED
    BY <1>4, <2>1 DEF RtlFromSim, RtlNote, Hello
<1>7. PICK v \in 0 .. Len(run.notes) : v = d + 1 /\ v = Onward(m, q[Len(fromSim)])
  <2>1. q[Len(fromSim)] = d
    BY <1>2, <1>5 DEF MemoryOrder
  <2> QED
    BY <1>5, <1>6, <2>1 DEF Onward
<1>8. PICK r : Gives(m, v, q, r)
  BY <1>1, <1>2, <1>3, <1>6, <1>7, GiveGrows DEF SocketsInv
<1>9. Still /\ (Calm' => Calm)
  BY <1>3 DEF Still, callers, Calm, histories
<1>10. CallsInv' /\ SameCallers /\ \A t \in RtlThread : Call(t)' = Call(t)
  BY <1>2, <1>9, StillCallers DEF SameCallers
<1>11. EarlyInv' /\ CrossInv'
  <2>1. up \notin Early /\ (up = "ready" => running)
    BY <1>3 DEF RtlInv, EarlyInv, Early
  <2> QED
    BY <1>2, <1>3, <2>1, NotEarly, CrossFrame DEF histories, hostSide
<1>12. ResetInv(h)' /\ CellInv(h)' /\ PendingInv(h)'
  <2>1. ResetInv(h)'
    BY <1>1, <1>3, <1>10, ResetFrame DEF SocketsInv, callers
  <2> QED
    BY <1>1, <1>3, <1>9, <1>10, <2>1, CellFrame, PendingFrame DEF SocketsInv, SameCallers
<1>13. Course(toSim, [held |-> held, cell |-> cell, count |-> Len(answered)], h)'
  BY <1>1, <1>3 DEF SocketsInv, Course, Effect
<1>14. MemoryOrder(h, r)'
  <2>1. \A i \in 1 .. Len(fromSim') :
          /\ fromSim'[i].kind \in {"ramread", "ramwrite"} => r[i] >= 1 /\ fromSim'[i] = run.notes[r[i]]
          /\ fromSim'[i].kind = "response" => fromSim'[i].data.writes = WritesTo(r[i])
    <3>1. v >= 1 /\ m = run.notes[v] /\ m.kind # "response"
      BY <1>6, <1>7
    <3> QED
      BY <1>2, <1>3, <1>8, <3>1, GiveOrder
  <2>2. r[Len(fromSim')] = Made'
    BY <1>5, <1>7, <1>8 DEF Gives
  <2>3. r[0] = q[0]
    BY <1>8 DEF Gives
  <2>4. Len(notes') <= Len(run.notes) /\ \A j \in 1 .. Len(notes') : notes'[j] = run.notes[Made' + j]
    <3>1. k + 1 <= N
      BY <1>2, <1>4, <1>5 DEF MemoryOrder
    <3>2. ASSUME NEW j \in 1 .. k PROVE notes'[j] = run.notes[(d + 1) + j]
      <4>1. notes[j + 1] = run.notes[d + (j + 1)]
        BY <1>2, <1>4, <1>5 DEF MemoryOrder
      <4>2. d + (j + 1) = (d + 1) + j
        OBVIOUS
      <4> QED
        BY <1>4, <4>1, <4>2
    <3> QED
      BY <1>4, <1>5, <3>1, <3>2
  <2> QED
    BY <1>2, <1>3, <2>1, <2>2, <2>3, <2>4, RtlConstant DEF MemoryOrder, hostSide, callers
<1>15. ReaderInv'
  <2>1. SUFFICES ASSUME Calm' PROVE ReaderInv'
    BY DEF ReaderInv
  <2>2. Calm /\ Reads' = Reads /\ toSim' = toSim /\ queue' = queue /\ got' = got /\ run' = run
    BY <1>3, <1>9, <2>1 DEF Reads, callers, hostSide
  <2>3. Responses' = Responses /\ \A i \in Responses : fromSim'[i] = fromSim[i]
    BY <1>6, <1>8, GiveResponses
  <2>4. \A t, u \in RtlThread : Waiting(t)' /\ Waiting(u)' => t = u
    BY <1>2, <1>10, <2>2 DEF ReaderInv, SameCallers
  <2>5. \A i \in Reads : Waiting(toSim[i].of)' /\ Responses' = {} /\ queue = <<>> /\ \A j \in Reads : i = j
    BY <1>2, <1>10, <2>2, <2>3, ReadersAre DEF ReaderInv, SameCallers
  <2>6. \A i \in Responses' :
         /\ Waiting(fromSim[i].data.of)' /\ fromSim'[i].data.value = LastSent(fromSim[i].data.of)'
         /\ queue = <<>> /\ \A j \in Responses' : i = j
    BY <1>2, <1>10, <2>2, <2>3, ReadersAre DEF ReaderInv, SameCallers
  <2>7. \A i \in DOMAIN queue : i = 1 /\ Waiting(queue[i].of)' /\ queue[i].value = LastSent(queue[i].of)'
    BY <1>2, <1>10, <2>2, ReadersAre DEF ReaderInv, SameCallers
  <2>8. \A t \in RtlThread : Done(t)' > 0 /\ run.calls[t][Done(t)'].kind = "read" => got[t].of = t /\ got[t].value = WroteLast(t)'
    BY <1>2, <1>10, <2>2 DEF ReaderInv, SameCallers
  <2> QED
    BY <2>2, <2>4, <2>5, <2>6, <2>7, <2>8 DEF ReaderInv
<1>16. SocketsInv(h, r)'
  BY <1>8, <1>12, <1>13, <1>14 DEF SocketsInv, Gives
<1> QED
  BY <1>10, <1>11, <1>15, <1>16 DEF RtlInv

(* The simulator takes a command.                                          *)
Obeys(m, h, g) ==
  /\ Len(toSim) \in Nat /\ Len(toSim) >= 1 /\ Len(toSim') = Len(toSim) - 1
  /\ DOMAIN toSim = 1 .. Len(toSim) /\ DOMAIN toSim' = 1 .. (Len(toSim) - 1)
  /\ toSim[1] = m /\ \A i \in 1 .. (Len(toSim) - 1) : toSim'[i] = toSim[i + 1]
  /\ Course(toSim, [held |-> held, cell |-> cell, count |-> Len(answered)], g)'
  /\ \A i \in 0 .. (Len(toSim) - 1) : g[i] = h[i + 1]
  /\ h[0] = [held |-> held, cell |-> cell, count |-> Len(answered)] /\ h[1] = Effect(m, h[0])

LEMMA EffectIs ==
  ASSUME RtlTypes, NEW m \in RtlToSim, m = Head(toSim), SimCommand
  PROVE  Effect(m, [held |-> held, cell |-> cell, count |-> Len(answered)]) = [held |-> held', cell |-> cell', count |-> Len(answered')]
<1>1. PICK x : x = [held |-> held, cell |-> cell, count |-> Len(answered)]
  OBVIOUS
<1>2. x.held = held /\ x.cell = cell /\ x.count = Len(answered)
  BY <1>1
<1>3. Len(answered) \in Nat
  BY DEF RtlTypes
<1>4. CASE m.kind \in {"read", "exit"}
  <2>1. held' = held /\ cell' = cell /\ answered' = answered
    BY <1>4 DEF SimCommand, simulator
  <2> QED
    BY <1>1, <1>2, <1>4, <2>1 DEF Effect
<1>5. CASE m.kind = "write"
  <2>1. held' = held /\ cell' = [cell EXCEPT ![m.of] = IF m.words = 0 THEN cell[m.of] ELSE m.value] /\ answered' = answered
    BY <1>5 DEF SimCommand
  <2>2. m.of \in RtlThread /\ cell \in [RtlThread -> Nat]
    BY <1>5 DEF RtlToSim, RtlTypes
  <2>3. cell' = IF m.words # 0 THEN [cell EXCEPT ![m.of] = m.value] ELSE cell
    BY <2>1, <2>2
  <2>4. Effect(m, x) = [held |-> held, cell |-> IF m.words # 0 THEN [cell EXCEPT ![m.of] = m.value] ELSE cell, count |-> Len(answered)]
    BY <1>2, <1>5 DEF Effect
  <2> QED
    BY <1>1, <2>1, <2>3, <2>4
<1>6. CASE m.kind = "hold"
  <2>1. held' = Holding(held, m.what, m.tile) /\ cell' = cell /\ answered' = answered
    BY <1>6 DEF SimCommand, Holding
  <2>2. Effect(m, x) = [held |-> Holding(held, m.what, m.tile), cell |-> cell, count |-> Len(answered)]
    BY <1>2, <1>6 DEF Effect
  <2> QED
    BY <1>1, <2>1, <2>2
<1>7. CASE m.kind = "free"
  <2>1. held' = Freeing(held, m.what, m.tile) /\ cell' = cell /\ answered' = answered
    BY <1>7 DEF SimCommand, Freeing
  <2>2. Effect(m, x) = [held |-> Freeing(held, m.what, m.tile), cell |-> cell, count |-> Len(answered)]
    BY <1>2, <1>7 DEF Effect
  <2> QED
    BY <1>1, <2>1, <2>2
<1>8. CASE m.kind = "ramread"
  <2>1. held' = held /\ cell' = cell /\ answered' = Append(answered, m.value)
    BY <1>8 DEF SimCommand
  <2>2. Len(answered') = Len(answered) + 1
    BY <2>1 DEF RtlTypes
  <2>3. Effect(m, x) = [held |-> held, cell |-> cell, count |-> Len(answered) + 1]
    BY <1>2, <1>8 DEF Effect
  <2> QED
    BY <1>1, <2>1, <2>2, <2>3
<1> QED
  BY <1>4, <1>5, <1>6, <1>7, <1>8 DEF RtlToSim

LEMMA ObeyShrinks ==
  ASSUME RtlTypes, NEW h, Course(toSim, [held |-> held, cell |-> cell, count |-> Len(answered)], h),
         NEW m \in RtlToSim, m = Head(toSim), SimCommand
  PROVE  \E g : Obeys(m, h, g)
<1>1. PICK s, x : s = toSim /\ x = [held |-> held, cell |-> cell, count |-> Len(answered)]
  OBVIOUS
<1>2. s \in Seq(RtlToSim) /\ s # <<>> /\ toSim' = Tail(s) /\ Course(s, x, h) /\ Head(s) = m
  BY <1>1 DEF RtlTypes, SimCommand
<1>3. /\ Len(s) \in Nat /\ Len(s) >= 1 /\ Len(Tail(s)) = Len(s) - 1 /\ DOMAIN Tail(s) = 1 .. (Len(s) - 1) /\ Head(s) = s[1]
      /\ \A i \in 1 .. (Len(s) - 1) : Tail(s)[i] = s[i + 1]
  BY ONLY <1>2, TailIs
<1>4. DOMAIN s = 1 .. Len(s)
  BY <1>2
<1>5. PICK g : /\ Course(Tail(s), Effect(Head(s), x), g)
               /\ \A i \in 0 .. Len(Tail(s)) : g[i] = h[i + 1]
  BY ONLY <1>2, CourseShrinks
<1>6. Course(toSim, [held |-> held, cell |-> cell, count |-> Len(answered)], g)'
  <2>1. Effect(Head(s), x) = [held |-> held', cell |-> cell', count |-> Len(answered')]
    BY <1>1, <1>2, EffectIs
  <2>2. Course(toSim', [held |-> held', cell |-> cell', count |-> Len(answered')], g)
    BY <1>2, <1>5, <2>1
  <2> QED
    BY <2>2 DEF Course, Effect
<1>7. h[0] = x /\ h[1] = Effect(m, h[0])
  <2>1. 1 \in 1 .. Len(s) /\ 1 - 1 = 0
    BY <1>3
  <2> QED
    BY <1>2, <1>3, <2>1 DEF Course
<1>8. Obeys(m, h, g)
  BY <1>1, <1>2, <1>3, <1>4, <1>5, <1>6, <1>7 DEF Obeys
<1> QED
  BY <1>8

LEMMA ObeyReads ==
  ASSUME NEW m, NEW h, NEW g, Obeys(m, h, g)
  PROVE  /\ \A i \in Reads' : i \in Nat /\ i + 1 \in Reads /\ toSim'[i] = toSim[i + 1] /\ g[i] = h[i + 1] /\ i + 1 # 1
         /\ m.kind = "read" => 1 \in Reads
<1>1. ASSUME NEW i \in Reads' PROVE i \in Nat /\ i + 1 \in Reads /\ toSim'[i] = toSim[i + 1] /\ g[i] = h[i + 1] /\ i + 1 # 1
  <2>1. i \in 1 .. (Len(toSim) - 1) /\ toSim'[i].kind = "read"
    BY <1>1 DEF Obeys, Reads
  <2>2. i \in Nat /\ i + 1 \in 1 .. Len(toSim) /\ i + 1 # 1 /\ i \in 0 .. (Len(toSim) - 1)
    BY <2>1 DEF Obeys
  <2> QED
    BY <2>1, <2>2 DEF Obeys, Reads
<1>2. 1 \in DOMAIN toSim
  BY DEF Obeys
<1> QED
  BY <1>1, <1>2 DEF Reads, Obeys

(* The parts of the invariant about the commands still to come.            *)
LEMMA ObeyFrame ==
  ASSUME RtlTypes, NEW m, NEW h, NEW g, NEW q, Obeys(m, h, g), SocketsInv(h, q), run' = run, Calm' => Calm,
         SameCallers, pc' = pc, sent' = sent, \A t \in RtlThread : Call(t)' = Call(t)
  PROVE  ResetInv(g)' /\ CellInv(g)' /\ PendingInv(g)'
<1>1. PICK n \in Nat : Len(toSim) = n + 1 /\ Len(toSim') = n
  BY DEF Obeys
<1>2. \A i \in 0 .. n : g[i] = h[i + 1] /\ i + 1 \in 0 .. (n + 1)
  BY <1>1 DEF Obeys
<1>3. g[n] = h[n + 1]
  BY <1>2
<1>4. ResetInv(g)'
  <2>1. OnlyAll' <=> OnlyAll
    BY RtlConstant
  <2>2. OnlyAll => \A i \in 0 .. n : Steady(g[i].held)
    BY <1>1, <1>2 DEF SocketsInv, ResetInv
  <2>3. OnlyAll => \A t \in RtlThread : pc'[t] = "send" /\ Call(t)'.kind = "reset" =>
          Underway(Call(t)'.assert, sent'[t], g[n].held[Call(t)'.tile])
    BY <1>1, <1>3 DEF SocketsInv, ResetInv
  <2> QED
    BY <1>1, <2>1, <2>2, <2>3, RtlConstant DEF ResetInv, Underway
<1>5. CellInv(g)'
  BY <1>1, <1>3 DEF SocketsInv, CellInv, SameCallers
<1>6. PendingInv(g)'
  <2>1. SUFFICES ASSUME Calm', NEW i \in Reads'
                 PROVE  g[i].cell[toSim'[i].of] = g[Len(toSim')].cell[toSim'[i].of]
    BY DEF PendingInv
  <2>2. Calm /\ i + 1 \in Reads /\ toSim'[i] = toSim[i + 1] /\ g[i] = h[i + 1]
    BY <2>1, ObeyReads
  <2>3. h[i + 1].cell[toSim[i + 1].of] = h[n + 1].cell[toSim[i + 1].of]
    BY <1>1, <2>2 DEF SocketsInv, PendingInv
  <2> QED
    BY <1>1, <1>3, <2>2, <2>3
<1> QED
  BY <1>4, <1>5, <1>6

(* The parts of the order of host memory that a command may touch.         *)
LEMMA ObeyOrder ==
  ASSUME RtlTypes, NEW m, NEW h, NEW g, NEW q, Obeys(m, h, g), MemoryOrder(h, q),
         run' = run, handler' = handler, m.kind # "ramread" => answered' = answered,
         m.kind = "ramread" => answered' = Append(answered, m.value) /\ m.value \in Nat
  PROVE  /\ g[Len(toSim')].count + (IF handler' = "reply" THEN 1 ELSE 0) = ReadsTo(q[0])
         /\ \A i \in 1 .. Len(toSim') : toSim'[i].kind = "ramread" => Right(g[i].count, toSim'[i].value)
         /\ \A i \in DOMAIN answered' : Right(i, answered'[i])
<1>1. PICK n \in Nat : Len(toSim) = n + 1 /\ Len(toSim') = n
  BY DEF Obeys
<1>2. \A i \in 0 .. n : g[i] = h[i + 1] /\ i + 1 \in 0 .. (n + 1)
  BY <1>1 DEF Obeys
<1>3. g[Len(toSim')].count + (IF handler' = "reply" THEN 1 ELSE 0) = ReadsTo(q[0])
  BY <1>1, <1>2 DEF MemoryOrder
<1>4. ASSUME NEW i \in 1 .. n, toSim'[i].kind = "ramread" PROVE Right(g[i].count, toSim'[i].value)
  <2>1. i + 1 \in 1 .. (n + 1) /\ i \in 0 .. n
    BY <1>4
  <2>2. toSim'[i] = toSim[i + 1] /\ g[i] = h[i + 1]
    BY <1>1, <1>2, <1>4, <2>1 DEF Obeys
  <2> QED
    BY <1>1, <1>4, <2>1, <2>2 DEF MemoryOrder
<1>5. \A i \in DOMAIN answered' : Right(i, answered'[i])
  <2>1. CASE m.kind # "ramread"
    BY <2>1 DEF MemoryOrder
  <2>2. CASE m.kind = "ramread"
    <3>1. PICK k \in Nat : k = Len(answered)
      BY DEF RtlTypes
    <3>2. /\ DOMAIN answered = 1 .. k /\ DOMAIN answered' = 1 .. (k + 1)
          /\ (\A i \in 1 .. k : answered'[i] = answered[i]) /\ answered'[k + 1] = m.value
      <4>1. answered \in Seq(Nat)
        BY DEF RtlTypes
      <4> QED
        BY <2>2, <3>1, <4>1, AppendIs
    <3>3. Right(k + 1, m.value)
      <4>1. h[1].count = k + 1
        <5>1. h[0].count = k
          BY <3>1 DEF Obeys
        <5>2. h[1].count = h[0].count + 1
          BY <2>2 DEF Obeys, Effect
        <5> QED
          BY <5>1, <5>2
      <4>2. 1 \in 1 .. Len(toSim) /\ toSim[1] = m
        BY <1>1 DEF Obeys
      <4> QED
        BY <2>2, <4>1, <4>2 DEF MemoryOrder
    <3>4. ASSUME NEW i \in 1 .. (k + 1) PROVE Right(i, answered'[i])
      <4>1. CASE i = k + 1
        BY <3>2, <3>3, <4>1
      <4>2. CASE i # k + 1
        <5>1. i \in 1 .. k
          BY <3>4, <4>2
        <5> QED
          BY <3>2, <5>1 DEF MemoryOrder
      <4> QED
        BY <4>1, <4>2
    <3> QED
      BY <3>2, <3>4
  <2> QED
    BY <2>1, <2>2
<1> QED
  BY <1>1, <1>3, <1>4, <1>5

LEMMA CommandKeeps ==
  ASSUME RtlInv, RtlTypes', SimCommand
  PROVE  RtlInv'
<1>1. PICK h, q : SocketsInv(h, q)
  BY DEF RtlInv
<1>2. RtlTypes /\ CallsInv /\ ReaderInv /\ CrossInv /\ MemoryOrder(h, q)
  BY <1>1 DEF RtlInv, SocketsInv
<1>3. toSim # <<>> /\ toSim' = Tail(toSim) /\ notes' = notes /\ UNCHANGED <<run, up, callers, hostSide, histories>>
  BY DEF SimCommand, simulator
<1>4. PICK m \in RtlToSim : m = Head(toSim)
  <2>1. toSim \in Seq(RtlToSim)
    BY <1>2 DEF RtlTypes
  <2> QED
    BY <1>3, <2>1, TailIs
<1>5. PICK g : Obeys(m, h, g)
  BY <1>1, <1>2, <1>4, ObeyShrinks DEF SocketsInv
<1>6. Still /\ (Calm' => Calm)
  BY <1>3 DEF Still, callers, Calm, histories
<1>7. CallsInv' /\ SameCallers /\ \A t \in RtlThread : Call(t)' = Call(t)
  BY <1>2, <1>6, StillCallers DEF SameCallers
<1>8. EarlyInv' /\ CrossInv'
  <2>1. up \notin Early /\ (up = "ready" => running)
    BY <1>3 DEF RtlInv, EarlyInv, Early
  <2> QED
    BY <1>2, <1>3, <2>1, NotEarly, CrossFrame DEF histories, hostSide
<1>9. ResetInv(g)' /\ CellInv(g)' /\ PendingInv(g)'
  BY <1>1, <1>2, <1>3, <1>5, <1>6, <1>7, ObeyFrame DEF callers
<1>10. /\ g[Len(toSim')].count + (IF handler' = "reply" THEN 1 ELSE 0) = ReadsTo(q[0])
       /\ \A i \in 1 .. Len(toSim') : toSim'[i].kind = "ramread" => Right(g[i].count, toSim'[i].value)
       /\ \A i \in DOMAIN answered' : Right(i, answered'[i])
  <2>1. m.kind # "ramread" => answered' = answered
    BY <1>4 DEF SimCommand, simulator
  <2>2. m.kind = "ramread" => answered' = Append(answered, m.value) /\ m.value \in Nat
    BY <1>4 DEF SimCommand, RtlToSim
  <2>3. handler' = handler /\ run' = run
    BY <1>3 DEF hostSide
  <2> QED
    BY <1>2, <1>5, <2>1, <2>2, <2>3, ObeyOrder
<1>11. /\ \A t, u \in RtlThread : Calm /\ Waiting(t)' /\ Waiting(u)' => t = u
       /\ \A i \in DOMAIN queue : Calm => i = 1 /\ Waiting(queue[i].of)' /\ queue[i].value = LastSent(queue[i].of)'
       /\ \A t \in RtlThread : Calm /\ Done(t)' > 0 /\ run.calls[t][Done(t)'].kind = "read" => got[t].of = t /\ got[t].value = WroteLast(t)'
  <2>1. \A t, u \in RtlThread : Calm /\ Waiting(t)' /\ Waiting(u)' => t = u
    BY <1>2, <1>7 DEF ReaderInv, SameCallers
  <2>2. ASSUME NEW i \in DOMAIN queue, Calm PROVE i = 1 /\ Waiting(queue[i].of)' /\ queue[i].value = LastSent(queue[i].of)'
    <3>1. PICK u \in RtlThread : u = queue[i].of /\ u = queue'[i].of
      BY <1>2, <1>3, ReadersAre DEF hostSide
    <3>2. i = 1 /\ Waiting(u) /\ queue[i].value = LastSent(u)
      BY <1>2, <2>2, <3>1 DEF ReaderInv
    <3> QED
      BY <1>7, <3>1, <3>2 DEF SameCallers
  <2>3. \A t \in RtlThread : Calm /\ Done(t)' > 0 /\ run.calls[t][Done(t)'].kind = "read" => got[t].of = t /\ got[t].value = WroteLast(t)'
    BY <1>2, <1>7 DEF ReaderInv, SameCallers
  <2> QED
    BY <2>1, <2>2, <2>3
<1>12. CASE m.kind # "read"
  <2>1. fromSim' = fromSim
    BY <1>4, <1>12 DEF SimCommand
  <2>2. ReaderInv'
    <3>1. SUFFICES ASSUME Calm' PROVE ReaderInv'
      BY DEF ReaderInv
    <3>2. Calm /\ Responses' = Responses /\ queue' = queue /\ got' = got /\ run' = run
      BY <1>3, <1>6, <2>1, <3>1 DEF Responses, callers, hostSide
    <3>3. \A i \in Reads' : Waiting(toSim[i].of)' /\ Responses = {} /\ queue = <<>> /\ \A j \in Reads' : i = j
      <4> SUFFICES ASSUME NEW i \in Reads' PROVE Waiting(toSim[i].of)' /\ Responses = {} /\ queue = <<>> /\ \A j \in Reads' : i = j
        OBVIOUS
      <4>1. \A j \in Reads' : j \in Nat /\ j + 1 \in Reads /\ toSim'[j] = toSim[j + 1]
        BY <1>5, ObeyReads
      <4>2. PICK u \in RtlThread : u = toSim[i + 1].of /\ u = toSim'[i].of
        BY <1>2, <4>1, ReadersAre
      <4>3. Waiting(u) /\ Responses = {} /\ queue = <<>> /\ \A j \in Reads : i + 1 = j
        BY <1>2, <3>2, <4>1, <4>2 DEF ReaderInv
      <4>4. \A j \in Reads' : i = j
        BY <4>1, <4>3
      <4> QED
        BY <1>7, <4>2, <4>3, <4>4 DEF SameCallers
    <3>4. \A i \in Responses :
           /\ Waiting(fromSim[i].data.of)' /\ fromSim[i].data.value = LastSent(fromSim[i].data.of)'
           /\ queue = <<>> /\ \A j \in Responses : i = j
      BY <1>2, <1>7, <2>1, <3>2, ReadersAre DEF ReaderInv, SameCallers
    <3> QED
      BY <1>11, <2>1, <3>2, <3>3, <3>4 DEF ReaderInv
  <2>3. MemoryOrder(g, q)'
    <3>1. Made' = Made
      BY <1>3 DEF Made
    <3> QED
      BY <1>2, <1>3, <1>10, <2>1, <3>1, RtlConstant DEF MemoryOrder, hostSide, callers
  <2>4. Passed(fromSim, q)'
    BY <1>1, <1>3, <2>1 DEF SocketsInv, Passed
  <2>5. SocketsInv(g, q)'
    BY <1>5, <1>9, <2>3, <2>4 DEF SocketsInv, Obeys
  <2> QED
    BY <1>7, <1>8, <2>2, <2>5 DEF RtlInv
<1>13. CASE m.kind = "read"
  <2>1. PICK u \in RtlThread : u = m.of
    BY <1>13 DEF RtlToSim
  <2>2. PICK v \in Nat : v = Made /\ v \in 0 .. Len(run.notes) /\ v = q[Len(fromSim)]
    <3>1. Len(fromSim) \in 0 .. Len(fromSim)
      BY <1>2 DEF RtlTypes
    <3>2. q[Len(fromSim)] \in 0 .. Len(run.notes)
      BY <1>1, <3>1 DEF SocketsInv, Passed
    <3> QED
      BY <1>2, <3>2 DEF MemoryOrder
  <2>3. PICK d \in RtlDatum : d = [of |-> u, value |-> cell[u], writes |-> WritesTo(v)]
    <3>1. cell[u] \in Nat /\ WritesTo(v) \in Nat
      BY <1>2, WritesCounted DEF RtlTypes
    <3> QED
      BY <3>1 DEF RtlDatum
  <2>4. PICK e \in RtlFromSim : e = [kind |-> "response", data |-> d]
    BY DEF RtlFromSim
  <2>5. fromSim' = Append(fromSim, e) /\ UNCHANGED simulator
    BY <1>4, <1>13, <2>1, <2>2, <2>3, <2>4 DEF SimCommand
  <2>6. PICK r : Gives(e, v, q, r)
    <3>1. v = Onward(e, q[Len(fromSim)])
      BY <2>2, <2>4 DEF Onward
    <3> QED
      BY <1>1, <1>2, <1>3, <2>2, <2>5, <3>1, GiveGrows DEF SocketsInv
  <2>7. MemoryOrder(g, r)'
    <3>1. Made' = Made
      BY <1>3 DEF Made
    <3>2. \A i \in 1 .. Len(fromSim') :
            /\ fromSim'[i].kind \in {"ramread", "ramwrite"} => r[i] >= 1 /\ fromSim'[i] = run.notes[r[i]]
            /\ fromSim'[i].kind = "response" => fromSim'[i].data.writes = WritesTo(r[i])
      <4>1. e.kind \notin {"ramread", "ramwrite"} /\ e.data.writes = WritesTo(v)
        BY <2>3, <2>4
      <4> QED
        BY <1>2, <1>3, <2>6, <4>1, GiveOrder
    <3>3. r[Len(fromSim')] = Made /\ r[0] = q[0]
      BY <2>2, <2>6 DEF Gives
    <3> QED
      BY <1>2, <1>3, <1>10, <3>1, <3>2, <3>3, RtlConstant DEF MemoryOrder, hostSide, callers
  <2>8. ReaderInv'
    <3>1. SUFFICES ASSUME Calm' PROVE ReaderInv'
      BY DEF ReaderInv
    <3>2. Calm /\ queue' = queue /\ got' = got /\ run' = run
      BY <1>3, <1>6, <3>1 DEF callers, hostSide
    <3>3. 1 \in Reads /\ toSim[1] = m
      <4>1. toSim[1] = m
        BY <1>5 DEF Obeys
      <4> QED
        BY <1>5, <1>13, <4>1, ObeyReads
    <3>4. Waiting(u) /\ Responses = {} /\ queue = <<>> /\ \A j \in Reads : 1 = j
      BY <1>2, <2>1, <3>2, <3>3 DEF ReaderInv
    <3>5. Reads' = {}
      BY <1>5, <3>4, ObeyReads
    <3>6. Responses' = {Len(fromSim) + 1} /\ fromSim'[Len(fromSim) + 1] = e
      BY <2>4, <2>6, <3>4, GiveResponses DEF Gives
    <3>7. cell[u] = LastSent(u)'
      <4>1. h[0].cell = cell /\ h[1].cell = h[0].cell
        BY <1>5, <1>13 DEF Obeys, Effect
      <4>2. h[1].cell[u] = h[Len(toSim)].cell[u]
        BY <1>1, <2>1, <3>2, <3>3 DEF SocketsInv, PendingInv
      <4>3. h[Len(toSim)].cell[u] = LastSent(u)
        BY <1>1 DEF SocketsInv, CellInv
      <4> QED
        BY <1>7, <4>1, <4>2, <4>3 DEF SameCallers
    <3>8. \A i \in Responses' :
           /\ Waiting(fromSim[i].data.of)' /\ fromSim'[i].data.value = LastSent(fromSim[i].data.of)'
           /\ queue' = <<>> /\ \A j \in Responses' : i = j
      <4>1. e.data.of = u /\ e.data.value = cell[u] /\ Waiting(u)'
        BY <1>7, <2>3, <2>4, <3>4 DEF SameCallers
      <4> QED
        BY <3>2, <3>4, <3>6, <3>7, <4>1
    <3> QED
      BY <1>11, <3>2, <3>5, <3>8 DEF ReaderInv
  <2>9. SocketsInv(g, r)'
    BY <1>5, <1>9, <2>6, <2>7 DEF SocketsInv, Obeys, Gives
  <2> QED
    BY <1>7, <1>8, <2>8, <2>9 DEF RtlInv
<1> QED
  BY <1>12, <1>13

LEMMA RtlInitInv == RtlInit => RtlInv
<1> SUFFICES ASSUME RtlInit PROVE RtlInv
  OBVIOUS
<1>1. run.calls \in [RtlThread -> Seq(RtlOp)] /\ run.notes \in Seq(RtlNote)
  BY RtlFacts DEF RtlInit
<1>2. RtlTypes
  <2>1. /\ run \in RtlScenarios /\ todo \in [RtlThread -> Seq(RtlOp)] /\ notes \in Seq(RtlNote)
        /\ pc \in [RtlThread -> {"idle", "send", "test", "tested", "asleep"}]
        /\ got \in [RtlThread -> RtlDatum \cup {Nothing}] /\ sent \in [RtlThread -> Nat] /\ cell \in [RtlThread -> Nat]
    BY <1>1 DEF RtlInit
  <2>2. toSim \in Seq(RtlToSim) /\ fromSim \in Seq(RtlFromSim) /\ queue \in Seq(RtlDatum) /\ answered \in Seq(Nat)
    BY DEF RtlInit
  <2>3. /\ up \in {"new", "waiting", "failed", "ready", "stopping", "joining", "down"}
        /\ running \in BOOLEAN /\ handler \in {"none", "test", "recv", "notify", "reply", "gone"}
        /\ ramReply \in Nat /\ sysmem \in Nat /\ held \in RtlHeld /\ crossed \in BOOLEAN
    BY DEF RtlInit, RtlHeld
  <2> QED
    BY <2>1, <2>2, <2>3 DEF RtlTypes
<1>3. \A t \in RtlThread : Len(run.calls[t]) \in Nat /\ todo[t] = run.calls[t] /\ Done(t) = 0 /\ pc[t] = "idle" /\ ~Waiting(t)
  <2> TAKE t \in RtlThread
  <2>1. Len(run.calls[t]) \in Nat
    BY <1>1
  <2> QED
    BY <2>1 DEF RtlInit, Done, Waiting
<1>4. \A t \in RtlThread : WroteLast(t) = 0 /\ LastSent(t) = 0
  BY <1>3 DEF WroteLast, LastSent
<1>5. CallsInv
  BY <1>3 DEF CallsInv
<1>6. EarlyInv /\ ReaderInv /\ CrossInv
  BY <1>3 DEF RtlInit, EarlyInv, ReaderInv, CrossInv, Calm
<1>7. Made = 0 /\ Len(run.notes) \in Nat /\ notes = run.notes /\ WritesTo(0) = 0 /\ ReadsTo(0) = 0
  <2>1. 0 \in Nat /\ Len(run.notes) \in Nat
    BY <1>1
  <2>2. WritesTo(0) = 0 /\ ReadsTo(0) = 0
    BY <2>1, WritesCounted, ReadsCounted
  <2>3. notes = run.notes
    BY DEF RtlInit
  <2>4. Made = 0
    BY <2>1, <2>3 DEF Made
  <2> QED
    BY <2>1, <2>2, <2>3, <2>4
<1>8. PICK x : x = [held |-> held, cell |-> cell, count |-> Len(answered)]
  OBVIOUS
<1>9. x \in RtlDevice /\ (\A k \in RtlTile : x.held[k] = RtlCores) /\ x.count = 0 /\ \A t \in RtlThread : x.cell[t] = 0
  BY <1>2, <1>8 DEF RtlInit, RtlDevice, RtlTypes
<1>10. PICK h, q : h = [i \in 0 .. 0 |-> x] /\ q = [i \in 0 .. 0 |-> 0]
  OBVIOUS
<1>11. h[0] = x /\ q[0] = 0 /\ h \in [0 .. 0 -> RtlDevice] /\ q \in [0 .. 0 -> 0 .. Len(run.notes)]
  BY <1>7, <1>9, <1>10
<1>12. toSim = <<>> /\ fromSim = <<>> /\ queue = <<>> /\ answered = <<>> /\ Len(toSim) = 0 /\ Len(fromSim) = 0
  BY DEF RtlInit
<1>13. Course(toSim, x, h) /\ Passed(fromSim, q)
  BY <1>11, <1>12 DEF Course, Passed
<1>14. ResetInv(h) /\ CellInv(h) /\ PendingInv(h)
  <2>1. Ordered(RtlCores) /\ Beside(RtlCores)
    BY DEF Ordered, Beside, RtlCores
  <2>2. Steady(x.held)
    BY <1>9, <2>1 DEF Steady
  <2> QED
    BY <2>2, <1>3, <1>4, <1>9, <1>11, <1>12, <2>1 DEF ResetInv, CellInv, PendingInv, Reads
<1>15. MemoryOrder(h, q)
  <2>1. \A t \in RtlThread : got[t].writes <= 0
    BY DEF RtlInit, Nothing
  <2>2. handler # "reply" /\ sysmem = 0
    BY DEF RtlInit
  <2>3. \A j \in 1 .. Len(notes) : notes[j] = run.notes[Made + j]
    BY <1>7
  <2> QED
    BY <1>7, <1>9, <1>11, <1>12, <2>1, <2>2, <2>3 DEF MemoryOrder
<1>16. SocketsInv(h, q)
  BY <1>8, <1>13, <1>14, <1>15 DEF SocketsInv
<1> QED
  BY <1>2, <1>5, <1>6, <1>16 DEF RtlInv

LEMMA RtlNextInv == RtlInv /\ RtlNext => RtlInv'
<1> SUFFICES ASSUME RtlInv, RtlNext PROVE RtlInv'
  OBVIOUS
<1>1. Made \in Nat
  <2>1. PICK h, q : SocketsInv(h, q)
    BY DEF RtlInv
  <2>2. Len(notes) \in Nat /\ Len(run.notes) \in Nat /\ Len(notes) <= Len(run.notes)
    BY <2>1, RtlFacts DEF RtlInv, RtlTypes, SocketsInv, MemoryOrder
  <2> QED
    BY <2>2 DEF Made
<1>2. RtlTypes'
  BY <1>1, RtlTypesStep DEF RtlInv
<1>3. CASE \E t \in RtlThread : Caller(t)
  <2>1. PICK t \in RtlThread : Caller(t)
    BY <1>3
  <2>2. CASE BeginCall(t)
    BY <1>2, <2>2, BeginKeeps
  <2>3. CASE SendCommand(t)
    BY <1>2, <2>3, PostKeeps, SendEndKeeps
  <2>4. CASE TestQueue(t)
    BY <1>2, <2>4, ReadEndKeeps, WaitKeeps
  <2>5. CASE Sleep(t)
    BY <1>2, <2>5, WaitKeeps
  <2> QED
    BY <2>1, <2>2, <2>3, <2>4, <2>5 DEF Caller
<1>4. CASE HandlerStep
  BY <1>2, <1>4, WaitKeeps, ReceiveKeeps, ReplyKeeps DEF HandlerStep
<1>5. CASE LifeStep \/ StopHandler
  BY <1>2, <1>5, SpawnKeeps, AcknowledgedKeeps, WaitKeeps, JoinKeeps DEF LifeStep
<1>6. CASE SimCommand \/ SimNote
  BY <1>2, <1>6, CommandKeeps, NoteKeeps
<1> QED
  BY <1>3, <1>4, <1>5, <1>6 DEF RtlNext

LEMMA RtlInvariant == SimulationSpec => []RtlInv
<1>1. SimulationInit => RtlInv
  BY RtlInitInv DEF SimulationInit
<1>2. RtlInv /\ [SimulationNext]_vars => RtlInv'
  BY RtlNextInv, StutterKeepsRtl DEF SimulationNext, Servers, Rtls, Backends, vars, rtlVars
<1> QED
  BY <1>1, <1>2, PTL DEF SimulationSpec

(* ResetOrdered, for any number of threads, calls, tiles and data movement *)
(* cores: while resets of ALL from several threads interleave in the       *)
(* socket, assert_risc_reset and deassert_risc_reset under device_lock     *)
(* never let a Tensix run beside data movement cores still in reset, nor,  *)
(* where ALL is asserted on no other tile, a core under an uncore still in *)
(* reset; and the commands of a reset reach the cores selected and no      *)
(* others, the uncores of the other tiles aside.                           *)
THEOREM ResetsKeepTheirOrder == SimulationSpec => []ResetOrdered
<1>1. RtlInv => ResetOrdered
  <2> SUFFICES ASSUME RtlInv PROVE ResetOrdered
    OBVIOUS
  <2>1. PICK h, q : SocketsInv(h, q)
    BY DEF RtlInv
  <2>2. OnlyAll => Steady(held)
    <3>1. h[0].held = held /\ 0 \in 0 .. Len(toSim)
      BY <2>1 DEF SocketsInv, Course, RtlInv, RtlTypes
    <3> QED
      BY <2>1, <3>1 DEF SocketsInv, ResetInv
  <2>3. ASSUME NEW t \in RtlThread, NEW i \in 1 .. Done(t), NEW op, op = run.calls[t][i], op.kind = "reset", run.arch = "QUASAR",
               Plain(op.sel), NEW k \in RtlTile, NEW core \in RtlCores
        PROVE  core \in Reached(ResetCommands(run.arch, op.sel, op.assert), op.tile, k) <=> Selected(op.sel, op.tile, k, core)
    <3>1. op \in RtlOp
      <4>1. run.calls[t] \in Seq(RtlOp) /\ todo[t] \in Seq(RtlOp)
        BY RtlFacts DEF RtlInv, RtlTypes
      <4>2. i \in DOMAIN run.calls[t]
        <5>1. PICK s \in Seq(RtlOp) : s = run.calls[t]
          BY ONLY <4>1
        <5>2. PICK r \in Seq(RtlOp) : r = todo[t]
          BY ONLY <4>1
        <5>3. i \in 1 .. (Len(s) - Len(r))
          BY <5>1, <5>2 DEF Done
        <5>4. i \in DOMAIN s
          BY ONLY <5>3, s \in Seq(RtlOp), r \in Seq(RtlOp), Len(s) \in Nat, Len(r) \in Nat, DOMAIN s = 1 .. Len(s)
        <5> QED
          BY ONLY <5>1, <5>4
      <4>3. run.calls[t][i] \in RtlOp
        BY ONLY <4>1, <4>2, ElementIs
      <4> QED
        BY <2>3, <4>3
    <3>2. PICK sel \in SUBSET RtlFlags : sel = op.sel
      BY <2>3, <3>1 DEF RtlOp
    <3>3. run \in RtlScenarios /\ Plain(sel)
      BY <2>3, <3>2 DEF RtlInv, RtlTypes
    <3>4. core \in Reached(ResetCommands("QUASAR", sel, op.assert), op.tile, k) <=> Selected(sel, op.tile, k, core)
      BY ONLY <3>2, <3>3, core \in RtlCores, ResetReaches
    <3> QED
      BY <2>3, <3>2, <3>4
  <2>4. OnlyAll => \A k \in RtlTile :
          /\ Lone(k) /\ "uncore" \in held[k] => Dms \subseteq held[k]
          /\ Dms \cap held[k] # {} => "tensix" \in held[k]
    BY <2>2 DEF Steady, Ordered, Beside
  <2> QED
    BY <2>3, <2>4 DEF ResetOrdered
<1> QED
  BY <1>1, RtlInvariant, PTL

(* RtlIoSound, for any number of threads, calls and accesses to host       *)
(* memory: replies of the simulator carry no name, yet a reader takes the  *)
(* reply to its own request, with what it wrote last, unless two readers   *)
(* waited at once, which device_lock allows only by way of a TLB window;   *)
(* and the handler thread has made the device's writes to host memory      *)
(* before it hands a later reply to a reader or answers a later read.      *)
THEOREM RepliesReachTheirReaders == SimulationSpec => []RtlIoSound
<1>1. RtlInv => RtlIoSound
  <2> SUFFICES ASSUME RtlInv PROVE RtlIoSound
    OBVIOUS
  <2>1. PICK h, q : SocketsInv(h, q)
    BY DEF RtlInv
  <2>2. ReadsOwnCell
    <3>1. ASSUME ~crossed, NEW t \in RtlThread, JustRead(t) PROVE got[t].of = t /\ got[t].value = WroteLast(t)
      BY <3>1 DEF RtlInv, ReaderInv, JustRead, Calm
    <3> QED
      BY <3>1 DEF ReadsOwnCell, RtlInv, CrossInv
  <2>3. HostMemoryOrdered
    BY <2>1 DEF HostMemoryOrdered, SocketsInv, MemoryOrder, Right
  <2> QED
    BY <2>2, <2>3 DEF RtlIoSound
<1> QED
  BY <1>1, RtlInvariant, PTL

(* SimulationIoSound, for any number of hosts, clients, connections and    *)
(* threads: transact() returns the reply of the request it sent, and a     *)
(* write that was reported as done of an open device is in it, on every    *)
(* connection where no request has timed out; the writes of a client reach *)
(* a device in the order it made them, over reconnections too, through     *)
(* teardowns and crashes of the hosts; and what RepliesReachTheirReaders   *)
(* says of the commands to the RTL simulator.                              *)
THEOREM RequestsAreAnswered == SimulationSpec => []SimulationIoSound
<1>1. OwnReplyUnlessLate /\ WritesInOrder /\ RtlIoSound => SimulationIoSound
  BY DEF SimulationIoSound
<1> QED
  BY <1>1, ServersSound, RepliesReachTheirReaders, PTL
=============================================================================
