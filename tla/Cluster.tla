------------------------------- MODULE Cluster -------------------------------
(***************************************************************************)
(* Clusters of several processes over the same chips: construction, start  *)
(* and close with the locks of the chips, resets of the RISC cores and the *)
(* clock, memory barriers, broadcast writes, and the refresh of the        *)
(* description after the ethernet topology has changed.                    *)
(*                                                                         *)
(* A device has one state of its Tensix cores (held in reset or running),  *)
(* its clock, and, for the barriers, cores with a queue of posted writes   *)
(* per process. Writes that leave over ethernet are in flight until the    *)
(* firmware delivers them.                                                 *)
(***************************************************************************)
EXTENDS EthernetBroadcast, SequencesExt, FiniteSetsExt, TLC

CONSTANTS None, Procs, Env

(* Chip ids are numbers; a process sees some of the chips of its machine.    *)
ASSUME ClusterAssumption ==
  /\ None \notin Procs
  /\ \A e \in Env :
       /\ DOMAIN e.loc \subseteq Nat /\ IsFiniteSet(DOMAIN e.loc) /\ e.local \subseteq DOMAIN e.loc
       /\ \A p \in Procs : e.visible[p] \subseteq DOMAIN e.loc
       /\ e.maxOps \in Nat

VARIABLES
  env,      \* the machine, the calls the processes make and what will fail
  loc,      \* where the chips are in the ethernet topology
  dev,      \* chip -> [clock, held]
  lock,     \* local chip -> owner of CHIP_IN_USE
  barrier,  \* owner of MEM_BARRIER of the chip with the cores
  flag,     \* core -> value of the barrier word
  posted,   \* process -> core -> posted writes, oldest first
  flight,   \* writes under way over ethernet
  proc      \* the Cluster of each process

vars == <<env, loc, dev, lock, barrier, flag, posted, flight, proc>>
device == <<env, loc, dev, lock>>
cores == <<barrier, flag, posted>>

Fresh == [pc |-> "none", todo |-> {}, then |-> "none", desc |-> None, via |-> None, eth |-> None, cache |-> {},
          ops |-> 0, skipped |-> {}, groups |-> <<>>, value |-> "RESET", synced |-> {}, asked |-> {}, hits |-> None,
          out |-> {}, fenced |-> {}]

Chips(p) == env.visible[p]
Local(p) == Chips(p) \cap env.local
Remote(p) == Chips(p) \ env.local
First(S) == {c \in S : \A d \in S : c <= d}
FirstMmioChip(p) == Min(Local(p))
Set(p, s) == proc' = [proc EXCEPT ![p] = s]
MayCall(p, op, pcs) == op \in env.ops /\ proc[p].pc \in pcs /\ proc[p].ops < env.maxOps
Ops(p) == [proc[p] EXCEPT !.ops = @ + 1]

------------------------------------------------------------------------------
(* The description, and what is made from it.                                *)

ChipToMmio(p, l) ==
  [c \in Chips(p) |-> IF l[c].rack = 0 /\ l[c].shelf = 0 THEN (IF c \in env.local THEN c ELSE env.gateway[l[c].place][c])
                      ELSE FirstMmioChip(p)]
Description(p) == [loc |-> [c \in Chips(p) |-> loc[c]], mmio |-> ChipToMmio(p, loc)]
ClosestMmio(l, c) == env.gateway[l[c].place][c]

UsesEthernetBroadcast(p) == env.arch = "WORMHOLE_B0" /\ Remote(p) # {} /\ env.hostChannels > 0

(* A refused description: its chips are not the chips of the cluster.        *)
SameChips(p) == env.unchanged

Construct(p) ==
  /\ proc[p].pc = "none" /\ proc[p].ops < env.maxOps
  /\ IF env.trains
     THEN Set(p, [Ops(p) EXCEPT !.pc = "idle", !.desc = Description(p),
                    !.via = [c \in Remote(p) |-> ClosestMmio(loc, c)],
                    !.eth = [c \in Chips(p) |-> loc[c].place]])
     ELSE Set(p, [Ops(p) EXCEPT !.pc = "none"])
  /\ UNCHANGED <<device, cores, flight>>

(* The bug to catch: the headers made for the old description are kept. *)
RefreshedKeepingHeaders(p) ==
  [proc[p] EXCEPT !.desc = Description(p), !.out = {},
                  !.eth = [c \in Chips(p) |-> loc[c].place]]

(* The bug to catch: the remote chips keep the channels they had. *)
RefreshedLocalOnly(p) ==
  [proc[p] EXCEPT !.desc = Description(p), !.cache = {}, !.out = {},
                  !.eth = [c \in Chips(p) |-> IF c \in Remote(p) THEN @[c] ELSE loc[c].place]]

(* Active channels go to the remote chips the new description puts behind    *)
(* the local chip; their gateway stays what it was. A place stands for the   *)
(* channels that are active there.                                           *)
Refreshed(p) ==
  [proc[p] EXCEPT !.desc = Description(p), !.cache = {}, !.out = {},
                  !.eth = [c \in Chips(p) |-> loc[c].place]]

RefreshClusterDescription(p) ==
  /\ MayCall(p, "refresh", {"idle", "started", "closed"})
  /\ Set(p, IF SameChips(p) THEN [Refreshed(p) EXCEPT !.ops = @ + 1] ELSE Ops(p))
  /\ UNCHANGED <<device, cores, flight>>

------------------------------------------------------------------------------
(* Broadcasts.                                                               *)

Cached(p, excluded) == {e \in proc[p].cache : e.excluded = excluded}
Headers(p, excluded) ==
  IF Cached(p, excluded) # {} THEN (CHOOSE e \in Cached(p, excluded) : TRUE).headers
  ELSE GetEthernetBroadcastHeaders(proc[p].desc, excluded)

(* The writes of a broadcast that go over ethernet. One to a single remote   *)
(* chip goes through the chip's own RemoteCommunication, one with a header   *)
(* through that of a local chip.                                             *)
BroadcastWrites(p, value, excluded) ==
  IF UsesEthernetBroadcast(p)
  THEN {[p |-> p, own |-> FALSE, header |-> h, chip |-> None, value |-> value] : h \in Headers(p, excluded)}
  ELSE {[p |-> p, own |-> TRUE, header |-> None, chip |-> c, value |-> value] : c \in Remote(p) \ excluded}

Held(value, d) == [d EXCEPT !.held = IF value = "data" THEN @ ELSE value = "hold"]
WriteLocals(p, value, excluded) ==
  [c \in DOMAIN dev |-> IF ~UsesEthernetBroadcast(p) /\ c \in Local(p) \ excluded THEN Held(value, dev[c]) ELSE dev[c]]

BroadcastWriteToCluster(p, value, excluded, next) ==
  /\ flight' = flight \cup BroadcastWrites(p, value, excluded)
  /\ dev' = WriteLocals(p, value, excluded)
  /\ Set(p, [next EXCEPT !.hits = [c \in Chips(p) |-> IF ~UsesEthernetBroadcast(p) /\ c \in Local(p) \ excluded THEN 1 ELSE 0],
                         !.asked = Chips(p) \ excluded,
                         !.cache = IF UsesEthernetBroadcast(p)
                                   THEN @ \cup {[excluded |-> excluded, headers |-> Headers(p, excluded)]} ELSE @])
  /\ UNCHANGED <<env, loc, lock, cores>>

Targets(w) == IF w.own THEN {w.chip} ELSE Addressed(w.header, loc, env.reach)

(* The firmware delivers one of the writes under way.                        *)
Deliver(w) ==
  /\ flight' = flight \ {w}
  /\ dev' = [c \in DOMAIN dev |-> IF c \in Targets(w) THEN Held(w.value, dev[c]) ELSE dev[c]]
  /\ proc' = [proc EXCEPT ![w.p].hits = IF @ = None \/ w.value # "data" THEN @
                                        ELSE [c \in DOMAIN @ |-> IF c \in Targets(w) THEN @[c] + 1 ELSE @[c]]]
  /\ UNCHANGED <<env, loc, lock, cores>>

(* The bug to catch: only the chips are flushed, not the broadcasts. *)
ChipsFlushed(p) == \A w \in flight : w.p = p => ~w.own

WaitForNonMmioFlush(p) == \A w \in flight : w.p # p

(* broadcast_tensix_risc_reset_to_cluster, of assert_risc_reset and          *)
(* deassert_risc_reset, up to the flush.                                     *)
BroadcastReset(p, value, then) ==
  BroadcastWriteToCluster(p, value, {}, [proc[p] EXCEPT !.pc = "flush", !.then = then, !.out = {value}])

AssertRiscReset(p) ==
  /\ MayCall(p, "reset", {"started"})
  /\ \E value \in {"hold", "run"} :
       BroadcastWriteToCluster(p, value, {}, [Ops(p) EXCEPT !.pc = "flush", !.then = "started", !.out = {value}])

Flush(p) ==
  /\ proc[p].pc = "flush" /\ WaitForNonMmioFlush(p)
  /\ Set(p, [proc[p] EXCEPT !.pc = proc[p].then, !.todo = Chips(p), !.out = {"flushed"} \cup @])
  /\ UNCHANGED <<device, cores, flight>>

UserBroadcast(p) ==
  /\ MayCall(p, "broadcast", {"started"})
  /\ \E excluded \in env.excluded :
       BroadcastWriteToCluster(p, "data", excluded, [Ops(p) EXCEPT !.pc = "flush", !.then = "started", !.out = {"data"}])

------------------------------------------------------------------------------
(* Start and close.                                                          *)

(* The bug to catch: chips in the order of a hash table. *)
HashOrder(p) ==
  IF p = Max(Procs) THEN {c \in proc[p].todo : \A d \in proc[p].todo : d <= c} ELSE First(proc[p].todo)

(* The next chip of all_chip_ids_.                                           *)
StartOrder(p) == First(proc[p].todo)

(* Nothing looks at whether the cluster is started already.                  *)
StartDevice(p) ==
  /\ MayCall(p, "start", {"idle", "started", "faulted", "closed"})
  /\ Set(p, [Ops(p) EXCEPT !.pc = "starting", !.todo = Chips(p), !.skipped = {}, !.out = {}])
  /\ UNCHANGED <<device, cores, flight>>

CoresOf(c) == {x \in env.cores : x.chip = c}
GroupCores(g, S) == {x \in S : x.kind = g}
Post(p, S, v) == [posted EXCEPT ![p] = [x \in DOMAIN @ |-> IF x \in S THEN Append(@[x], v) ELSE @[x]]]

(* The calls of initialize_membars: one per kind of core.                    *)
InitialGroups(c) ==
  <<GroupCores("tensix", CoresOf(c)), GroupCores("eth", CoresOf(c)), GroupCores("dram", CoresOf(c))>>

(* LocalChip::start_device takes the lock and resets the barrier words, kind *)
(* by kind, without the lock of the barriers. A process that has the lock    *)
(* waits as well. A RemoteChip has nothing to start.                         *)
StartChip(p) ==
  LET s == proc[p] IN
  /\ s.pc = "starting"
  /\ \E c \in StartOrder(p) :
       IF c \in env.local
       THEN /\ lock[c] = None
            /\ lock' = [lock EXCEPT ![c] = p]
            /\ posted' = Post(p, Head(InitialGroups(c)), "RESET")
            /\ Set(p, [s EXCEPT !.pc = "initialize", !.todo = @ \ {c}, !.groups = InitialGroups(c),
                                !.value = "RESET", !.synced = {}, !.then = "starting"])
       ELSE Set(p, [s EXCEPT !.todo = @ \ {c}]) /\ UNCHANGED <<lock, posted>>
  /\ UNCHANGED <<env, loc, dev, barrier, flag, flight>>

DeassertResets(p) ==
  /\ proc[p].pc = "starting" /\ proc[p].todo = {}
  /\ BroadcastReset(p, "hold", "clocks")

(* deassert_risc_resets() and set_clock_state(BUSY) of one chip, in the      *)
(* order of the hash table chips_. A clock that does not rise in time is     *)
(* only logged; a refused message throws.                                    *)
SetClockBusy(p) ==
  LET s == proc[p] IN
  /\ s.pc = "clocks"
  /\ \/ s.todo = {} /\ Set(p, [s EXCEPT !.pc = "started"]) /\ UNCHANGED dev
     \/ \E c \in s.todo :
          /\ dev' = [dev EXCEPT ![c].clock = IF env.slowClock THEN @ ELSE "max"]
          /\ Set(p, [s EXCEPT !.todo = @ \ {c}])
     \/ s.todo # {} /\ env.refuses /\ Set(p, [s EXCEPT !.pc = "faulted"]) /\ UNCHANGED dev
  /\ UNCHANGED <<env, loc, lock, cores, flight>>

(* The bug to catch: the local chips are closed first. *)
LocalFirst(p) == LET local == proc[p].todo \cap env.local IN First(IF local # {} THEN local ELSE proc[p].todo)

(* The next chip: of remote_chip_ids_, then of local_chip_ids_.              *)
CloseOrder(p) == LET remote == proc[p].todo \ env.local IN First(IF remote # {} THEN remote ELSE proc[p].todo)

CloseDevice(p) ==
  /\ proc[p].pc \in {"idle", "started", "faulted"} /\ "start" \in env.ops
  /\ Set(p, [proc[p] EXCEPT !.pc = "closing", !.todo = Chips(p), !.skipped = {}])
  /\ UNCHANGED <<device, cores, flight>>

LongIdle(c) == [dev EXCEPT ![c].clock = "min"]

(* RemoteChip::close_device: skipped when the gateway or the chip is idle.   *)
CloseRemote(p, c) ==
  LET g == proc[p].via[c]
      idle == dev[g].clock = "min" \/ dev[c].clock = "min"
  IN  /\ IF idle THEN UNCHANGED <<dev, flight>>
         ELSE /\ dev' = LongIdle(c)
              /\ flight' = flight \cup {[p |-> p, own |-> TRUE, header |-> None, chip |-> c, value |-> "hold"]}
      /\ Set(p, [proc[p] EXCEPT !.todo = @ \ {c}, !.skipped = IF idle THEN @ \cup {c} ELSE @])
      /\ UNCHANGED lock

(* LocalChip::close_device: the lock is released in any case.                *)
CloseLocal(p, c) ==
  LET idle == dev[c].clock = "min"
  IN  /\ dev' = IF idle THEN dev ELSE [dev EXCEPT ![c] = [clock |-> "min", held |-> TRUE]]
      /\ lock' = [lock EXCEPT ![c] = IF @ = p THEN None ELSE @]
      /\ Set(p, [proc[p] EXCEPT !.todo = @ \ {c}, !.skipped = IF idle THEN @ \cup {c} ELSE @])
      /\ UNCHANGED flight

CloseChip(p) ==
  LET s == proc[p] IN
  /\ s.pc = "closing"
  /\ \/ s.todo = {} /\ Set(p, [s EXCEPT !.pc = "closed"]) /\ UNCHANGED <<dev, lock, flight>>
     \/ \E c \in CloseOrder(p) : IF c \in env.local THEN CloseLocal(p, c) ELSE CloseRemote(p, c)
  /\ UNCHANGED <<env, loc, cores>>

(* The process ends: its locks are freed, its writes still arrive.           *)
Exit(p) ==
  /\ env.exits /\ proc[p].pc # "none"
  /\ Set(p, [Fresh EXCEPT !.ops = env.maxOps])
  /\ lock' = [c \in DOMAIN lock |-> IF lock[c] = p THEN None ELSE lock[c]]
  /\ barrier' = IF barrier = p THEN None ELSE barrier
  /\ UNCHANGED <<env, loc, dev, flag, posted, flight>>

------------------------------------------------------------------------------
(* Memory barriers of LocalChip.                                             *)

(* The calls of insert_host_to_device_barrier: one per kind of core.         *)
MembarGroups(S) ==
  LET asked == IF S = {} THEN env.cores ELSE S
  IN  <<GroupCores("tensix", asked), GroupCores("eth", asked)>>
        \o (IF env.arch = "BLACKHOLE" THEN <<GroupCores("dram", asked)>> ELSE <<>>)

WriteToDevice(p) ==
  /\ MayCall(p, "write", {"idle", "started"})
  /\ \E x \in env.cores : posted' = Post(p, {x}, "data")
  /\ Set(p, Ops(p))
  /\ UNCHANGED <<device, barrier, flag, flight>>

L1Membar(p) ==
  /\ MayCall(p, "membar", {"idle", "started"})
  /\ \E S \in SUBSET {x \in env.cores : x.kind # "dram"} :
       Set(p, [Ops(p) EXCEPT !.then = proc[p].pc, !.pc = "barrier", !.groups = MembarGroups(S),
                             !.fenced = UNION Range(MembarGroups(S))])
  /\ UNCHANGED <<device, cores, flight>>

(* The bug to catch: barriers of different processes are not kept apart. *)
BarrierUnlocked(p) == TRUE

BarrierFree(p) == barrier = None

(* The bug to catch: the word is reset without waiting for the set. *)
FirstValueReset == "RESET"

(* The bug to catch: the word gets a value that is no flag. *)
FirstValueBlank == "BLANK"

FirstValue == "SET"

(* insert_host_to_device_barrier: set_membar_flag(SET).                      *)
BeginBarrier(p) ==
  LET s == proc[p] IN
  /\ s.pc = "barrier" /\ s.groups # <<>> /\ BarrierFree(p)
  /\ barrier' = p
  /\ posted' = Post(p, Head(s.groups), FirstValue)
  /\ Set(p, [s EXCEPT !.pc = "poll", !.value = FirstValue, !.synced = {}])
  /\ UNCHANGED <<device, flag, flight>>

(* One read-back of one core that has not synced.                            *)
Poll(p) ==
  LET s == proc[p] IN
  /\ s.pc \in {"poll", "initialize"}
  /\ \E x \in Head(s.groups) \ s.synced : flag[x] = s.value /\ Set(p, [s EXCEPT !.synced = @ \cup {x}])
  /\ UNCHANGED <<device, cores, flight>>

Synced(p) ==
  LET s == proc[p] IN
  /\ s.pc \in {"poll", "initialize"} /\ s.synced = Head(s.groups)
  /\ IF s.pc = "initialize" /\ Tail(s.groups) = <<>>
     THEN Set(p, [s EXCEPT !.pc = s.then, !.groups = <<>>]) /\ UNCHANGED <<posted, barrier>>
     ELSE IF s.pc = "initialize"
     THEN /\ posted' = Post(p, Head(Tail(s.groups)), "RESET")
          /\ Set(p, [s EXCEPT !.groups = Tail(@), !.synced = {}]) /\ UNCHANGED barrier
     ELSE IF s.value = "SET"
     THEN /\ posted' = Post(p, Head(s.groups), "RESET")
          /\ Set(p, [s EXCEPT !.value = "RESET", !.synced = {}]) /\ UNCHANGED barrier
     ELSE /\ barrier' = IF barrier = p THEN None ELSE barrier
          /\ Set(p, [s EXCEPT !.pc = "barrier", !.groups = Tail(@)]) /\ UNCHANGED posted
  /\ UNCHANGED <<device, flag, flight>>

(* The time is up with a word that is not what it should be: no write of     *)
(* this process to it is left, or the writes are slow to land.               *)
Timeout(p) ==
  LET s == proc[p] IN
  /\ s.pc \in {"poll", "initialize"}
  /\ \E x \in Head(s.groups) \ s.synced : flag[x] # s.value /\ (env.slowWrites \/ posted[p][x] = <<>>)
  /\ Set(p, [s EXCEPT !.pc = "timeout", !.groups = <<>>])
  /\ barrier' = IF barrier = p THEN None ELSE barrier
  /\ UNCHANGED <<device, flag, posted, flight>>

BarrierReturns(p) ==
  /\ proc[p].pc = "barrier" /\ proc[p].groups = <<>>
  /\ Set(p, [proc[p] EXCEPT !.pc = "flushed"])
  /\ UNCHANGED <<device, cores, flight>>

AfterBarrier(p) ==
  /\ proc[p].pc = "flushed"
  /\ Set(p, [proc[p] EXCEPT !.pc = proc[p].then, !.fenced = {}])
  /\ UNCHANGED <<device, cores, flight>>

(* The oldest posted write of a process to a core lands.                     *)
Land(p, x) ==
  /\ posted[p][x] # <<>>
  /\ posted' = [posted EXCEPT ![p][x] = Tail(@)]
  /\ flag' = IF Head(posted[p][x]) = "data" THEN flag ELSE [flag EXCEPT ![x] = Head(posted[p][x])]
  /\ UNCHANGED <<device, barrier, flight, proc>>

------------------------------------------------------------------------------
(* Another tool resets the chips; links come up elsewhere.                   *)
ToolReset ==
  /\ env.resets /\ \E c \in DOMAIN dev : dev[c].clock = "max"
  /\ dev' = [c \in DOMAIN dev |-> [clock |-> "min", held |-> TRUE]]
  /\ UNCHANGED <<env, loc, lock, cores, flight, proc>>

Relocate ==
  /\ loc = env.loc /\ loc # env.newLoc /\ flight = {}
  /\ loc' = env.newLoc
  /\ UNCHANGED <<env, dev, lock, cores, flight, proc>>

Init ==
  /\ env \in Env
  /\ loc = env.loc
  /\ dev = [c \in DOMAIN env.loc |-> [clock |-> "min", held |-> TRUE]]
  /\ lock = [c \in env.local |-> None]
  /\ barrier = None
  /\ flag = [x \in env.cores |-> "RESET"]
  /\ posted = [p \in Procs |-> [x \in env.cores |-> <<>>]]
  /\ flight = {}
  /\ proc = [p \in Procs |-> Fresh]

Next ==
  \/ \E p \in Procs :
       \/ Construct(p) \/ RefreshClusterDescription(p) \/ StartDevice(p) \/ StartChip(p) \/ DeassertResets(p)
       \/ SetClockBusy(p) \/ CloseDevice(p) \/ CloseChip(p) \/ Exit(p)
       \/ AssertRiscReset(p) \/ UserBroadcast(p) \/ Flush(p)
       \/ WriteToDevice(p) \/ L1Membar(p) \/ BeginBarrier(p) \/ Poll(p) \/ Synced(p) \/ Timeout(p)
       \/ BarrierReturns(p) \/ AfterBarrier(p)
       \/ \E x \in env.cores : Land(p, x)
  \/ \E w \in flight : Deliver(w)
  \/ ToolReset \/ Relocate

Spec == Init /\ [][Next]_vars

------------------------------------------------------------------------------
TypeOK ==
  /\ \A c \in DOMAIN dev : dev[c].clock \in {"min", "max"} /\ dev[c].held \in BOOLEAN
  /\ \A c \in DOMAIN lock : lock[c] \in Procs \cup {None}
  /\ barrier \in Procs \cup {None}
  /\ \A x \in DOMAIN flag : flag[x] \in {"SET", "RESET"}
  /\ \A p \in Procs : proc[p].ops \in 0..env.maxOps /\ proc[p].todo \subseteq DOMAIN dev

(* p waits for r, to take CHIP_IN_USE of a chip or MEM_BARRIER.              *)
WaitsFor(p, r) ==
  \/ proc[p].pc = "starting" /\ \E c \in StartOrder(p) \cap env.local : lock[c] = r
  \/ proc[p].pc = "barrier" /\ proc[p].groups # <<>> /\ barrier = r

(* Processes that start clusters with chips in common, or are in barriers    *)
(* on them, never wait for each other in a circle of any length: each takes  *)
(* the locks of the chips in one order. A process waits for a lock of its    *)
(* own only where start_device() is called on a cluster that is started, and *)
(* all its chips are locked by itself: this call never returns.              *)
NoWaitCycle ==
  /\ \A S \in (SUBSET Procs) \ {{}} : \E p \in S : \A r \in S \ {p} : ~WaitsFor(p, r)
  /\ \A p \in Procs : WaitsFor(p, p) => proc[p].pc = "starting" /\ \A c \in Local(p) : lock[c] = p

(* When close_device() has returned, the cores of every chip are held in     *)
(* reset (for a remote chip the write that does it may be under way), unless *)
(* a chip's clock had not risen at start or another tool had reset it: such  *)
(* a chip is passed over, even with cores set running since.                 *)
HeldAfterClose ==
  \A p \in Procs : proc[p].pc = "closed" => \A c \in Chips(p) :
    \/ dev[c].held \/ (c \in proc[p].skipped /\ (env.slowClock \/ env.resets))
    \/ \E w \in flight : w.own /\ w.chip = c /\ w.value = "hold"
    \/ \E r \in Procs \ {p} : proc[r].ops > 0 /\ c \in Chips(r)

(* When a reset broadcast has returned, it has reached every chip, local or  *)
(* remote, unless the topology is not the one of the description.            *)
Alone(p) == \A r \in Procs \ {p} : proc[r].pc = "none"
ResetIsVisible ==
  \A p \in Procs : ("flushed" \in proc[p].out /\ proc[p].pc \in {"clocks", "started"} /\ Alone(p) /\ ~env.resets /\ ~env.exits
                      /\ proc[p].desc = Description(p) /\ env.newLoc = env.loc) =>
    /\ "hold" \in proc[p].out => \A c \in Chips(p) : dev[c].held
    /\ "run" \in proc[p].out => \A c \in Chips(p) : ~dev[c].held

(* A broadcast reaches each chip it is meant for exactly once and no         *)
(* excluded chip, as long as the description is that of the topology; a      *)
(* refresh makes it so again.                                                *)
BroadcastReaches ==
  \A p \in Procs : ("data" \in proc[p].out /\ "flushed" \in proc[p].out /\ proc[p].desc = Description(p)) =>
    \A c \in Chips(p) : proc[p].hits[c] = IF c \in proc[p].asked THEN 1 ELSE 0

(* A refreshed cluster sends remote transfers over channels that are active, *)
(* as long as the gateway of the chip is still the closest local chip.       *)
ActiveLinks ==
  \A p \in Procs : (proc[p].pc # "none" /\ proc[p].desc = Description(p)) =>
    \A c \in Remote(p) : proc[p].via[c] = ClosestMmio(loc, c) => proc[p].eth[c] = loc[c].place

(* A memory barrier returns only after every write the process posted to its *)
(* cores before it has landed - with other processes in barriers of their    *)
(* own, and starting the chip. (A process that was killed inside a barrier,  *)
(* or whose barrier timed out, may leave words SET: the next barrier may     *)
(* return early.)                                                            *)
NoneTimedOut == \A q \in Procs : proc[q].pc # "timeout"
BarrierFlushes ==
  \A p \in Procs : (proc[p].pc = "flushed" /\ ~env.exits /\ NoneTimedOut) =>
    \A x \in proc[p].fenced : "data" \notin Range(posted[p][x])

(* A barrier times out only where another process starts the chip meanwhile  *)
(* or is killed, or where a write takes longer than MEMBAR_SYNC_TIMEOUT.     *)
TimeoutMeansStart ==
  \A p \in Procs : proc[p].pc = "timeout" => "start" \in env.ops \/ env.exits \/ env.slowWrites

(* Broadcast and multicast cells of the calls of the run.                    *)
CellsCovered == \A call \in env.calls : CellsAsAsked(call.rows, call.cols, call.translated)
RangesCovered == \A r \in env.ranges : MulticastAgrees(r[1], r[2])
==============================================================================
