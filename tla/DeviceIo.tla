------------------------------ MODULE DeviceIo ------------------------------
(***************************************************************************)
(* Access to the memory of a PCIe device by the threads of one or more     *)
(* processes: TTDevice through PcieProtocol (one cached window per process *)
(* under io_lock_), LocalChip (statically mapped windows used without a    *)
(* lock, a write-combining window under wc_tlb_lock, a register window     *)
(* under uc_tlb_lock) and the DMA engine (a window of its own under        *)
(* dma_mutex_, the engine under the cross-process PCIE_DMA mutex).         *)
(*                                                                         *)
(* A device access uses the window as it is configured at that moment.     *)
(* The device may be reset, which invalidates every mapping (SIGBUS), and  *)
(* a NOC may hang: its reads return all ones, its writes are lost, and an  *)
(* access may overrun its time budget, which any slow access may do too.   *)
(***************************************************************************)
EXTENDS TlbWindow

CONSTANTS
  Thread, Core, Noc, None,
  MaxAddr,            \* the last byte of a core's memory
  DmaBufSize,         \* DmaBuffer::size
  NumTlbs,            \* the windows the driver can hand out
  Env,                \* the configurations to start from
  MaxOverruns         \* bound on the accesses that overrun their budget

VARIABLES
  env,                \* arch, safe (use_safe_api_), wired (a hang detector is set), dmabuf,
                      \* faults, and per thread: proc (its process) and ask (its request);
                      \* static: what configure_tlb is asked for
  mem,                \* core -> address -> the thread that wrote the byte, or Zero
  win,                \* process -> window -> its configuration, or None
  statics,            \* process -> core -> the window in map_core_to_tlb_
  lock,               \* lock -> its holder, or Free
  pc, req, at,        \* per thread: what it does next, its request, the window it uses
  pos,                \* bytes of the request done before this chunk
  todo,               \* the accesses left of this chunk
  tmp, buf,           \* the word being patched, the bytes read
  result,
  before,             \* the threads whose write had returned when this call began
  engine,             \* the DMA jobs not completed yet
  completion, staging,\* per process: DmaBuffer::completion and DmaBuffer::buffer
  hung, mapped, alive, overruns,
  abandoned           \* some DMA transfer timed out: its job may still run

host == <<pc, req, at, pos, todo, tmp, buf, result, before>>
dma == <<engine, completion, staging, abandoned>>
world == <<hung, mapped, alive, overruns>>
vars == <<env, mem, win, statics, lock, host, dma, world>>

Zero == "zero"
Ones == "ones"                    \* HANG_READ_VALUE
Free == "free"
PcieDma == <<0, "PCIE_DMA">>
Process == {env.proc[t] : t \in Thread}
StaticWindow == {"s1", "s2"}
Window == {"cached", "wc", "uc", "dma", "probe"} \cup StaticWindow
P(t) == env.proc[t]
LockOf(t, w) == <<P(t), w>>
Locks == {PcieDma} \cup {<<p, w>> : p \in {1, 2}, w \in Window \ StaticWindow}

Init ==
  /\ env \in Env
  /\ mem = [c \in Core |-> [a \in 0..MaxAddr |-> Zero]]
  /\ win = [p \in {1, 2} |-> [w \in Window |->
              IF w = "probe" /\ env.wired THEN TlbConfig({}, 0, 0) ELSE None]]
  /\ statics = [p \in {1, 2} |-> [c \in Core |-> None]]
  /\ lock = [l \in Locks |-> Free]
  /\ pc = [t \in Thread |-> "idle"]
  /\ req = [t \in Thread |-> None]
  /\ at = [t \in Thread |-> None]
  /\ pos = [t \in Thread |-> 0]
  /\ todo = [t \in Thread |-> <<>>]
  /\ tmp = [t \in Thread |-> <<>>]
  /\ buf = [t \in Thread |-> <<>>]
  /\ result = [t \in Thread |-> None]
  /\ before = [t \in Thread |-> {}]
  /\ engine = <<>>
  /\ completion = [p \in {1, 2} |-> FALSE]
  /\ staging = [p \in {1, 2} |-> <<>>]
  /\ hung = {} /\ mapped = TRUE /\ alive = {1, 2} /\ overruns = 0 /\ abandoned = FALSE

(***************************************************************************)
(* Windows.  PCIDevice::allocate_tlb fails when the driver has none left.  *)
(***************************************************************************)
Allocated == {x \in {1, 2} \X Window : win[x[1]][x[2]] # None}
CanAllocate == Cardinality(Allocated) < NumTlbs

\* TLBManager::configure_tlb, called while the chip is set up.  insert() keeps the window
\* a core is already mapped to: a second one is allocated and stays unused.
ConfigureTlb(p, core, addr) ==
  /\ \A t \in Thread : pc[t] = "idle"
  /\ mapped /\ CanAllocate
  /\ \E w \in StaticWindow :
       /\ win[p][w] = None
       /\ w = "s2" => win[p]["s1"] # None
       /\ win' = [win EXCEPT ![p][w] = TlbConfig({core}, addr, 0)]
       /\ statics' = [statics EXCEPT ![p][core] = IF @ = None THEN w ELSE @]
  /\ UNCHANGED <<env, mem, lock, host, dma, world>>

(* is_tlb_mapped takes the size as 32 bits: transfers here are shorter     *)
(* than 4 GiB, the longest it tells from a shorter one.                    *)
IsTlbMapped(p, r) ==
  \E c \in Core : /\ r.cores = {c} /\ statics[p][c] # None
                  /\ LET w == win[p][statics[p][c]]
                     IN  /\ GetBaseAddress(w) <= r.addr
                         /\ r.addr + r.size <= GetBaseAddress(w) + GetSize(w)

(***************************************************************************)
(* Ends of a call.  An exception unwinds the stack, so the locks are       *)
(* released; a SIGBUS outside the safe calls ends the process, and the     *)
(* robust PCIE_DMA mutex passes to the next process that wants it.         *)
(***************************************************************************)
Release(held) == [l \in Locks |-> IF lock[l] \in held THEN Free ELSE lock[l]]

End(t, why) ==
  /\ pc' = [pc EXCEPT ![t] = "done"]
  /\ result' = [result EXCEPT ![t] = why]
  /\ lock' = Release({t})

Fail(t, why) ==
  /\ End(t, why)
  /\ UNCHANGED <<env, mem, win, statics, req, at, pos, todo, tmp, buf, before, dma, world>>

Die(t) ==
  LET gone == {u \in Thread : P(u) = P(t)}
  IN  /\ alive' = alive \ {P(t)}
      /\ pc' = [u \in Thread |-> IF u \in gone /\ pc[u] # "done" THEN "dead" ELSE pc[u]]
      /\ lock' = [lock EXCEPT ![PcieDma] = IF @ \in gone THEN Free ELSE @]
      /\ engine' = SelectSeq(engine, LAMBDA j : j.p # P(t))
      /\ UNCHANGED <<env, mem, win, statics, req, at, pos, todo, tmp, buf, result, before,
                     completion, staging, abandoned, hung, mapped, overruns>>

\* execute_safe: only PcieProtocol's calls are made with a jump buffer.
JumpSet(t) == env.safe /\ at[t] = "cached"
\* sigbus_handler.
Sigbus(t) == IF JumpSet(t) THEN Fail(t, "sigbus") ELSE Die(t)

(***************************************************************************)
(* Calls through a window.                                                 *)
(***************************************************************************)
Aligned(r) == r.addr % Word = 0 /\ r.size % Word = 0

\* The path a call takes: what it does next, the window it uses and the accesses it makes
\* at once.  LocalChip uses the static window of the core when that covers the range.
ChipPath(p, r) ==
  IF IsTlbMapped(p, r)
  THEN LET w == statics[p][CHOOSE c \in Core : r.cores = {c}]
       IN  <<"access", w, BlockAccesses(env.arch, r.op, r.addr - win[p][w].base, r.size)>>
  ELSE <<"lock", "wc", <<>>>>
RegPath(r) == IF Aligned(r) THEN <<"lock", "uc", <<>>>> ELSE <<"done", None, <<>>>>
ProtocolPath(r) ==
  IF r.via = "ctrl" /\ ~Aligned(r) THEN <<"done", None, <<>>>> ELSE <<"lock", "cached", <<>>>>
DmaPath == <<"dmalock", "dma", <<>>>>
Path(p, r) ==
  CASE r.via = "chip" -> ChipPath(p, r)
    [] r.via = "reg" -> RegPath(r)
    [] r.via \in {"dma", "zerocopy"} -> DmaPath
    [] OTHER -> ProtocolPath(r)

Begin(t, r) ==
  /\ pc[t] = "idle" /\ P(t) \in alive
  /\ req' = [req EXCEPT ![t] = r]
  /\ before' = [before EXCEPT ![t] = {u \in Thread : result[u] = "ok" /\ req[u].op = "write"}]
  /\ buf' = [buf EXCEPT ![t] = [i \in 0..(r.size - 1) |-> None]]
  /\ pc' = [pc EXCEPT ![t] = Path(P(t), r)[1]]
  /\ at' = [at EXCEPT ![t] = Path(P(t), r)[2]]
  /\ todo' = [todo EXCEPT ![t] = Path(P(t), r)[3]]
  /\ result' = [result EXCEPT ![t] = IF Path(P(t), r)[1] = "done" THEN "unaligned" ELSE None]
  /\ UNCHANGED <<env, mem, win, statics, lock, pos, tmp, dma, world>>

\* io_lock_, wc_tlb_lock, uc_tlb_lock.
NoLock(t) == TRUE                            \* mutant
CanLock(t) == lock[LockOf(t, at[t])] = Free
Lock(t) ==
  /\ pc[t] = "lock" /\ P(t) \in alive /\ CanLock(t)
  /\ lock' = [lock EXCEPT ![LockOf(t, at[t])] = t]
  /\ pc' = [pc EXCEPT ![t] = "configure"]
  /\ UNCHANGED <<env, mem, win, statics, req, at, pos, todo, tmp, buf, result, before, dma, world>>

\* One turn of transfer_and_reconfigure: the window is allocated when it is first used and
\* aimed at what is left.  A register call of LocalChip is a single turn.
Chunk(t) == Min({req[t].size - pos[t], TlbSize - ((req[t].addr + pos[t]) % TlbSize)})
ConfigFor(t) == TlbConfig(req[t].cores, req[t].addr + pos[t], req[t].noc)

Configure(t) ==
  /\ pc[t] = "configure" /\ P(t) \in alive
  /\ IF win[P(t)][at[t]] = None /\ ~CanAllocate THEN Fail(t, "no_tlb")
     ELSE IF ~mapped THEN Sigbus(t)
     ELSE IF at[t] = "uc" /\ ~Validate(ConfigFor(t), 0, req[t].size)
     THEN /\ win' = [win EXCEPT ![P(t)][at[t]] = ConfigFor(t)]
          /\ End(t, "out_of_range")
          /\ UNCHANGED <<env, mem, statics, req, at, pos, todo, tmp, buf, before, dma, world>>
     ELSE /\ win' = [win EXCEPT ![P(t)][at[t]] = ConfigFor(t)]
          /\ todo' = [todo EXCEPT ![t] =
               IF req[t].via \in {"ctrl", "reg"}
               THEN RegisterAccesses(req[t].op, ConfigFor(t).offset, Chunk(t))
               ELSE BlockAccesses(env.arch, req[t].op, ConfigFor(t).offset, Chunk(t))]
          /\ pc' = [pc EXCEPT ![t] = "access"]
          /\ UNCHANGED <<env, mem, statics, lock, req, at, pos, tmp, buf, result, before, dma, world>>

\* What the thread does once the head of todo is done.
Continue(t, left) ==
  IF left # <<>> THEN
    /\ pc' = [pc EXCEPT ![t] = "access"]
    /\ UNCHANGED <<pos, result, lock>>
  ELSE IF at[t] \in StaticWindow \/ pos[t] + Chunk(t) = req[t].size THEN
    /\ End(t, "ok")
    /\ UNCHANGED pos
  ELSE /\ pc' = [pc EXCEPT ![t] = "configure"]
       /\ pos' = [pos EXCEPT ![t] = @ + Chunk(t)]
       /\ UNCHANGED <<result, lock>>

\* The index in the caller's buffer of the byte at a window offset, as the thread computed
\* it from its own request.
Index(t, offset) == (req[t].addr + pos[t]) - ((req[t].addr + pos[t]) % TlbSize) + offset - req[t].addr
InBuffer(t, offset) == Index(t, offset) \in 0..(req[t].size - 1)

\* One load or store through the window, whatever it is aimed at now.  The time budget is
\* checked after the access.
Access(t, overrun) ==
  /\ pc[t] = "access" /\ P(t) \in alive
  /\ overrun => overruns < MaxOverruns
  /\ IF ~mapped THEN ~overrun /\ Sigbus(t)
     ELSE LET w == win[P(t)][at[t]]
              a == Head(todo[t])
              bytes == a.at..(a.at + a.n - 1)
              core == CHOOSE c \in w.cores : TRUE
              dead == w.noc \in hung
              device(o) == IF dead THEN Ones ELSE mem[core][w.base + o]
              written == {o \in bytes : a.kind = "patch" \/ InBuffer(t, o)}
              value(o) == IF InBuffer(t, o) THEN t ELSE tmp[t][o]
          IN  /\ mem' = IF a.kind \in {"store", "patch"} /\ ~dead
                        THEN [c \in Core |-> [x \in 0..MaxAddr |->
                               IF c \in w.cores /\ x - w.base \in written
                               THEN value(x - w.base) ELSE mem[c][x]]]
                        ELSE mem
              /\ tmp' = IF a.kind = "fetch"
                        THEN [tmp EXCEPT ![t] = [o \in bytes |-> device(o)]]
                        ELSE IF a.kind = "patch" THEN [tmp EXCEPT ![t] = <<>>] ELSE tmp
              /\ buf' = IF a.kind = "load"
                        THEN [buf EXCEPT ![t] = [i \in DOMAIN @ |->
                               IF \E o \in bytes : Index(t, o) = i
                               THEN device(CHOOSE o \in bytes : Index(t, o) = i) ELSE @[i]]]
                        ELSE buf
              /\ todo' = [todo EXCEPT ![t] = Tail(@)]
              /\ IF overrun
                 THEN pc' = [pc EXCEPT ![t] = "overrun"] /\ UNCHANGED <<pos, result, lock>>
                 ELSE Continue(t, Tail(todo[t]))
              /\ overruns' = IF overrun THEN overruns + 1 ELSE overruns
              /\ UNCHANGED <<env, win, statics, req, at, before, dma, hung, mapped, alive>>

(***************************************************************************)
(* Overruns.  The window's callback asks whether the NOC it was last aimed *)
(* over is hung.  The check reads through a window and a lock of its own,  *)
(* because the overrun access holds the lock of its window.                *)
(***************************************************************************)
FirstNoc(window) == 0                        \* mutant: the callback is not renewed by configure
CallbackNoc(window) == window.noc
CachedWindow == "cached"                     \* mutant: the check reads through the cached window
ProbeWindow == "probe"
\* HangDetector::is_noc_hung: the NOC's node id register reads as all ones.
IsNocHung(noc) == noc \in hung

Overrun(t) ==
  /\ pc[t] = "overrun" /\ P(t) \in alive
  /\ IF env.wired THEN
       /\ lock[LockOf(t, ProbeWindow)] = Free
       /\ lock' = [lock EXCEPT ![LockOf(t, ProbeWindow)] = t]
       /\ pc' = [pc EXCEPT ![t] = "probe"]
       /\ UNCHANGED <<env, mem, win, statics, req, at, pos, todo, tmp, buf, result, before, dma, world>>
     ELSE IF at[t] = "cached" THEN         \* no hang check wired: a false alarm
       /\ Continue(t, todo[t])
       /\ UNCHANGED <<env, mem, win, statics, req, at, todo, tmp, buf, before, dma, world>>
     ELSE Fail(t, "no_detector")           \* TTDevice::is_noc_hung without a detector

\* is_noc_hung().  A SIGBUS here leaves the probe's lock held when the call is a safe one:
\* the jump skips the destructor of the guard.
Probe(t) ==
  /\ pc[t] = "probe" /\ P(t) \in alive
  /\ IF ~mapped THEN
       IF JumpSet(t)
       THEN /\ pc' = [pc EXCEPT ![t] = "done"]
            /\ result' = [result EXCEPT ![t] = "sigbus"]
            /\ lock' = [lock EXCEPT ![LockOf(t, at[t])] = Free]
            /\ UNCHANGED <<env, mem, win, statics, req, at, pos, todo, tmp, buf, before, dma, world>>
       ELSE Die(t)
     ELSE IF IsNocHung(CallbackNoc(win[P(t)][at[t]])) THEN Fail(t, "timeout")
     ELSE /\ lock' = [lock EXCEPT ![LockOf(t, ProbeWindow)] = Free]
          /\ pc' = [pc EXCEPT ![t] = "resume"]
          /\ UNCHANGED <<env, mem, win, statics, req, at, pos, todo, tmp, buf, result, before, dma, world>>

Resume(t) ==
  /\ pc[t] = "resume" /\ P(t) \in alive
  /\ Continue(t, todo[t])
  /\ UNCHANGED <<env, mem, win, statics, req, at, todo, tmp, buf, before, dma, world>>

(***************************************************************************)
(* DMA.  dma_write and dma_read hold PCIE_DMA and dma_mutex_.  Without a   *)
(* DMA buffer they release it and fall back on the calls above; the        *)
(* zero-copy calls fail.                                                   *)
(***************************************************************************)
DmaLock(t) ==
  /\ pc[t] = "dmalock" /\ P(t) \in alive
  /\ lock[PcieDma] = Free /\ lock[LockOf(t, "dma")] = Free
  /\ IF env.dmabuf
     THEN /\ lock' = [lock EXCEPT ![PcieDma] = t, ![LockOf(t, "dma")] = t]
          /\ pc' = [pc EXCEPT ![t] = "dmastart"]
          /\ UNCHANGED <<env, mem, win, statics, req, at, pos, todo, tmp, buf, result, before, dma, world>>
     ELSE IF req[t].via = "zerocopy" THEN Fail(t, "no_dma")
     ELSE /\ pc' = [pc EXCEPT ![t] = "lock"]
          /\ at' = [at EXCEPT ![t] = "cached"]
          /\ UNCHANGED <<env, mem, win, statics, lock, req, pos, todo, tmp, buf, result, before, dma, world>>

\* The bytes one job moves: what is left, the rest of the window, the DMA buffer.
TransferSize(t) ==
  LET inWindow == Chunk(t)
  IN  IF req[t].via = "dma" THEN Min({inWindow, DmaBufSize}) ELSE inWindow

\* The checks of dma_h2d_transfer and dma_d2h_transfer.
DmaAccepts(t) ==
  /\ ConfigFor(t).offset % Word = 0 /\ TransferSize(t) % Word = 0
  /\ ~(env.arch = "blackhole" /\ req[t].op = "read")

\* get_cached_dma_tlb_window, the copy into the buffer and the registers of the engine.  The completion flag is cleared before the doorbell.
Job(t) == [p |-> P(t), t |-> t, op |-> req[t].op, n |-> TransferSize(t), pos |-> pos[t],
           zerocopy |-> req[t].via = "zerocopy", offset |-> ConfigFor(t).offset]
StaleCompletion(p) == completion[p]          \* mutant: the flag is not cleared
ClearedCompletion(p) == FALSE
DmaStart(t) ==
  LET n == TransferSize(t)
      aimed == [win EXCEPT ![P(t)]["dma"] = ConfigFor(t)]
  IN  /\ pc[t] = "dmastart" /\ P(t) \in alive
      /\ IF win[P(t)]["dma"] = None /\ ~CanAllocate THEN Fail(t, "no_tlb")
         ELSE IF ~mapped THEN Die(t)
         ELSE IF ~DmaAccepts(t) THEN /\ win' = aimed
              /\ End(t, "unsupported")
              /\ UNCHANGED <<env, mem, statics, req, at, pos, todo, tmp, buf, before, dma, world>>
         ELSE /\ win' = aimed
              /\ staging' = IF req[t].via = "dma" /\ req[t].op = "write"
                            THEN [staging EXCEPT ![P(t)] = [i \in 0..(n - 1) |-> t]] ELSE staging
              /\ completion' = [completion EXCEPT ![P(t)] = ClearedCompletion(P(t))]
              /\ engine' = Append(engine, Job(t))
              /\ pc' = [pc EXCEPT ![t] = "dmawait"]
              /\ UNCHANGED <<env, mem, statics, lock, req, at, pos, todo, tmp, buf, result, before,
                             abandoned, world>>

\* The engine, external to the code: it moves the bytes of a job through the window as the
\* window is aimed by then, and writes the completion value.  A hung NOC stalls it.
EngineStep ==
  /\ engine # <<>> /\ mapped
  /\ LET j == Head(engine)
         w == win[j.p]["dma"]
         there(i) == w.base + j.offset + i
         core == CHOOSE c \in w.cores : TRUE
         source(i) == IF j.zerocopy THEN j.t ELSE staging[j.p][i]
     IN  /\ w.noc \notin hung
         /\ IF j.op = "write"
            THEN /\ mem' = [c \in Core |-> [x \in 0..MaxAddr |->
                       IF c \in w.cores /\ x - there(0) \in 0..(j.n - 1) /\ (j.zerocopy \/ x - there(0) \in DOMAIN staging[j.p])
                       THEN source(x - there(0)) ELSE mem[c][x]]]
                 /\ UNCHANGED <<buf, staging>>
            ELSE /\ UNCHANGED mem
                 /\ IF j.zerocopy
                    THEN /\ buf' = [buf EXCEPT ![j.t] = [i \in DOMAIN @ |->
                              IF i - j.pos \in 0..(j.n - 1) THEN mem[core][there(i - j.pos)] ELSE @[i]]]
                         /\ UNCHANGED staging
                    ELSE /\ staging' = [staging EXCEPT ![j.p] = [i \in 0..(j.n - 1) |-> mem[core][there(i)]]]
                         /\ UNCHANGED buf
         /\ completion' = [completion EXCEPT ![j.p] = TRUE]
  /\ engine' = Tail(engine)
  /\ UNCHANGED <<env, win, statics, lock, pc, req, at, pos, todo, tmp, result, before, abandoned, world>>

\* Wormhole polls the completion flag, Blackhole the size register of the engine.
WormholeCompleted(t) == completion[P(t)]
BlackholeCompleted == engine = <<>>
Completed(t) == IF env.arch = "wormhole" THEN WormholeCompleted(t) ELSE BlackholeCompleted

DmaDone(t) ==
  LET n == TransferSize(t)
  IN  /\ pc[t] = "dmawait" /\ P(t) \in alive /\ Completed(t)
      /\ buf' = IF req[t].via = "dma" /\ req[t].op = "read"
                THEN [buf EXCEPT ![t] = [i \in DOMAIN @ |->
                       IF i - pos[t] \in 0..(n - 1) /\ i - pos[t] \in DOMAIN staging[P(t)]
                       THEN staging[P(t)][i - pos[t]] ELSE @[i]]]
                ELSE buf
      /\ pos' = [pos EXCEPT ![t] = @ + n]
      /\ win' = [win EXCEPT ![P(t)]["dma"] = TlbConfig(req[t].cores, req[t].addr + pos[t] + n, req[t].noc)]
      /\ IF pos[t] + n = req[t].size THEN End(t, "ok")
         ELSE /\ pc' = [pc EXCEPT ![t] = "dmastart"]
              /\ UNCHANGED <<result, lock>>
      /\ UNCHANGED <<env, mem, statics, req, at, todo, tmp, before, dma, world>>

\* DMA_TIMEOUT_MS: the call gives up, the job does not.
DmaTimeout(t) ==
  /\ pc[t] = "dmawait" /\ P(t) \in alive /\ ~Completed(t)
  /\ End(t, "dma_timeout")
  /\ abandoned' = TRUE
  /\ UNCHANGED <<env, mem, win, statics, req, at, pos, todo, tmp, buf, before,
                 engine, completion, staging, world>>

(***************************************************************************)
(* What the device does.                                                   *)
(***************************************************************************)
Reset ==
  /\ mapped /\ env.faults
  /\ mapped' = FALSE
  /\ UNCHANGED <<env, mem, win, statics, lock, host, dma, hung, alive, overruns>>

NocHang(n) ==
  /\ env.faults /\ hung = {}
  /\ hung' = {n}
  /\ UNCHANGED <<env, mem, win, statics, lock, host, dma, mapped, alive, overruns>>

Step(t) == Lock(t) \/ Configure(t) \/ Access(t, FALSE) \/ Overrun(t) \/ Probe(t) \/ Resume(t)
           \/ DmaLock(t) \/ DmaStart(t) \/ DmaDone(t)

Next ==
  \/ \E t \in Thread : \/ Step(t) \/ Access(t, TRUE) \/ DmaTimeout(t)
                        \/ Begin(t, env.ask[t])
  \/ \E p \in Process, x \in env.static : ConfigureTlb(p, x[1], x[2])
  \/ EngineStep \/ Reset
  \/ \E n \in Noc : NocHang(n)

\* A thread that can go on does; the poll of the completion flag ends at its deadline.  A
\* lock is handed over: a thread that waits is not overtaken for ever.
Fairness == \A t \in Thread : SF_vars(Step(t)) /\ WF_vars(DmaTimeout(t) \/ DmaDone(t))
Spec == Init /\ [][Next]_vars /\ Fairness

(***************************************************************************)
(* Properties.                                                             *)
(***************************************************************************)
\* Types; a window is aimed at an aligned base and an offset inside the window.
TypeOK ==
  /\ env \in Env
  /\ mem \in [Core -> [0..MaxAddr -> Thread \cup {Zero, Ones}]]
  /\ \A p \in {1, 2}, w \in Window : win[p][w] # None =>
       win[p][w].base % TlbSize = 0 /\ win[p][w].offset \in 0..(TlbSize - 1)
  /\ lock \in [Locks -> Thread \cup {Free}]
  /\ pc \in [Thread -> {"idle", "lock", "configure", "access", "overrun", "probe", "resume",
                        "dmalock", "dmastart", "dmawait", "done", "dead"}]
  /\ \A t \in Thread : req[t] \in {env.ask[t], None} /\ at[t] \in Window \cup {None}
  /\ hung \subseteq Noc /\ alive \subseteq {1, 2} /\ overruns \in 0..MaxOverruns

Covers(t) == IF req[t] = None THEN {} ELSE req[t].cores \X (req[t].addr..(req[t].addr + req[t].size - 1))
Writes(t) == req[t] # None /\ req[t].op = "write"
Ok(t) == result[t] = "ok" /\ req[t].noc \notin hung

\* Two calls that patch the same word through windows with different locks.
Races(t, u) ==
  /\ t # u /\ Writes(u) /\ env.arch = "wormhole"
  /\ ~(P(t) = P(u) /\ at[t] = at[u] /\ at[t] \notin StaticWindow)
  /\ \E x \in Covers(t), y \in Covers(u) : x[1] = y[1] /\ x[2] \div Word = y[2] \div Word

\* A write that returned is in the memory of every core it was meant for, whole and over
\* the bounds of windows and DMA buffers, unless another call wrote the byte: no chunk is
\* skipped, and no patch of a partial word takes back what a call under the same lock
\* wrote beside it.
WritesLand ==
  ~abandoned => \A t \in Thread : Writes(t) /\ Ok(t) =>
    \A x \in Covers(t) : \/ mem[x[1]][x[2]] = t
                          \/ \E u \in Thread \ {t} : Races(t, u) \/ (Writes(u) /\ x \in Covers(u))

\* No byte changes that no call asked to write: a window is never re-aimed by one call
\* while another still accesses through it.
OthersUntouched ==
  ~abandoned => \A c \in Core, a \in 0..MaxAddr :
    mem[c][a] # Zero => \E t \in Thread : mem[c][a] = t /\ Writes(t) /\ <<c, a>> \in Covers(t)

\* A read that returned has, for every byte, what the core holds: the data of a write that
\* had returned before the read began is never missed.
ReadsReturn ==
  ~abandoned => \A t \in Thread : result[t] = "ok" /\ req[t].op = "read" /\ req[t].noc \notin hung =>
    \A i \in DOMAIN buf[t] :
      LET x == <<CHOOSE c \in req[t].cores : TRUE, req[t].addr + i>>
      IN  IF \E u \in before[t] : Ok(u) /\ x \in Covers(u) /\ \A v \in Thread : ~Races(u, v)
          THEN \E u \in Thread : buf[t][i] = u /\ Writes(u) /\ x \in Covers(u)
          ELSE buf[t][i] = Zero \/ \E u \in Thread : buf[t][i] = u /\ Writes(u) /\ x \in Covers(u)

\* A transfer is aborted for its time only when the NOC it used is hung: the check that a
\* slow access triggers asks about the NOC of that access, also when the window served
\* another NOC before.
TimeoutMeansHung == \A t \in Thread : result[t] = "timeout" => req[t].noc \in hung

\* Every call returns, or its process is killed by a SIGBUS: the hang check inside an
\* overrun access does not wait for a lock the access holds, and every way out releases
\* the locks.  The exception is a probe lock left behind by a SIGBUS in a safe call.
ProbeLeaked(t) == \E u \in Thread : pc[u] = "done" /\ lock[LockOf(t, "probe")] = u
CallsEnd == \A t \in Thread :
  pc[t] \notin {"idle", "done", "dead"} ~> (pc[t] \in {"done", "dead"} \/ ProbeLeaked(t))

=============================================================================
