--------------------------- MODULE RtlSimulation ---------------------------
(***************************************************************************)
(* The RTL simulation backend: RtlSimCommunicator talks to the simulator   *)
(* process over one nng pair socket (SimulationHost).  Callers send their  *)
(* commands under device_lock_; a reader then waits on a queue which the   *)
(* notification handler thread fills, and that thread also performs the    *)
(* simulator's accesses to host memory.  A reply carries no name of the    *)
(* request it answers: readers get theirs by waiting one at a time, which  *)
(* device_lock of SimulationTTDevice ensures and direct use of a TLB       *)
(* window does not.                                                        *)
(*                                                                         *)
(* Every thread has a cell of its own in the device, written in words; the *)
(* tiles of the device have cores, which any thread may reset.             *)
(* The simulator is external: it takes commands and sends messages in      *)
(* order.                                                                  *)
(***************************************************************************)
EXTENDS Integers, Sequences, FiniteSets

CONSTANTS
  RtlThread,
  RtlTile,      \* the Tensix tiles of the device
  RtlScenarios, \* what each thread calls, what the simulator does, how far it gets
  RiscTypesDms, \* the data movement cores of a Quasar tile, in order
  Free          \* device_lock is not held

VARIABLES
  run,       \* the scenario
  up,        \* how far initialize() got, or that shutdown() has begun
  todo,      \* of each thread: the calls it has still to make
  pc, got,   \* of each thread: where it is, the last reply read
  sent,      \* of each thread: the commands of its call it has gone through
  owner,     \* device_lock of SimulationTTDevice
  toSim, fromSim, \* the pair socket
  queue,     \* command_queue_
  running,   \* notification_thread_running_
  handler,   \* the notification handler thread
  ramReply,  \* the answer it is about to send
  sysmem,    \* host memory: the number of simulator writes it has seen
  cell, held, \* the device: the cell of each thread, the cores of each tile in reset
  notes,     \* host memory accesses the simulator has still to make
  answered,  \* what its reads of host memory were answered
  crossed,   \* two readers have been waiting at once
  missed     \* a notify_all fell between a reader's test and its sleep

rtlVars == <<run, up, todo, pc, got, sent, owner, toSim, fromSim, queue, running, handler, ramReply, sysmem,
             cell, held, notes, answered, crossed, missed>>

Dms == {RiscTypesDms[i] : i \in DOMAIN RiscTypesDms}
RtlCores == {"tensix", "uncore"} \cup Dms
Nothing == [of |-> Free, value |-> 0, writes |-> 0]

(* The calls of a thread and the accesses to host memory.  A TLB window    *)
(* reads and writes; sel is the set of the flags selected in a RiscType:   *)
(* ALL, ALL_TRISCS, ALL_DATA_MOVEMENT, ALL_NEO_DMS_UNCORE, NEO_DM_UNCORE,  *)
(* "triscs" for any of the NEO TRISCs, and the data movement cores.        *)
RtlFlags == {"all", "alltriscs", "alldms", "uncores", "uncore", "triscs"} \cup Dms
RtlOp == [kind : {"read"}, via : {"device", "window"}]
    \cup [kind : {"write"}, via : {"device", "window"}, value : Nat, size : Nat]
    \cup [kind : {"reset"}, via : {"device"}, tile : RtlTile, sel : SUBSET RtlFlags, assert : BOOLEAN]
RtlNote == [kind : {"ramread", "ramwrite"}, inside : BOOLEAN]

ASSUME RtlAssumption ==
  /\ RiscTypesDms \in Seq(Dms) /\ Dms \cap {"all", "alltriscs", "alldms", "uncores", "uncore", "triscs", "tensix", "dms", "none"} = {}
  /\ Free \notin RtlThread
  /\ \A r \in RtlScenarios :
       r.calls \in [RtlThread -> Seq(RtlOp)] /\ r.notes \in Seq(RtlNote) /\ r.callbacks \in BOOLEAN

RtlInit ==
  /\ run \in RtlScenarios
  /\ up = "new" /\ todo = run.calls /\ notes = run.notes
  /\ pc = [t \in RtlThread |-> "idle"] /\ got = [t \in RtlThread |-> Nothing]
  /\ sent = [t \in RtlThread |-> 0]
  /\ owner = Free /\ toSim = <<>> /\ fromSim = <<>> /\ queue = <<>>
  /\ running = FALSE /\ handler = "none" /\ ramReply = 0 /\ sysmem = 0
  /\ cell = [t \in RtlThread |-> 0] /\ held = [k \in RtlTile |-> RtlCores]
  /\ answered = <<>> /\ crossed = FALSE /\ missed = FALSE

simulator == <<cell, held, notes, answered>>
hostSide == <<queue, running, handler, ramReply, sysmem>>
callers == <<todo, pc, got, sent, owner>>
histories == <<crossed, missed>>

-----------------------------------------------------------------------------
(* initialize() and shutdown().                                            *)

(* host_.init(), run.sh and uv_spawn() throw when they fail; a listener    *)
(* that does not start is only logged, and nobody can then connect.        *)
Spawn ==
  /\ up = "new"
  /\ \/ run.start = "throws" /\ up' = "failed" /\ UNCHANGED fromSim
     \/ run.start = "deaf" /\ up' = "waiting" /\ UNCHANGED fromSim
     \/ run.start = "ok" /\ up' = "waiting" /\ fromSim' = <<[kind |-> "exit"]>>
     \/ run.start = "odd" /\ up' = "waiting" /\ fromSim' = <<[kind |-> "other"]>>
  /\ UNCHANGED <<run, callers, toSim, hostSide, simulator, histories>>

(* The acknowledgement is awaited without a timeout, and is an EXIT: any   *)
(* other message makes initialize() throw.                                 *)
Acknowledged ==
  /\ up = "waiting" /\ fromSim # <<>> /\ fromSim' = Tail(fromSim)
  /\ \/ Head(fromSim).kind = "exit" /\ up' = "ready" /\ running' = TRUE /\ handler' = "test"
     \/ Head(fromSim).kind # "exit" /\ up' = "failed" /\ UNCHANGED <<running, handler>>
  /\ UNCHANGED <<run, callers, toSim, queue, ramReply, sysmem, simulator, histories>>

(* shutdown(): the flag, then notify_all(), neither under the queue's      *)
(* mutex; the join; EXIT.                                                  *)
StopHandler ==
  /\ up = "ready" /\ run.shutdown
  /\ up' = "stopping" /\ running' = FALSE
  /\ UNCHANGED <<run, callers, toSim, fromSim, queue, handler, ramReply, sysmem, simulator, histories>>

NotifyAll ==
  /\ up = "stopping" /\ up' = "joining"
  /\ pc' = [t \in RtlThread |-> IF pc[t] = "asleep" THEN "test" ELSE pc[t]]
  /\ missed' = (missed \/ \E t \in RtlThread : pc[t] = "tested")
  /\ UNCHANGED <<run, todo, got, sent, owner, toSim, fromSim, hostSide, simulator, crossed>>

JoinHandler ==
  /\ up = "joining" /\ handler = "gone"
  /\ up' = "down" /\ toSim' = Append(toSim, [kind |-> "exit"])
  /\ UNCHANGED <<run, callers, fromSim, hostSide, simulator, histories>>

-----------------------------------------------------------------------------
(* RtlSimulationTTDevice::assert_risc_reset and deassert_risc_reset.       *)

Cmd(what) == [kind |-> "reset", what |-> what]
Skip == Cmd("none")
DmCmds(sel) == [i \in DOMAIN RiscTypesDms |-> IF RiscTypesDms[i] \in sel THEN Cmd(RiscTypesDms[i]) ELSE Skip]

\* Mutant: deassert_risc_reset releases in the order of assert_risc_reset.
OneOrder(assert) == <<Cmd("tensix"), Cmd("dms"), Cmd("uncores")>>

AllOrder(assert) == IF assert THEN <<Cmd("tensix"), Cmd("dms"), Cmd("uncores")>>
                              ELSE <<Cmd("uncores"), Cmd("dms"), Cmd("tensix")>>

(* A flag counts by itself or in a mask, as the code tests it.  A Quasar   *)
(* is sent nothing for ALL_TRISCS and ALL_DATA_MOVEMENT.                   *)
ResetCommands(arch, sel, assert) ==
  IF arch # "QUASAR" THEN <<Cmd("tensix")>>
  ELSE IF sel = {"all"} THEN AllOrder(assert)
  ELSE IF sel = Dms THEN <<Cmd("dms")>>
  ELSE IF sel = {"uncores"} THEN <<Cmd("uncores")>>
  ELSE IF "uncore" \in sel THEN <<Cmd("uncore")>>
  ELSE DmCmds(sel) \o (IF "triscs" \in sel THEN <<Cmd("tensix")>> ELSE <<>>)

\* Mutant: the command for one tile's uncore is sent without coordinates.
AffectedEverywhere(what, tile, k) ==
  IF what \in {"uncores", "uncore"} THEN {"uncore"} ELSE IF k # tile THEN {} ELSE IF what = "dms" THEN Dms ELSE {what}

(* The cores of tile k that a command to a tile reaches.  The command for  *)
(* all the uncores has no coordinates: it reaches every tile.              *)
Affected(what, tile, k) ==
  IF what = "uncores" THEN {"uncore"} ELSE IF k # tile THEN {} ELSE IF what = "dms" THEN Dms ELSE {what}
Reached(cmds, tile, k) == UNION {Affected(cmds[i].what, tile, k) : i \in {j \in DOMAIN cmds : cmds[j] # Skip}}

-----------------------------------------------------------------------------
(* Callers.  A call is made through the device, under device_lock for its  *)
(* whole length, or through a TLB window.                                  *)

Call(t) == Head(todo[t])
Waiting(t) == pc[t] \in {"test", "tested", "asleep"}

(* The commands of a call, each sent under device_lock_.  tile_write_bytes *)
(* sends whole words only: a 16-bit write sends none.                      *)
Commands(t) ==
  LET op == Call(t) IN
  CASE op.kind = "read" -> <<[kind |-> "read", of |-> t]>>
    [] op.kind = "write" -> <<[kind |-> "write", of |-> t, value |-> op.value, words |-> op.size \div 4]>>
    [] op.kind = "reset" -> ResetCommands(run.arch, op.sel, op.assert)

(* A command to a core says which way; a data movement core that is not    *)
(* selected gets none.                                                     *)
Posted(t, c) ==
  IF c.kind # "reset" THEN Append(toSim, c)
  ELSE IF c = Skip THEN toSim
  ELSE Append(toSim, [kind |-> IF Call(t).assert THEN "hold" ELSE "free", what |-> c.what, tile |-> Call(t).tile])

\* Mutant: the device's lock is not taken.
LockNothing(t) == owner = Free /\ UNCHANGED owner

LockDevice(t) == owner = Free /\ owner' = t

BeginCall(t) ==
  /\ up \notin {"new", "waiting", "failed"} /\ pc[t] = "idle" /\ todo[t] # <<>>
  /\ IF Call(t).via = "device" THEN LockDevice(t) ELSE UNCHANGED owner
  /\ pc' = [pc EXCEPT ![t] = "send"] /\ sent' = [sent EXCEPT ![t] = 0]
  /\ UNCHANGED <<run, up, todo, got, toSim, fromSim, hostSide, simulator, histories>>

EndCall(t) ==
  /\ todo' = [todo EXCEPT ![t] = Tail(@)]
  /\ pc' = [pc EXCEPT ![t] = "idle"]
  /\ owner' = IF owner = t THEN Free ELSE owner

(* The next command, or the end of a call that has sent them all; a reader *)
(* goes on to wait.                                                        *)
SendCommand(t) ==
  /\ pc[t] = "send"
  /\ \/ /\ sent[t] < Len(Commands(t))
        /\ toSim' = Posted(t, Commands(t)[sent[t] + 1]) /\ sent' = [sent EXCEPT ![t] = @ + 1]
        /\ pc' = [pc EXCEPT ![t] = IF Call(t).kind = "read" THEN "test" ELSE "send"]
        /\ crossed' = (crossed \/ \E u \in RtlThread \ {t} : Waiting(u) /\ Call(t).kind = "read")
        /\ UNCHANGED <<todo, owner>>
     \/ /\ sent[t] >= Len(Commands(t))
        /\ EndCall(t) /\ UNCHANGED <<toSim, sent, crossed>>
  /\ UNCHANGED <<run, up, got, fromSim, hostSide, simulator, missed>>

(* wait_for_command_response(): the predicate is tested under the queue's  *)
(* mutex, which the handler needs to push; with an empty queue and the     *)
(* handler stopped the reader throws.                                      *)
TestQueue(t) ==
  /\ pc[t] = "test" /\ \A u \in RtlThread : pc[u] # "tested"
  /\ \/ /\ queue # <<>>
        /\ got' = [got EXCEPT ![t] = Head(queue)] /\ queue' = Tail(queue)
        /\ EndCall(t)
     \/ /\ queue = <<>> /\ ~running
        /\ EndCall(t) /\ UNCHANGED <<got, queue>>
     \/ /\ queue = <<>> /\ running
        /\ pc' = [pc EXCEPT ![t] = "tested"] /\ UNCHANGED <<todo, got, owner, queue>>
  /\ UNCHANGED <<run, up, sent, toSim, fromSim, running, handler, ramReply, sysmem, simulator, histories>>

Sleep(t) ==
  /\ pc[t] = "tested" /\ pc' = [pc EXCEPT ![t] = "asleep"]
  /\ UNCHANGED <<run, up, todo, got, sent, owner, toSim, fromSim, hostSide, simulator, histories>>

-----------------------------------------------------------------------------
(* The notification handler thread.                                        *)

HandlerTest ==
  /\ handler = "test" /\ handler' = IF running THEN "recv" ELSE "gone"
  /\ UNCHANGED <<run, up, callers, toSim, fromSim, queue, running, ramReply, sysmem, simulator, histories>>

RecvTimeout ==
  /\ handler = "recv" /\ fromSim = <<>> /\ ~running /\ handler' = "test"
  /\ UNCHANGED <<run, up, callers, toSim, fromSim, queue, running, ramReply, sysmem, simulator, histories>>

(* handle_ram_write_notification: without a callback the write is dropped, *)
(* and an address outside of the channels makes the callback throw, which  *)
(* the loop logs.                                                          *)
RamWrite(n) ==
  /\ sysmem' = IF run.callbacks /\ n.inside THEN sysmem + 1 ELSE sysmem
  /\ handler' = "test" /\ UNCHANGED <<queue, ramReply>>

\* Mutant: the answer is built before the callback has filled the buffer.
RamReadEarly(n) ==
  /\ handler' = IF run.callbacks /\ ~n.inside THEN "test" ELSE "reply"
  /\ ramReply' = 0
  /\ UNCHANGED <<queue, sysmem>>

(* handle_ram_read_notification: zeros without a callback; a callback that *)
(* throws leaves the simulator without an answer.                          *)
RamRead(n) ==
  /\ \/ run.callbacks /\ n.inside /\ handler' = "reply" /\ ramReply' = sysmem
     \/ run.callbacks /\ ~n.inside /\ handler' = "test" /\ UNCHANGED ramReply
     \/ ~run.callbacks /\ handler' = "reply" /\ ramReply' = 0
  /\ UNCHANGED <<queue, sysmem>>

(* Any other message is queued for the caller.                             *)
PushResponse(m) ==
  /\ \A t \in RtlThread : pc[t] # "tested"
  /\ queue' = Append(queue, m.data) /\ handler' = "notify"
  /\ UNCHANGED <<ramReply, sysmem>>

HandlerReceive ==
  /\ handler = "recv" /\ fromSim # <<>> /\ fromSim' = Tail(fromSim)
  /\ LET m == Head(fromSim) IN
       \/ m.kind = "ramwrite" /\ RamWrite(m)
       \/ m.kind = "ramread" /\ RamRead(m)
       \/ m.kind = "response" /\ PushResponse(m)
  /\ UNCHANGED <<run, up, callers, toSim, running, simulator, histories>>

\* Mutant: a response is queued and nobody is told.
NotifyNobody ==
  /\ handler = "notify" /\ handler' = "test"
  /\ UNCHANGED <<run, up, todo, pc, got, sent, owner, toSim, fromSim, queue, running, ramReply, sysmem, simulator, histories>>

(* command_queue_cv_.notify_one(), if somebody sleeps.                     *)
NotifyOne ==
  /\ handler = "notify" /\ handler' = "test"
  /\ LET sleepers == {t \in RtlThread : pc[t] = "asleep"} IN
       IF sleepers = {} THEN UNCHANGED pc ELSE \E t \in sleepers : pc' = [pc EXCEPT ![t] = "test"]
  /\ UNCHANGED <<run, up, todo, got, sent, owner, toSim, fromSim, queue, running, ramReply, sysmem, simulator, histories>>

SendRamReply ==
  /\ handler = "reply" /\ handler' = "test"
  /\ toSim' = Append(toSim, [kind |-> "ramread", value |-> ramReply])
  /\ UNCHANGED <<run, up, callers, fromSim, queue, running, ramReply, sysmem, simulator, histories>>

-----------------------------------------------------------------------------
(* The simulator process.                                                  *)

(* Of the first k accesses: the writes that reach host memory, and the     *)
(* reads that are answered.                                                *)
Stores(n) == n.kind = "ramwrite" /\ n.inside
Answers(n) == n.kind = "ramread" /\ (n.inside \/ ~run.callbacks)
WritesTo(k) == Cardinality({i \in 1 .. k : Stores(run.notes[i])})
ReadsTo(k) == Cardinality({i \in 1 .. k : Answers(run.notes[i])})
Made == Len(run.notes) - Len(notes)

SimCommand ==
  /\ toSim # <<>> /\ toSim' = Tail(toSim)
  /\ LET m == Head(toSim) IN
       \/ /\ m.kind = "read"
          /\ fromSim' = Append(fromSim, [kind |-> "response", data |-> [of |-> m.of, value |-> cell[m.of], writes |-> WritesTo(Made)]])
          /\ UNCHANGED simulator
       \/ /\ m.kind = "write"
          /\ cell' = [cell EXCEPT ![m.of] = IF m.words = 0 THEN @ ELSE m.value]
          /\ UNCHANGED <<fromSim, held, notes, answered>>
       \/ /\ m.kind = "hold" /\ held' = [k \in RtlTile |-> held[k] \cup Affected(m.what, m.tile, k)]
          /\ UNCHANGED <<fromSim, cell, notes, answered>>
       \/ /\ m.kind = "free" /\ held' = [k \in RtlTile |-> held[k] \ Affected(m.what, m.tile, k)]
          /\ UNCHANGED <<fromSim, cell, notes, answered>>
       \/ m.kind = "ramread" /\ answered' = Append(answered, m.value) /\ UNCHANGED <<fromSim, cell, held, notes>>
       \/ m.kind = "exit" /\ UNCHANGED <<fromSim, simulator>>
  /\ UNCHANGED <<run, up, callers, hostSide, histories>>

(* An access of the device to host memory, by way of a notification.       *)
SimNote ==
  /\ up \in {"ready", "stopping", "joining"} /\ notes # <<>>
  /\ fromSim' = Append(fromSim, Head(notes)) /\ notes' = Tail(notes)
  /\ UNCHANGED <<run, up, callers, toSim, hostSide, cell, held, answered, histories>>

-----------------------------------------------------------------------------
Caller(t) == BeginCall(t) \/ SendCommand(t) \/ TestQueue(t) \/ Sleep(t)
HandlerStep == HandlerTest \/ RecvTimeout \/ HandlerReceive \/ NotifyOne \/ SendRamReply
LifeStep == Spawn \/ Acknowledged \/ NotifyAll \/ JoinHandler

RtlNext == (\E t \in RtlThread : Caller(t)) \/ HandlerStep \/ LifeStep \/ StopHandler \/ SimCommand \/ SimNote

RtlSpec ==
  /\ RtlInit /\ [][RtlNext]_rtlVars
  /\ \A t \in RtlThread : WF_rtlVars(Caller(t))
  /\ WF_rtlVars(HandlerStep) /\ WF_rtlVars(LifeStep) /\ WF_rtlVars(SimCommand)

-----------------------------------------------------------------------------
(* The calls a thread has made, and the last whole-word value it wrote.    *)
Done(t) == Len(run.calls[t]) - Len(todo[t])
WholeWrite(op) == op.kind = "write" /\ op.size >= 4
WroteLast(t) ==
  LET ws == {i \in 1 .. Done(t) : WholeWrite(run.calls[t][i])}
  IN IF ws = {} THEN 0 ELSE run.calls[t][CHOOSE i \in ws : \A j \in ws : j <= i].value
JustRead(t) == pc[t] = "idle" /\ Done(t) > 0 /\ run.calls[t][Done(t)].kind = "read" /\ got[t] # Nothing /\ up = "ready"

(* tile_read_bytes: a reader gets the reply to its own request, with what  *)
(* it wrote last, unless two readers have been waiting at once; through    *)
(* the device they never do.                                               *)
ReadsOwnCell ==
  /\ ~crossed => \A t \in RtlThread : JustRead(t) => got[t].of = t /\ got[t].value = WroteLast(t)
  /\ crossed => \E t \in RtlThread : \E i \in DOMAIN run.calls[t] : run.calls[t][i].via = "window"

(* Host memory: the simulator's writes made before it answered a read are  *)
(* in host memory when the reader has the answer, and the reads of host    *)
(* memory are answered in order, each with the writes made before it.      *)
HostMemoryOrdered ==
  /\ run.callbacks => \A t \in RtlThread : got[t].writes <= sysmem
  /\ \A i \in DOMAIN answered : \E k \in DOMAIN run.notes :
       Answers(run.notes[k]) /\ ReadsTo(k) = i /\ answered[i] = IF run.callbacks THEN WritesTo(k) ELSE 0

(* ALL, asserted on tile k or on none: asserting it on another tile leaves *)
(* the cores of k running under an uncore in reset.                        *)
OnlyAll == \A t \in RtlThread : \A i \in DOMAIN run.calls[t] :
  LET op == run.calls[t][i] IN op.kind = "reset" => op.sel = {"all"} /\ run.arch = "QUASAR"
Lone(k) == \A t \in RtlThread : \A i \in DOMAIN run.calls[t] :
  LET op == run.calls[t][i] IN op.kind = "reset" /\ op.assert => op.tile = k

(* The flags that count alone, and those a Quasar is sent nothing for.     *)
Whole == {"all", "uncores", "uncore"}
Ignored == {"alltriscs", "alldms"}
Plain(sel) == (\A flag \in Whole : flag \in sel => sel = {flag}) /\ \A flag \in Ignored : flag \notin sel
Selected(sel, tile, k, core) ==
  \/ core = "uncore" /\ sel \in {{"all"}, {"uncores"}}
  \/ k = tile /\ (sel = {"all"} \/ core \in sel \/ (core = "tensix" /\ "triscs" \in sel))

(* Resets of ALL on several tiles by several threads at once: no Tensix    *)
(* runs beside data movement cores in reset, and, where ALL is asserted on *)
(* no other tile, no core under an uncore in reset.  And a reset reaches   *)
(* the cores that were selected, on no other tile but by way of their      *)
(* uncores, unless ALL or an uncore flag is selected together with others, *)
(* or a flag for which nothing is sent.                                    *)
ResetOrdered ==
  /\ OnlyAll => \A k \in RtlTile :
       /\ Lone(k) /\ "uncore" \in held[k] => Dms \subseteq held[k]
       /\ Dms \cap held[k] # {} => "tensix" \in held[k]
  /\ \A t \in RtlThread : \A i \in 1 .. Done(t) :
       LET op == run.calls[t][i]
       IN op.kind = "reset" /\ run.arch = "QUASAR" /\ Plain(op.sel) =>
            \A k \in RtlTile : \A core \in RtlCores :
              core \in Reached(ResetCommands(run.arch, op.sel, op.assert), op.tile, k) <=> Selected(op.sel, op.tile, k, core)

(* Every call ends, also when the handler is shut down under it, unless    *)
(* shutdown()'s notify_all was missed; and shutdown() itself ends.         *)
RtlCallsEnd ==
  /\ \A t \in RtlThread : pc[t] # "idle" ~> (pc[t] = "idle" \/ missed)
  /\ up = "stopping" ~> up = "down"
=============================================================================
