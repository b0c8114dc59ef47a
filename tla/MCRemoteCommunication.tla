----------------------- MODULE MCRemoteCommunication -----------------------
(***************************************************************************)
(* Instances of RemoteCommunication.  Apart: every thread has an instance  *)
(* of its own (another process, or another remote chip).  Shared: the      *)
(* threads of one process use the same remote chip.  Two history variables *)
(* say what the promises of the code depend on: disturbed, once a read or  *)
(* write has timed out or died half way, and died, the threads whose       *)
(* process has died since they began to write.  A third, script, picks     *)
(* what the threads of a behaviour do, so that long calls, calls of both   *)
(* threads and deaths all happen but need not all happen together.         *)
(***************************************************************************)
EXTENDS RemoteCommunication, TLC

CONSTANTS t1, t2, i1, i2, Scripts

Apart == (t1 :> i1) @@ (t2 :> i2)
Shared == (t1 :> i1) @@ (t2 :> i1)

VARIABLES disturbed, died, script
mcVars == <<vars, disturbed, died>>

HalfWay(t) == pc[t] \in LockedLabels \ {"locked", "returning"}
Breaks == \E t \in Thread : HalfWay(t) /\ pc'[t] = "idle"

MCInit == Init /\ disturbed = FALSE /\ died = {}
Dies(i) ==
  /\ Crash(i)
  /\ disturbed' = (disturbed \/ Breaks)
  /\ died' = died \cup {t \in Thread : InstanceOf[t] = i}
Lives(A) == A /\ disturbed' = (disturbed \/ Breaks) /\ UNCHANGED died

MCNext ==
  \/ \E t \in Thread :
       Lives(StartTransfer(t) \/ RefuseBroadcast(t) \/ StartFlush(t) \/ Proceed(t))
  \/ \E i \in Instance : Dies(i)
  \/ \E c \in Core : Lives(Firmware(c))

Fairness == \A t \in Thread : WF_mcVars(Lives(Proceed(t)))

MCSpec == MCInit /\ [][MCNext]_mcVars /\ Fairness

-----------------------------------------------------------------------------
(* Behaviours by script: from has the request pointers at the beginning,   *)
(* call the blocks a call of each thread may have, types what calls do,    *)
(* deaths whether processes die.                                           *)

Script(from, first, second) ==
  [from |-> from, call |-> (t1 :> first) @@ (t2 :> second), total |-> MaxBlocks,
   types |-> {"read", "write"}, deaths |-> FALSE]

(* One thread fills a ring, finds it full and changes cores; two threads   *)
(* write into rings of several entries; two threads read and write and     *)
(* their processes die.                                                    *)
LongCalls(from) == Script(from, 3, 0)
BothWrite == [Script(2 * Size - 1, 2, 1) EXCEPT !.types = {"write"}]
BothDie == [Script(2 * Size - 1, 2, 2) EXCEPT !.total = 2, !.deaths = TRUE]
RunScripts == {LongCalls(0), LongCalls(2 * Size - 1), BothWrite, BothDie}
FlushScripts == {Script(0, 1, 1)}

Begins(t) == pc[t] = "idle" /\ pc'[t] = "locked"
RunNext ==
  /\ MCNext
  /\ \A t \in Thread : Begins(t) =>
       frame'[t].left <= script.call[t] /\ frame'[t].type \in script.types /\ issued' <= script.total
  /\ ~script.deaths => died' = died
  /\ UNCHANGED script

RunInit == MCInit /\ script \in Scripts /\ reqWptr = [c \in Core |-> script.from]
RunSpec == RunInit /\ [][RunNext]_<<mcVars, script>> /\ Fairness

-----------------------------------------------------------------------------

(* read_non_mmio delivers the data of the block it asked for, and a block  *)
(* write, which returns with its command pending, finds its data in its    *)
(* buffer when its core takes it: until a call has timed out or died and   *)
(* left a request or an answer in the rings.                               *)
TransfersIntactUntilDisturbed ==
  TypeOK /\ (~disturbed => ReadOwnData /\ PendingWriteIntact)

(* wait_for_non_mmio_flush: when it returns, all that the thread wrote     *)
(* since its process started has been acknowledged, also what calls wrote  *)
(* that timed out half way.                                                *)
FlushedSinceStart ==
  \A t \in Thread \ died : pc[t] = "flushed" => WritesDone(t)
=============================================================================
