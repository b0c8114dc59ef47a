--------------------------- MODULE MCRobustMutex ---------------------------
(***************************************************************************)
(* The instance of RobustMutex that TLC checks: two threads of one process *)
(* with an entry each, as with two LockManagers in one process, and a      *)
(* thread of another process.  With MidCall the destructor may fall into   *)
(* the window between pthread_mutex_lock and record_acquisition (or        *)
(* between unlock()'s bookkeeping and pthread_mutex_unlock), where         *)
(* close_mutex sees active_locks_ = 0 and unmaps a mutex a thread owns.    *)
(* The history variable torn records that this has happened: what the code *)
(* promises about recovery, it promises as long as it has not.             *)
(***************************************************************************)
EXTENDS RobustMutex, KmdMutex, TLC

CONSTANTS p1, p2, o1, o2, o3, t1, t2, t3

MCObjectOf == (t1 :> o1) @@ (t2 :> o2) @@ (t3 :> o3)
MCProcessOf == (o1 :> p1) @@ (o2 :> p1) @@ (o3 :> p2)

(* Two KmdMutex objects in one process, to move between, one in another.   *)
(* Two threads: of one process with an object each, of one process sharing *)
(* an object, or of two processes.                                         *)
OwnObjects == {(t1 :> o1) @@ (t2 :> o2), (t1 :> o1) @@ (t2 :> o3)}
SharedObject == {(t1 :> o1) @@ (t2 :> o1)}
AllPlacements == OwnObjects \cup SharedObject

VARIABLES
  torn,  \* close_mutex has unmapped a mutex in the middle of a call
  part   \* the lock this behaviour is about

robustVars == <<vars, torn>>
Remember == torn' = (torn \/ dangling')

RobustNext == part = "RobustMutex" /\ Next /\ Remember /\ UNCHANGED <<kmdVars, part>>
KernelNext == part = "KmdMutex" /\ KmdNext /\ UNCHANGED <<robustVars, part>>
FairRobust(t) ==
  part = "RobustMutex" /\ Running(t) /\ Remember /\ UNCHANGED <<kmdVars, part>>
FairKernel(t) == part = "KmdMutex" /\ KmdRunning(t) /\ UNCHANGED <<robustVars, part>>

(* The choices of the initial state are those of the lock it is about.     *)
MCInit ==
  /\ Init /\ torn = FALSE /\ KmdInit
  /\ part \in {"RobustMutex", "KmdMutex"}
  /\ part = "RobustMutex" => uses \in SharedObject
  /\ part = "KmdMutex" => file = "absent"
MCSpec ==
  /\ MCInit
  /\ [][RobustNext \/ KernelNext]_<<robustVars, kmdVars, part>>
  /\ \A t \in Thread : WF_<<robustVars, kmdVars, part>>(FairRobust(t))
  /\ \A t \in KmdThread : WF_<<robustVars, kmdVars, part>>(FairKernel(t))

(* Crash recovery: active_locks_ never goes below zero, and unless         *)
(* close_mutex unmapped a mutex in the middle of a lock() or unlock(), no  *)
(* crash, destruction or failed initialization leaves the mutex in a state *)
(* no later lock() can get out of: locked by a dead thread without         *)
(* OWNER_DIED, or ENOTRECOVERABLE.                                         *)
RecoverableUnlessTorn == TypeOK /\ (~torn => AlwaysRecoverable)

(* A thread blocked in lock() does not wait on a mutex nobody has: it gets *)
(* the mutex, or some live thread has it, also after crashes, unless       *)
(* close_mutex unmapped it in the middle of a call.                        *)
ServedUnlessTorn ==
  \A t \in Thread :
    pc[t] = "blocked" ~>
      (torn \/ pc[t] # "blocked" \/ \E u \in Thread : pc[u] \in Owning)

(* Both locks serve those who wait: RobustMutex.lock() as above, and a     *)
(* KmdMutex.lock() that is polling across resets.                          *)
LockersServed == ServedUnlessTorn /\ KmdServed
=============================================================================
