------------------------------ MODULE KmdMutex ------------------------------
(***************************************************************************)
(* The second cross-process lock of device/utils: KmdMutex, a lock bit of  *)
(* the kernel driver that belongs to an open handle of the device.  One    *)
(* lock index of one device is modelled, with any number of KmdMutex       *)
(* objects for it in any number of processes.  Every ioctl, open and close *)
(* is a step of its own.  A device reset makes every open handle answer    *)
(* ENODEV, but leaves the lock with the handle that has it until that      *)
(* handle is closed; while the reset runs, the device cannot be opened.    *)
(***************************************************************************)
EXTENDS Naturals

CONSTANTS
  KmdProcess,    \* operating system processes
  KmdObject,     \* KmdMutex objects
  KmdThread,     \* threads that use them
  KmdProcessOf,  \* [KmdObject -> KmdProcess]
  KmdPlacements, \* a set of [KmdThread -> KmdObject]: who shares an object
  NoHandle,      \* stands for "no handle"
  MaxResets      \* bound on the device resets of a behaviour

ASSUME KmdPlacement ==
  /\ KmdProcessOf \in [KmdObject -> KmdProcess]
  /\ KmdPlacements \subseteq [KmdThread -> KmdObject]
  /\ NoHandle \notin KmdObject \cup KmdProcess
  /\ KmdObject \cap KmdProcess = {}
  /\ MaxResets \in Nat

VARIABLES
  device,   \* device_ of each object: none, usable, or open across a reset
  holder,   \* what KMD has the lock recorded against: the handle of an object,
            \* a handle a process has leaked (then the process), or NoHandle
  uses,     \* the object through which a thread reaches the lock
  call,     \* the call a thread is in
  at,       \* where in the call it is
  present,  \* /dev/tenstorrent/<N> can be opened
  resets    \* resets so far

kmdVars == <<device, holder, uses, call, at, present, resets>>

KmdTypeOK ==
  /\ device \in [KmdObject -> {"none", "open", "stale"}]
  /\ holder \in KmdObject \cup KmdProcess \cup {NoHandle}
  /\ uses \in [KmdThread -> KmdObject]
  /\ call \in [KmdThread -> {"none", "lock", "probe_lock", "try_lock", "unlock"}]
  /\ at \in [KmdThread -> {"out", "held", "ioctl", "close", "open", "retry"}]
  /\ present \in BOOLEAN
  /\ resets \in 0..MaxResets

KmdInit ==
  /\ device = [o \in KmdObject |-> "none"]
  /\ holder = NoHandle
  /\ uses \in KmdPlacements
  /\ call = [t \in KmdThread |-> "none"]
  /\ at = [t \in KmdThread |-> "out"]
  /\ present = TRUE
  /\ resets = 0

KmdProc(t) == KmdProcessOf[uses[t]]

(* Where thread t goes, staying in its call, and how it leaves the call.   *)
Proceed(t, label) == at' = [at EXCEPT ![t] = label] /\ call' = call
Leave(t, label) ==
  at' = [at EXCEPT ![t] = label] /\ call' = [call EXCEPT ![t] = "none"]

(* tt_device_open into device_: the handle that was there, if any, stays   *)
(* open with nothing referring to it, and so does a lock recorded on it.   *)
OpenDevice(o) ==
  /\ device' = [device EXCEPT ![o] = "open"]
  /\ holder' = IF holder = o THEN KmdProcessOf[o] ELSE holder

(* close_device: nothing without a handle; with one, KMD takes back the    *)
(* lock recorded on it, whichever thread took that lock.                   *)
CloseDevice(o) ==
  /\ device' = [device EXCEPT ![o] = "none"]
  /\ holder' = IF holder = o THEN NoHandle ELSE holder

-----------------------------------------------------------------------------
(* Mutant: initialize() opens the device again when it is open.            *)
KmdInitializeAgain(t) ==
  /\ at[t] \in {"out", "held"}
  /\ present
  /\ OpenDevice(uses[t])
  /\ UNCHANGED <<uses, call, at, present, resets>>

(* initialize() returns at once when the device is open, and throws when   *)
(* it cannot be opened; the owner of the lock may call it again.           *)
KmdInitialize(t) ==
  /\ at[t] \in {"out", "held"}
  /\ device[uses[t]] = "none"
  /\ present
  /\ OpenDevice(uses[t])
  /\ UNCHANGED <<uses, call, at, present, resets>>

(* lock(), probe_lock(), try_lock() and unlock() throw without a handle.   *)
KmdCall(t) ==
  /\ device[uses[t]] # "none"
  /\ \/ /\ at[t] = "out"
        /\ \E c \in {"lock", "probe_lock", "try_lock"} : call' = [call EXCEPT ![t] = c]
     \/ /\ at[t] = "held"
        /\ call' = [call EXCEPT ![t] = "unlock"]
  /\ at' = [at EXCEPT ![t] = "ioctl"]
  /\ UNCHANGED <<device, holder, uses, present, resets>>

(* tt_lock_acquire got the lock: the bit was clear.                        *)
TtLockAcquire(t) ==
  /\ at[t] \in {"ioctl", "retry"} /\ call[t] # "unlock"
  /\ device[uses[t]] = "open"
  /\ holder = NoHandle
  /\ holder' = uses[t]
  /\ Leave(t, "held")
  /\ UNCHANGED <<device, uses, present, resets>>

(* The bit was set, by whatever handle.  try_lock() returns false;         *)
(* lock() sleeps and tries again, so does probe_lock() until its deadline. *)
TtLockBusy(t) ==
  /\ at[t] \in {"ioctl", "retry"} /\ call[t] # "unlock"
  /\ device[uses[t]] = "open"
  /\ holder # NoHandle
  /\ \/ call[t] \in {"lock", "probe_lock"} /\ Proceed(t, "ioctl")
     \/ call[t] \in {"try_lock", "probe_lock"} /\ Leave(t, "out")
  /\ UNCHANGED <<device, holder, uses, present, resets>>

(* The handle was open across a reset.  The first ENODEV makes try_lock()  *)
(* and unlock() reopen the handle, a second one makes try_lock() throw.    *)
Enodev(t) ==
  /\ at[t] \in {"ioctl", "retry"}
  /\ device[uses[t]] = "stale"
  /\ IF at[t] = "ioctl" THEN Proceed(t, "close") ELSE Leave(t, "out")
  /\ UNCHANGED <<device, holder, uses, present, resets>>

(* Another thread has closed the shared handle: try_lock() and unlock()    *)
(* throw (device_ is null, or lock_ctl returns -EINVAL).                   *)
NoDevice(t) ==
  /\ at[t] \in {"ioctl", "retry"}
  /\ device[uses[t]] = "none"
  /\ Leave(t, "out")
  /\ UNCHANGED <<device, holder, uses, present, resets>>

(* Mutant: unlock() does not reopen the handle after ENODEV.               *)
CloseKeepsOnUnlock(t) ==
  /\ at[t] = "close"
  /\ IF call[t] = "unlock"
       THEN Leave(t, "out") /\ UNCHANGED <<device, holder>>
       ELSE CloseDevice(uses[t]) /\ Proceed(t, "open")
  /\ UNCHANGED <<uses, present, resets>>

(* close_device(), then open_device(), in try_lock() and reopen_device().  *)
KmdClose(t) ==
  /\ at[t] = "close"
  /\ CloseDevice(uses[t])
  /\ Proceed(t, "open")
  /\ UNCHANGED <<uses, present, resets>>

(* When the device cannot be opened, try_lock() throws; unlock() logs and  *)
(* returns.  Either way the object has no handle until initialize().       *)
KmdOpen(t) ==
  /\ at[t] = "open"
  /\ IF present THEN OpenDevice(uses[t]) ELSE UNCHANGED <<device, holder>>
  /\ IF present /\ call[t] # "unlock" THEN Proceed(t, "retry") ELSE Leave(t, "out")
  /\ UNCHANGED <<uses, present, resets>>

(* tt_lock_release: the lock is given back if this handle has it, also     *)
(* when another thread took it through this handle.                        *)
TtLockRelease(t) ==
  /\ at[t] = "ioctl" /\ call[t] = "unlock"
  /\ device[uses[t]] = "open"
  /\ holder' = IF holder = uses[t] THEN NoHandle ELSE holder
  /\ Leave(t, "out")
  /\ UNCHANGED <<device, uses, present, resets>>

(* is_locked_by_anyone(): TT_LOCK_STATE_HELD_BY_ANY, for a usable handle.  *)
IsLockedByAnyone(o) == device[o] = "open" /\ holder # NoHandle

-----------------------------------------------------------------------------
(* Objects are destroyed and moved between calls, not during one.          *)
BetweenCalls(o) == \A t \in KmdThread : uses[t] = o => at[t] \in {"out", "held"}

(* ~KmdMutex gives back the lock that is held through the object; what is  *)
(* left is a new object that initialize() has not been called on.          *)
KmdDestroy(o) ==
  /\ device[o] # "none"
  /\ BetweenCalls(o)
  /\ CloseDevice(o)
  /\ at' = [t \in KmdThread |-> IF uses[t] = o THEN "out" ELSE at[t]]
  /\ UNCHANGED <<uses, call, present, resets>>

(* Mutant: operator= does not clear other.device_, and the destructor of   *)
(* the moved-from object closes the handle.                                *)
KmdMoveAndClose(to, from) ==
  /\ to # from /\ KmdProcessOf[to] = KmdProcessOf[from]
  /\ BetweenCalls(from)
  /\ \A t \in KmdThread : uses[t] = to => at[t] = "out"
  /\ device' = [device EXCEPT ![to] = device[from], ![from] = "none"]
  /\ holder' = IF holder \in {to, from} THEN NoHandle ELSE holder
  /\ uses' = [t \in KmdThread |-> IF uses[t] = from THEN to ELSE uses[t]]
  /\ UNCHANGED <<call, at, present, resets>>

(* Move construction and assignment: the target closes its handle and      *)
(* takes over the other's, with the lock on it.  The threads that used the *)
(* source go on with the target; nobody holds the lock through the target. *)
KmdMove(to, from) ==
  /\ to # from /\ KmdProcessOf[to] = KmdProcessOf[from]
  /\ BetweenCalls(from)
  /\ \A t \in KmdThread : uses[t] = to => at[t] = "out"
  /\ device' = [device EXCEPT ![to] = device[from], ![from] = "none"]
  /\ holder' = CASE holder = to   -> NoHandle
                 [] holder = from -> to
                 [] OTHER         -> holder
  /\ uses' = [t \in KmdThread |-> CASE uses[t] = from -> to
                                    [] uses[t] = to -> from
                                    [] OTHER -> uses[t]]
  /\ UNCHANGED <<call, at, present, resets>>

(* A process dies and starts anew: the kernel closes its handles.          *)
KmdCrash(p) ==
  LET dies(t) == KmdProc(t) = p
  IN /\ \E t \in KmdThread : dies(t)
     /\ device' = [o \in KmdObject |-> IF KmdProcessOf[o] = p THEN "none" ELSE device[o]]
     /\ holder' = IF holder = p \/ (holder \in KmdObject /\ KmdProcessOf[holder] = p)
                    THEN NoHandle ELSE holder
     /\ call' = [t \in KmdThread |-> IF dies(t) THEN "none" ELSE call[t]]
     /\ at' = [t \in KmdThread |-> IF dies(t) THEN "out" ELSE at[t]]
     /\ UNCHANGED <<uses, present, resets>>

(* The device is reset, by anybody; then its node is back.                 *)
ResetStarts ==
  /\ present /\ resets < MaxResets
  /\ present' = FALSE
  /\ resets' = resets + 1
  /\ device' = [o \in KmdObject |-> IF device[o] = "open" THEN "stale" ELSE device[o]]
  /\ UNCHANGED <<holder, uses, call, at>>

ResetEnds ==
  /\ ~present
  /\ present' = TRUE
  /\ UNCHANGED <<device, holder, uses, call, at, resets>>

-----------------------------------------------------------------------------
KmdRunning(t) ==
  \/ TtLockAcquire(t) \/ TtLockBusy(t) \/ TtLockRelease(t)
  \/ Enodev(t) \/ NoDevice(t) \/ KmdClose(t) \/ KmdOpen(t)

KmdNext ==
  \/ \E t \in KmdThread : KmdInitialize(t) \/ KmdCall(t) \/ KmdRunning(t)
  \/ \E o \in KmdObject : KmdDestroy(o) \/ \E from \in KmdObject : KmdMove(o, from)
  \/ \E p \in KmdProcess : KmdCrash(p)
  \/ ResetStarts \/ ResetEnds

KmdSpec == KmdInit /\ [][KmdNext]_kmdVars

-----------------------------------------------------------------------------
(* Threads between the return of lock() and the end of unlock(); unlock()  *)
(* gives the lock back when it closes the handle.                          *)
KmdGranted ==
  {t \in KmdThread : at[t] = "held" \/ (call[t] = "unlock" /\ at[t] \in {"ioctl", "close"})}

(* Every thread has a KmdMutex of its own; moves keep it that way.         *)
OneObjectEach == \A t, u \in KmdThread : uses[t] = uses[u] => t = u

KmdAbstract ==
  INSTANCE AbstractLock
    WITH Thread <- KmdThread, holders <- IF OneObjectEach THEN KmdGranted ELSE {}

(* PROPERTY.  Threads that have a KmdMutex each, in one process or in      *)
(* several, exclude each other across resets, crashes, moves, destructions *)
(* and failed reopens.                                                     *)
KmdImplementsLock == KmdAbstract!Spec

(* INVARIANT.  Exactly the thread that has been granted the lock is behind *)
(* the handle KMD has it recorded against: the lock is not taken from its  *)
(* owner by a reset or by the reopening of a handle, and it is not left on *)
(* a handle nobody will ever close.  Whoever asks with a usable handle is  *)
(* told so.                                                                *)
KmdLockBacked ==
  /\ KmdTypeOK
  /\ OneObjectEach =>
       /\ \A t \in KmdGranted : holder = uses[t]
       /\ holder # NoHandle => \E t \in KmdGranted : holder = uses[t]
       /\ \A o \in KmdObject : device[o] = "open" => (IsLockedByAnyone(o) <=> KmdGranted # {})

(* PROPERTY.  kmd_mutex.hpp:75-76: a lock() that waits while the device is *)
(* reset reopens its handle and goes on: it gets the lock, throws because  *)
(* the device cannot be reopened, or finds a thread that has it.           *)
KmdServed ==
  \A t \in KmdThread :
    call[t] = "lock" /\ OneObjectEach ~> (call[t] # "lock" \/ KmdGranted # {})
=============================================================================
