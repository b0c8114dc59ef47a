----------------------------- MODULE RobustMutex -----------------------------
(***************************************************************************)
(* The cross-process lock of device/utils: a robust pthread mutex in a     *)
(* /dev/shm file (RobustMutex), reached through the per-owner map of a     *)
(* LockManager.  One mutex name is modelled: one shared file, any number   *)
(* of LockManager entries (objects) for that name in any number of         *)
(* processes, and any number of threads per object.  Processes may crash   *)
(* at every step and start again.                                          *)
(***************************************************************************)
EXTENDS Integers

CONSTANTS
  Process,     \* operating system processes
  Object,      \* LockManager entries for the one mutex name
  Thread,      \* threads that use the entries
  ProcessOf,   \* [Object -> Process]
  ObjectOf,    \* [Thread -> Object]
  Nobody,      \* stands for "no thread"
  MidCall      \* TRUE: an entry may be destroyed while one of its threads is
               \* between a pthread call and the bookkeeping that goes with it

ASSUME PlacementAssumption ==
  /\ ProcessOf \in [Object -> Process]
  /\ ObjectOf \in [Thread -> Object]
  /\ Nobody \notin Thread
  /\ MidCall \in BOOLEAN

VARIABLES
  file,        \* size of the shm file: none, 0, another layout's, ours
  initialized, \* pthread_mutex_wrapper.initialized = INITIALIZED_FLAG
  mutex,       \* state of the pthread mutex in the file
  owner,       \* thread the pthread mutex belongs to
  ownerId,     \* pthread_mutex_wrapper.owner_tid / owner_pid
  dangling,    \* the owner's robust-list entry points at unmapped memory
  flock,       \* thread that has the exclusive flock on the file
  multithread, \* RobustMutex::multithread_mutex_ of each process
  entry,       \* LockManager::mutexes[name] of each object
  active,      \* RobustMutex::active_locks_
  gone,        \* the entry a thread locked through has been destroyed since
  pc           \* where each thread is

sharedVars == <<file, initialized, mutex, owner, ownerId, dangling>>
guardVars == <<flock, multithread>>
objectVars == <<entry, active, gone>>
vars == <<sharedVars, guardVars, objectVars, pc>>

ThreadsOf(o) == {t \in Thread : ObjectOf[t] = o}
Proc(t) == ProcessOf[ObjectOf[t]]
Goto(t, label) == pc' = [pc EXCEPT ![t] = label]

InitLabels == {"opened", "flocked", "critical", "resized", "initing",
               "inited", "flagged", "leaving", "unlocking"}
LockLabels == {"probing", "trying", "blocked", "recovering", "acquired",
               "held", "releasing"}
Labels == {"idle", "segv"} \cup InitLabels \cup LockLabels

(* Threads that own the pthread mutex, from the call that gave it to them  *)
(* to the call that gives it back.                                         *)
Owning == {"recovering", "acquired", "held", "releasing"}
(* Threads whose lock() or probe_lock() has returned: the code that uses   *)
(* the lock runs in "held"; "releasing" is inside unlock().                *)
Granted == {"held", "releasing"}

TypeOK ==
  /\ file \in {"absent", "empty", "foreign", "sized"}
  /\ initialized \in BOOLEAN
  /\ mutex \in {"raw", "free", "held", "inconsistent", "died", "orphaned",
                "notrecoverable"}
  /\ owner \in Thread \cup {Nobody}
  /\ ownerId \in Thread \cup {Nobody}
  /\ dangling \in BOOLEAN
  /\ flock \in Thread \cup {Nobody}
  /\ multithread \in [Process -> Thread \cup {Nobody}]
  /\ entry \in [Object -> {"absent", "building", "ready", "broken"}]
  /\ active \in [Object -> Nat]
  /\ gone \in [Thread -> BOOLEAN]
  /\ pc \in [Thread -> Labels]

(* The file may be new, or left behind by a driver with another layout of  *)
(* pthread_mutex_t; the states left by a crashed initialization are        *)
(* reached through Crash.                                                  *)
Init ==
  /\ file \in {"absent", "foreign"}
  /\ initialized = FALSE
  /\ mutex = "raw"
  /\ owner = Nobody
  /\ ownerId = Nobody
  /\ dangling = FALSE
  /\ flock = Nobody
  /\ multithread = [p \in Process |-> Nobody]
  /\ entry = [o \in Object |-> "absent"]
  /\ active = [o \in Object |-> 0]
  /\ gone = [t \in Thread |-> FALSE]
  /\ pc = [t \in Thread |-> "idle"]

-----------------------------------------------------------------------------
(* LockManager::initialize_mutex and RobustMutex::initialize               *)

(* The entry is emplaced, then shm_open creates the file or opens it.  An  *)
(* entry that is already there makes initialize_mutex return at once.      *)
InitializeMutex(t) ==
  /\ pc[t] = "idle"
  /\ entry[ObjectOf[t]] = "absent"
  /\ entry' = [entry EXCEPT ![ObjectOf[t]] = "building"]
  /\ file' = IF file = "absent" THEN "empty" ELSE file
  /\ Goto(t, "opened")
  /\ UNCHANGED <<initialized, mutex, owner, ownerId, dangling, guardVars, active, gone>>

(* Mutant: initialize() without the wait for another initializer's flock.  *)
TakeFlockUnguarded(t) ==
  /\ pc[t] = "opened"
  /\ flock' = t
  /\ Goto(t, "flocked")
  /\ UNCHANGED <<sharedVars, multithread, objectVars>>

(* CriticalSectionScopeGuard: flock first.  Every object opens the file    *)
(* anew, so flock keeps threads of one process apart too, and the thread   *)
(* that runs initialize() is the only user of its file descriptor.         *)
TakeFlock(t) ==
  /\ pc[t] = "opened"
  /\ flock = Nobody
  /\ flock' = t
  /\ Goto(t, "flocked")
  /\ UNCHANGED <<sharedVars, multithread, objectVars>>

(* CriticalSectionScopeGuard: then the process-wide pthread mutex.         *)
TakeMultithreadMutex(t) ==
  /\ pc[t] = "flocked"
  /\ multithread[Proc(t)] = Nobody
  /\ multithread' = [multithread EXCEPT ![Proc(t)] = t]
  /\ Goto(t, "critical")
  /\ UNCHANGED <<sharedVars, flock, objectVars>>

ResizeShmFile(t) ==
  /\ pc[t] = "critical"
  /\ file' = "sized"
  /\ Goto(t, "resized")
  /\ UNCHANGED <<initialized, mutex, owner, ownerId, dangling, guardVars, objectVars>>

(* Mutant: initialize() does not look at the initialized flag.             *)
OpenPthreadMutexUnchecked(t) ==
  /\ pc[t] = "resized"
  /\ Goto(t, "initing")
  /\ UNCHANGED <<sharedVars, guardVars, objectVars>>

(* mmap, then the test of the initialized flag.                            *)
OpenPthreadMutex(t) ==
  /\ pc[t] = "resized"
  /\ Goto(t, IF initialized THEN "leaving" ELSE "initing")
  /\ UNCHANGED <<sharedVars, guardVars, objectVars>>

(* initialize_pthread_mutex_first_use: pthread_mutex_init makes the mutex  *)
(* free whatever it was before, then the flag is set, then the owner       *)
(* fields are cleared.  A crash can fall between any two of these.         *)
PthreadMutexInit(t) ==
  /\ pc[t] = "initing"
  /\ mutex' = "free"
  /\ owner' = Nobody
  /\ Goto(t, "inited")
  /\ UNCHANGED <<file, initialized, ownerId, dangling, guardVars, objectVars>>

SetInitializedFlag(t) ==
  /\ pc[t] = "inited"
  /\ initialized' = TRUE
  /\ Goto(t, "flagged")
  /\ UNCHANGED <<file, mutex, owner, ownerId, dangling, guardVars, objectVars>>

ClearOwnerFields(t) ==
  /\ pc[t] = "flagged"
  /\ ownerId' = Nobody
  /\ Goto(t, "leaving")
  /\ UNCHANGED <<file, initialized, mutex, owner, dangling, guardVars, objectVars>>

(* ~CriticalSectionScopeGuard: the pthread mutex, then the flock.          *)
LeaveMultithreadMutex(t) ==
  /\ pc[t] = "leaving"
  /\ multithread' = [multithread EXCEPT ![Proc(t)] = Nobody]
  /\ Goto(t, "unlocking")
  /\ UNCHANGED <<sharedVars, flock, objectVars>>

LeaveFlock(t) ==
  /\ pc[t] = "unlocking"
  /\ flock' = Nobody
  /\ entry' = [entry EXCEPT ![ObjectOf[t]] = IF @ = "building" THEN "ready" ELSE @]
  /\ Goto(t, "idle")
  /\ UNCHANGED <<sharedVars, multithread, active, gone>>

(* shm_open, flock, fstat/ftruncate or mmap fails and initialize() throws. *)
(* The guard's destructor still runs; the entry stays in the map.          *)
InitializeThrows(t) ==
  /\ pc[t] \in {"opened", "critical", "resized"}
  /\ entry' = [entry EXCEPT ![ObjectOf[t]] = "broken"]
  /\ Goto(t, IF pc[t] = "opened" THEN "idle" ELSE "leaving")
  /\ UNCHANGED <<sharedVars, guardVars, active, gone>>

-----------------------------------------------------------------------------
(* LockManager::acquire_mutex, RobustMutex::lock, probe_lock, unlock       *)

(* acquire_mutex throws when the map has no entry; an entry whose          *)
(* initialization threw has a null mutex_wrapper_ptr_, and lock()          *)
(* dereferences it.                                                        *)
Lock(t) ==
  /\ pc[t] = "idle"
  /\ \/ entry[ObjectOf[t]] = "ready"  /\ Goto(t, "probing")
     \/ entry[ObjectOf[t]] = "broken" /\ Goto(t, "segv")
  /\ UNCHANGED <<sharedVars, guardVars, objectVars>>

(* probe_lock(timeout) called directly: gives up instead of blocking.      *)
ProbeLock(t) ==
  /\ pc[t] = "idle"
  /\ entry[ObjectOf[t]] = "ready"
  /\ Goto(t, "trying")
  /\ UNCHANGED <<sharedVars, guardVars, objectVars>>

(* Mutant: EOWNERDEAD is taken for success, without making it consistent.  *)
PthreadLockIgnoresDeath(t) ==
  /\ pc[t] \in {"probing", "trying", "blocked"}
  /\ mutex \in {"free", "died"}
  /\ mutex' = IF mutex = "free" THEN "held" ELSE "inconsistent"
  /\ Goto(t, "acquired")
  /\ owner' = t
  /\ dangling' = FALSE
  /\ gone' = [gone EXCEPT ![t] = FALSE]
  /\ UNCHANGED <<file, initialized, ownerId, guardVars, entry, active>>

(* trylock, timedlock or lock returns 0 or EOWNERDEAD.                     *)
PthreadLock(t) ==
  /\ pc[t] \in {"probing", "trying", "blocked"}
  /\ mutex \in {"free", "died"}
  /\ mutex' = IF mutex = "free" THEN "held" ELSE "inconsistent"
  /\ Goto(t, IF mutex = "free" THEN "acquired" ELSE "recovering")
  /\ owner' = t
  /\ dangling' = FALSE
  /\ gone' = [gone EXCEPT ![t] = FALSE]
  /\ UNCHANGED <<file, initialized, ownerId, guardVars, entry, active>>

(* EBUSY or ETIMEDOUT: lock() blocks for good, probe_lock() returns a      *)
(* snapshot of the owner.  ENOTRECOVERABLE throws in both.                 *)
ProbeFails(t) ==
  /\ pc[t] \in {"probing", "trying"} \/ (pc[t] = "blocked" /\ mutex = "notrecoverable")
  /\ mutex \notin {"free", "died"}
  /\ Goto(t, IF pc[t] = "probing" /\ mutex # "notrecoverable" THEN "blocked" ELSE "idle")
  /\ UNCHANGED <<sharedVars, guardVars, objectVars>>

(* Mutant: the recovery branch of probe_lock does not record the owner.    *)
PthreadMutexConsistentUnrecorded(t) ==
  /\ pc[t] = "recovering"
  /\ ~dangling
  /\ mutex' = "held"
  /\ Goto(t, "held")
  /\ UNCHANGED <<file, initialized, owner, ownerId, dangling, guardVars, objectVars>>

PthreadMutexConsistent(t) ==
  /\ pc[t] = "recovering"
  /\ ~dangling
  /\ mutex' = "held"
  /\ Goto(t, "acquired")
  /\ UNCHANGED <<file, initialized, owner, ownerId, dangling, guardVars, objectVars>>

Count(t, n) == IF gone[t] THEN active ELSE [active EXCEPT ![ObjectOf[t]] = @ + n]

(* Mutant: record_acquisition stores the owner and does not count it.      *)
RecordAcquisitionUncounted(t) ==
  /\ pc[t] = "acquired"
  /\ ~dangling
  /\ ownerId' = t
  /\ Goto(t, "held")
  /\ UNCHANGED <<file, initialized, mutex, owner, dangling, guardVars, objectVars>>

RecordAcquisition(t) ==
  /\ pc[t] = "acquired"
  /\ ~dangling
  /\ ownerId' = t
  /\ active' = Count(t, 1)
  /\ Goto(t, "held")
  /\ UNCHANGED <<file, initialized, mutex, owner, dangling, guardVars, entry, gone>>

(* unlock() clears the owner fields and the count before it releases.      *)
UnlockClearsOwner(t) ==
  /\ pc[t] = "held"
  /\ ~dangling
  /\ ownerId' = Nobody
  /\ active' = Count(t, -1)
  /\ Goto(t, "releasing")
  /\ UNCHANGED <<file, initialized, mutex, owner, dangling, guardVars, entry, gone>>

(* Mutant: unlock() returns without pthread_mutex_unlock.                  *)
UnlockReleasesNothing(t) ==
  /\ pc[t] = "releasing"
  /\ ~dangling
  /\ Goto(t, "idle")
  /\ UNCHANGED <<sharedVars, guardVars, objectVars>>

(* pthread_mutex_unlock; on a mutex that was never made consistent it      *)
(* leaves the mutex unusable for everyone.                                 *)
UnlockReleases(t) ==
  /\ pc[t] = "releasing"
  /\ ~dangling
  /\ mutex' = IF mutex = "inconsistent" THEN "notrecoverable" ELSE "free"
  /\ owner' = Nobody
  /\ Goto(t, "idle")
  /\ UNCHANGED <<file, initialized, ownerId, dangling, guardVars, objectVars>>

(* The owner touches the wrapper after its mapping is gone.                *)
TouchUnmapped(t) ==
  /\ pc[t] \in Owning
  /\ dangling
  /\ Goto(t, "segv")
  /\ UNCHANGED <<sharedVars, guardVars, objectVars>>

-----------------------------------------------------------------------------
(* LockManager::clear_mutex, RobustMutex::~RobustMutex, process death      *)

(* Threads that use the lock are stopped before it is destroyed, except    *)
(* that a thread may still hold it; MidCall also lets the destructor fall  *)
(* between a pthread call and the active_locks_ update next to it.         *)
Quiet == {"idle", "held"} \cup
         (IF MidCall THEN {"recovering", "acquired", "releasing"} ELSE {})

(* close_mutex: a mutex this process holds keeps its mapping (it leaks),   *)
(* any other is unmapped.                                                  *)
ClearMutex(o) ==
  /\ entry[o] \in {"ready", "broken"}
  /\ \A t \in ThreadsOf(o) : pc[t] \in Quiet
  /\ entry' = [entry EXCEPT ![o] = "absent"]
  /\ dangling' = (dangling \/ (active[o] = 0 /\ owner \in ThreadsOf(o) /\ ~gone[owner]))
  /\ active' = [active EXCEPT ![o] = 0]
  /\ gone' = [t \in Thread |-> gone[t] \/ (ObjectOf[t] = o /\ pc[t] \in Owning)]
  /\ UNCHANGED <<file, initialized, mutex, owner, ownerId, guardVars, pc>>

(* The process dies: the kernel drops its flock, its private memory and    *)
(* its mappings, and walks the robust list of its threads.  A list entry   *)
(* that is still mapped turns the mutex over to the next locker; one that  *)
(* is not leaves it locked by nobody.  The process may then start anew.    *)
Crash(p) ==
  LET dies(t) == t \in Thread /\ Proc(t) = p
  IN /\ \E t \in Thread : dies(t)
     /\ pc' = [t \in Thread |-> IF dies(t) THEN "idle" ELSE pc[t]]
     /\ gone' = [t \in Thread |-> ~dies(t) /\ gone[t]]
     /\ entry' = [o \in Object |-> IF ProcessOf[o] = p THEN "absent" ELSE entry[o]]
     /\ active' = [o \in Object |-> IF ProcessOf[o] = p THEN 0 ELSE active[o]]
     /\ flock' = IF dies(flock) THEN Nobody ELSE flock
     /\ multithread' = [multithread EXCEPT ![p] = Nobody]
     /\ IF dies(owner)
          THEN /\ mutex' = IF dangling THEN "orphaned" ELSE "died"
               /\ owner' = Nobody
               /\ dangling' = FALSE
          ELSE UNCHANGED <<mutex, owner, dangling>>
     /\ UNCHANGED <<file, initialized, ownerId>>

-----------------------------------------------------------------------------
(* Steps a thread takes once it is inside initialize(), lock() or unlock().*)
Running(t) ==
  \/ TakeFlock(t) \/ TakeMultithreadMutex(t) \/ ResizeShmFile(t)
  \/ OpenPthreadMutex(t) \/ PthreadMutexInit(t) \/ SetInitializedFlag(t)
  \/ ClearOwnerFields(t) \/ LeaveMultithreadMutex(t) \/ LeaveFlock(t)
  \/ PthreadLock(t) \/ ProbeFails(t) \/ PthreadMutexConsistent(t)
  \/ RecordAcquisition(t) \/ UnlockReleases(t)

Next ==
  \/ \E t \in Thread :
       \/ Running(t)
       \/ InitializeMutex(t) \/ InitializeThrows(t)
       \/ Lock(t) \/ ProbeLock(t) \/ UnlockClearsOwner(t) \/ TouchUnmapped(t)
  \/ \E o \in Object : ClearMutex(o)
  \/ \E p \in Process : Crash(p)

Spec == Init /\ [][Next]_vars

(* The scheduler runs every thread that is inside a call; nothing forces a *)
(* client to start a call, to unlock, or a process to crash.               *)
FairSpec == Spec /\ \A t \in Thread : WF_vars(Running(t))

-----------------------------------------------------------------------------
(* The lock as its users see it: RobustMutex implements AbstractLock, with *)
(* the threads whose lock() or probe_lock() has returned as the holders.   *)
Abstract == INSTANCE AbstractLock WITH holders <- {t \in Thread : pc[t] \in Granted}

(* PROPERTY.  Whatever the order of initializations, locks, unlocks,       *)
(* destructions and crashes, threads are granted the mutex one at a time   *)
(* (lock, probe_lock and unlock refine the abstract lock).                 *)
ImplementsAbstractLock == Abstract!Spec

(* Two threads never both run between lock() and the end of unlock().      *)
MutualExclusion ==
  \A t, u \in Thread : pc[t] \in Granted /\ pc[u] \in Granted => t = u

(* initialize(): pthread_mutex_init never runs on a mutex some thread is   *)
(* locking, holding or unlocking, and nobody locks a mutex before the      *)
(* initialized flag is up, even when initializers of several processes     *)
(* race or die half way.                                                   *)
InitBeforeUse ==
  (\E t \in Thread : pc[t] \in LockLabels)
    => initialized /\ \A u \in Thread : pc[u] \notin {"initing", "inited"}

(* record_acquisition/unlock: while a thread holds the mutex, the owner    *)
(* fields that a contending probe_lock reports name that thread.           *)
OwnerRecorded == \A t \in Thread : pc[t] = "held" => ownerId = t

(* Crash recovery: a mutex is never left in a state no later lock() can    *)
(* get out of, neither locked by a dead thread without OWNER_DIED (what    *)
(* close_mutex leaks the mapping for) nor ENOTRECOVERABLE.                 *)
AlwaysRecoverable == mutex \notin {"orphaned", "notrecoverable"}
=============================================================================
