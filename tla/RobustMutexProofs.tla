-------------------------- MODULE RobustMutexProofs --------------------------
(***************************************************************************)
(* Proofs about RobustMutex, for any number of processes, entries and      *)
(* threads, however the threads are spread over the entries.  The main     *)
(* invariant Inv ties the program counters to the owner of the pthread     *)
(* mutex (OwnerInv), to the initialization critical section (InitInv) and  *)
(* to the active_locks_ counts (ActiveInv); RecoverInv adds what holds     *)
(* until a mapping is pulled from under an owner.                          *)
(***************************************************************************)
EXTENDS MCRobustMutex, TLAPS

(* A thread past its pthread lock call is the owner the mutex knows, and a *)
(* mutex that can be taken has no owner.                                   *)
OwnerInv ==
  /\ \A t \in Thread : pc[t] \in Owning => owner = t
  /\ mutex \in {"raw", "free", "died"} => owner = Nobody
  /\ \A t \in Thread : pc[t] = "held" => ownerId = t

(* The critical section of initialize() and what its end stands for: the   *)
(* flag is up before any entry is ready, and no entry is ready while the   *)
(* first initializer is still between the flag test and its last store.    *)
Guarded == {"flocked", "critical", "resized", "initing", "inited", "flagged",
            "leaving", "unlocking"}
FirstUse == {"initing", "inited", "flagged"}
Unused ==
  /\ owner = Nobody
  /\ \A t \in Thread : pc[t] \notin LockLabels
  /\ \A o \in Object : entry[o] # "ready"

InitInv ==
  /\ \A t \in Thread : pc[t] \in Guarded => flock = t
  /\ \A t \in Thread : pc[t] \in InitLabels => entry[ObjectOf[t]] # "absent"
  /\ \A t \in Thread : pc[t] \in {"initing", "inited"} => ~initialized
  /\ \A t \in Thread : pc[t] = "flagged" => initialized
  /\ \A t \in Thread :
       pc[t] \in {"leaving", "unlocking"} /\ entry[ObjectOf[t]] = "building"
         => initialized
  /\ ~initialized => Unused
  /\ (\E t \in Thread : pc[t] \in FirstUse) => Unused

ActiveInv ==
  \A t \in Thread : pc[t] = "held" /\ ~gone[t] => active[ObjectOf[t]] > 0

Inv == TypeOK /\ OwnerInv /\ InitInv /\ ActiveInv

(* As long as no mapping was pulled from under an owner, a death is always *)
(* announced and always recovered.                                         *)
RecoverInv ==
  /\ ~dangling
  /\ mutex \notin {"orphaned", "notrecoverable"}
  /\ \A t \in Thread : owner = t => pc[t] \in Owning
  /\ mutex = "inconsistent" => \A t \in Thread : owner = t => pc[t] = "recovering"

USE PlacementAssumption DEF Goto, sharedVars, guardVars, objectVars

(* Init establishes the invariant.                                         *)
LEMMA InitInvariant == Init => Inv
<1> SUFFICES ASSUME Init PROVE Inv
  OBVIOUS
<1>1. TypeOK
  BY DEF Init, TypeOK, Labels
<1>2. OwnerInv
  BY DEF Init, OwnerInv, Owning
<1>3. InitInv
  BY DEF Init, InitInv, Guarded, FirstUse, Unused, InitLabels, LockLabels
<1>4. ActiveInv
  BY DEF Init, ActiveInv
<1> QED
  BY <1>1, <1>2, <1>3, <1>4 DEF Inv

(* Every step of a thread preserves the invariant: one step per action,    *)
(* one substep per part of the invariant.                                  *)
LEMMA ThreadInvariant ==
  ASSUME Inv, NEW t \in Thread,
         \/ Running(t) \/ InitializeMutex(t) \/ InitializeThrows(t)
         \/ Lock(t) \/ ProbeLock(t) \/ UnlockClearsOwner(t) \/ TouchUnmapped(t)
  PROVE  Inv'
<1> USE DEF Inv, TypeOK, Owning, LockLabels
<1>1. CASE InitializeMutex(t)
  <2>1. TypeOK'
    BY <1>1 DEF InitializeMutex, InitLabels, Labels
  <2>2. OwnerInv'
    BY <1>1 DEF InitializeMutex, OwnerInv
  <2>3. InitInv'
    BY <1>1 DEF InitializeMutex, OwnerInv, InitInv, Unused, FirstUse, Guarded, InitLabels
  <2>4. ActiveInv'
    BY <1>1 DEF InitializeMutex, ActiveInv
  <2> QED
    BY <2>1, <2>2, <2>3, <2>4
<1>2. CASE TakeFlock(t)
  <2>1. TypeOK'
    BY <1>2 DEF TakeFlock, InitLabels, Labels
  <2>2. OwnerInv'
    BY <1>2 DEF TakeFlock, OwnerInv
  <2>3. InitInv'
    BY <1>2 DEF TakeFlock, OwnerInv, InitInv, Unused, FirstUse, Guarded, InitLabels
  <2>4. ActiveInv'
    BY <1>2 DEF TakeFlock, ActiveInv
  <2> QED
    BY <2>1, <2>2, <2>3, <2>4
<1>3. CASE TakeMultithreadMutex(t)
  <2>1. TypeOK'
    BY <1>3 DEF TakeMultithreadMutex, InitLabels, Labels
  <2>2. OwnerInv'
    BY <1>3 DEF TakeMultithreadMutex, OwnerInv
  <2>3. InitInv'
    BY <1>3 DEF TakeMultithreadMutex, OwnerInv, InitInv, Unused, FirstUse, Guarded, InitLabels
  <2>4. ActiveInv'
    BY <1>3 DEF TakeMultithreadMutex, ActiveInv
  <2> QED
    BY <2>1, <2>2, <2>3, <2>4
<1>4. CASE ResizeShmFile(t)
  <2>1. TypeOK'
    BY <1>4 DEF ResizeShmFile, InitLabels, Labels
  <2>2. OwnerInv'
    BY <1>4 DEF ResizeShmFile, OwnerInv
  <2>3. InitInv'
    BY <1>4 DEF ResizeShmFile, OwnerInv, InitInv, Unused, FirstUse, Guarded, InitLabels
  <2>4. ActiveInv'
    BY <1>4 DEF ResizeShmFile, ActiveInv
  <2> QED
    BY <2>1, <2>2, <2>3, <2>4
<1>5. CASE OpenPthreadMutex(t)
  <2>1. TypeOK'
    BY <1>5 DEF OpenPthreadMutex, InitLabels, Labels
  <2>2. OwnerInv'
    BY <1>5 DEF OpenPthreadMutex, OwnerInv
  <2>3. InitInv'
    BY <1>5 DEF OpenPthreadMutex, OwnerInv, InitInv, Unused, FirstUse, Guarded, InitLabels
  <2>4. ActiveInv'
    BY <1>5 DEF OpenPthreadMutex, ActiveInv
  <2> QED
    BY <2>1, <2>2, <2>3, <2>4
<1>6. CASE PthreadMutexInit(t)
  <2>1. TypeOK'
    BY <1>6 DEF PthreadMutexInit, InitLabels, Labels
  <2>2. OwnerInv'
    BY <1>6 DEF PthreadMutexInit, OwnerInv, InitInv, Unused, FirstUse
  <2>3. InitInv'
    BY <1>6 DEF PthreadMutexInit, OwnerInv, InitInv, Unused, FirstUse, Guarded, InitLabels
  <2>4. ActiveInv'
    BY <1>6 DEF PthreadMutexInit, ActiveInv
  <2> QED
    BY <2>1, <2>2, <2>3, <2>4
<1>7. CASE SetInitializedFlag(t)
  <2>1. TypeOK'
    BY <1>7 DEF SetInitializedFlag, InitLabels, Labels
  <2>2. OwnerInv'
    BY <1>7 DEF SetInitializedFlag, OwnerInv
  <2>3. InitInv'
    BY <1>7 DEF SetInitializedFlag, OwnerInv, InitInv, Unused, FirstUse, Guarded, InitLabels
  <2>4. ActiveInv'
    BY <1>7 DEF SetInitializedFlag, ActiveInv
  <2> QED
    BY <2>1, <2>2, <2>3, <2>4
<1>8. CASE ClearOwnerFields(t)
  <2>1. TypeOK'
    BY <1>8 DEF ClearOwnerFields, InitLabels, Labels
  <2>2. OwnerInv'
    BY <1>8 DEF ClearOwnerFields, OwnerInv, InitInv, Unused, FirstUse
  <2>3. InitInv'
    BY <1>8 DEF ClearOwnerFields, OwnerInv, InitInv, Unused, FirstUse, Guarded, InitLabels
  <2>4. ActiveInv'
    BY <1>8 DEF ClearOwnerFields, ActiveInv
  <2> QED
    BY <2>1, <2>2, <2>3, <2>4
<1>9. CASE LeaveMultithreadMutex(t)
  <2>1. TypeOK'
    BY <1>9 DEF LeaveMultithreadMutex, InitLabels, Labels
  <2>2. OwnerInv'
    BY <1>9 DEF LeaveMultithreadMutex, OwnerInv
  <2>3. InitInv'
    BY <1>9 DEF LeaveMultithreadMutex, OwnerInv, InitInv, Unused, FirstUse, Guarded, InitLabels
  <2>4. ActiveInv'
    BY <1>9 DEF LeaveMultithreadMutex, ActiveInv
  <2> QED
    BY <2>1, <2>2, <2>3, <2>4
<1>10. CASE LeaveFlock(t)
  <2>1. TypeOK'
    BY <1>10 DEF LeaveFlock, InitLabels, Labels
  <2>2. OwnerInv'
    BY <1>10 DEF LeaveFlock, OwnerInv
  <2>3. InitInv'
    BY <1>10 DEF LeaveFlock, OwnerInv, InitInv, Unused, FirstUse, Guarded, InitLabels
  <2>4. ActiveInv'
    BY <1>10 DEF LeaveFlock, ActiveInv
  <2> QED
    BY <2>1, <2>2, <2>3, <2>4
<1>11. CASE InitializeThrows(t)
  <2>1. TypeOK'
    BY <1>11 DEF InitializeThrows, InitLabels, Labels
  <2>2. OwnerInv'
    BY <1>11 DEF InitializeThrows, OwnerInv
  <2>3. InitInv'
    BY <1>11 DEF InitializeThrows, OwnerInv, InitInv, Unused, FirstUse, Guarded, InitLabels
  <2>4. ActiveInv'
    BY <1>11 DEF InitializeThrows, ActiveInv
  <2> QED
    BY <2>1, <2>2, <2>3, <2>4
<1>12. CASE Lock(t)
  <2>1. TypeOK'
    BY <1>12 DEF Lock, InitLabels, Labels
  <2>2. OwnerInv'
    BY <1>12 DEF Lock, OwnerInv
  <2>3. InitInv'
    BY <1>12 DEF Lock, OwnerInv, InitInv, Unused, FirstUse, Guarded, InitLabels
  <2>4. ActiveInv'
    BY <1>12 DEF Lock, ActiveInv
  <2> QED
    BY <2>1, <2>2, <2>3, <2>4
<1>13. CASE ProbeLock(t)
  <2>1. TypeOK'
    BY <1>13 DEF ProbeLock, InitLabels, Labels
  <2>2. OwnerInv'
    BY <1>13 DEF ProbeLock, OwnerInv
  <2>3. InitInv'
    BY <1>13 DEF ProbeLock, OwnerInv, InitInv, Unused, FirstUse, Guarded, InitLabels
  <2>4. ActiveInv'
    BY <1>13 DEF ProbeLock, ActiveInv
  <2> QED
    BY <2>1, <2>2, <2>3, <2>4
<1>14. CASE PthreadLock(t)
  <2>1. TypeOK'
    BY <1>14 DEF PthreadLock, InitLabels, Labels
  <2>2. OwnerInv'
    BY <1>14 DEF PthreadLock, OwnerInv
  <2>3. InitInv'
    BY <1>14 DEF PthreadLock, OwnerInv, InitInv, Unused, FirstUse, Guarded, InitLabels
  <2>4. ActiveInv'
    BY <1>14 DEF PthreadLock, ActiveInv
  <2> QED
    BY <2>1, <2>2, <2>3, <2>4
<1>15. CASE ProbeFails(t)
  <2>1. TypeOK'
    BY <1>15 DEF ProbeFails, InitLabels, Labels
  <2>2. OwnerInv'
    BY <1>15 DEF ProbeFails, OwnerInv
  <2>3. InitInv'
    BY <1>15 DEF ProbeFails, OwnerInv, InitInv, Unused, FirstUse, Guarded, InitLabels
  <2>4. ActiveInv'
    BY <1>15 DEF ProbeFails, ActiveInv
  <2> QED
    BY <2>1, <2>2, <2>3, <2>4
<1>16. CASE PthreadMutexConsistent(t)
  <2>1. TypeOK'
    BY <1>16 DEF PthreadMutexConsistent, InitLabels, Labels
  <2>2. OwnerInv'
    BY <1>16 DEF PthreadMutexConsistent, OwnerInv
  <2>3. InitInv'
    BY <1>16 DEF PthreadMutexConsistent, OwnerInv, InitInv, Unused, FirstUse, Guarded, InitLabels
  <2>4. ActiveInv'
    BY <1>16 DEF PthreadMutexConsistent, ActiveInv
  <2> QED
    BY <2>1, <2>2, <2>3, <2>4
<1>17. CASE RecordAcquisition(t)
  <2>1. TypeOK'
    BY <1>17 DEF RecordAcquisition, InitLabels, Labels, Count, ActiveInv
  <2>2. OwnerInv'
    BY <1>17 DEF RecordAcquisition, OwnerInv
  <2>3. InitInv'
    BY <1>17 DEF RecordAcquisition, OwnerInv, InitInv, Unused, FirstUse, Guarded, InitLabels
  <2>4. ActiveInv'
    BY <1>17 DEF RecordAcquisition, ActiveInv, OwnerInv, Count
  <2> QED
    BY <2>1, <2>2, <2>3, <2>4
<1>18. CASE UnlockClearsOwner(t)
  <2>1. TypeOK'
    BY <1>18 DEF UnlockClearsOwner, InitLabels, Labels, Count, ActiveInv
  <2>2. OwnerInv'
    BY <1>18 DEF UnlockClearsOwner, OwnerInv
  <2>3. InitInv'
    BY <1>18 DEF UnlockClearsOwner, OwnerInv, InitInv, Unused, FirstUse, Guarded, InitLabels
  <2>4. ActiveInv'
    BY <1>18 DEF UnlockClearsOwner, ActiveInv, OwnerInv, Count
  <2> QED
    BY <2>1, <2>2, <2>3, <2>4
<1>19. CASE UnlockReleases(t)
  <2>1. TypeOK'
    BY <1>19 DEF UnlockReleases, InitLabels, Labels
  <2>2. OwnerInv'
    BY <1>19 DEF UnlockReleases, OwnerInv
  <2>3. InitInv'
    BY <1>19 DEF UnlockReleases, OwnerInv, InitInv, Unused, FirstUse, Guarded, InitLabels
  <2>4. ActiveInv'
    BY <1>19 DEF UnlockReleases, ActiveInv
  <2> QED
    BY <2>1, <2>2, <2>3, <2>4
<1>20. CASE TouchUnmapped(t)
  <2>1. TypeOK'
    BY <1>20 DEF TouchUnmapped, InitLabels, Labels
  <2>2. OwnerInv'
    BY <1>20 DEF TouchUnmapped, OwnerInv
  <2>3. InitInv'
    BY <1>20 DEF TouchUnmapped, OwnerInv, InitInv, Unused, FirstUse, Guarded, InitLabels
  <2>4. ActiveInv'
    BY <1>20 DEF TouchUnmapped, ActiveInv
  <2> QED
    BY <2>1, <2>2, <2>3, <2>4
<1> QED
  BY <1>1, <1>2, <1>3, <1>4, <1>5, <1>6, <1>7, <1>8, <1>9, <1>10,
     <1>11, <1>12, <1>13, <1>14, <1>15, <1>16, <1>17, <1>18, <1>19, <1>20 DEF Running

(* Destroying an entry preserves the invariant.                            *)
LEMMA ClearMutexInvariant == ASSUME Inv, NEW o \in Object, ClearMutex(o) PROVE Inv'
<1>1. TypeOK'
  BY DEF ClearMutex, Inv, TypeOK
<1>2. OwnerInv'
  BY DEF ClearMutex, Inv, OwnerInv
<1>3. InitInv'
  <2>1. \A t \in ThreadsOf(o) : pc[t] \notin InitLabels
    BY DEF ClearMutex, Quiet, InitLabels
  <2> QED
    BY <2>1 DEF ClearMutex, Inv, TypeOK, InitInv, Unused, FirstUse, Guarded, ThreadsOf,
       InitLabels
<1>4. ActiveInv'
  BY DEF ClearMutex, Inv, TypeOK, ActiveInv, Owning
<1> QED
  BY <1>1, <1>2, <1>3, <1>4 DEF Inv

(* So does the death of a process, wherever its threads are.               *)
LEMMA CrashInvariant == ASSUME Inv, NEW p \in Process, Crash(p) PROVE Inv'
<1> USE DEF Crash, Proc, Inv
<1>1. TypeOK'
  BY DEF TypeOK, Labels
<1>2. OwnerInv'
  BY DEF TypeOK, OwnerInv, Owning
<1>3. InitInv'
  BY DEF TypeOK, InitInv, Unused, FirstUse, Guarded, InitLabels, LockLabels
<1>4. ActiveInv'
  BY DEF TypeOK, ActiveInv
<1> QED
  BY <1>1, <1>2, <1>3, <1>4

\* Every step of a thread, every destruction and every crash keeps the inductive invariant.
LEMMA NextInvariant == Inv /\ [Next]_vars => Inv'
<1> SUFFICES ASSUME Inv, [Next]_vars PROVE Inv'
  OBVIOUS
<1>1. CASE Next
  BY <1>1, ThreadInvariant, ClearMutexInvariant, CrashInvariant DEF Next
<1>2. CASE UNCHANGED vars
  BY <1>2 DEF vars, Inv, TypeOK, OwnerInv, InitInv, Unused, ActiveInv
<1> QED
  BY <1>1, <1>2

(* The inductive invariant holds in every reachable state.                 *)
THEOREM Invariance == Spec => []Inv
BY InitInvariant, NextInvariant, PTL DEF Spec

(* Every variable of the lock keeps its type; active_locks_ never goes     *)
(* below zero, whatever is destroyed or dies between the calls.            *)
THEOREM TypeCorrect == Spec => []TypeOK
BY Invariance, PTL DEF Inv

(* lock(), probe_lock() and unlock() keep at most one thread between them. *)
THEOREM MutualExclusionHolds == Spec => []MutualExclusion
<1>1. Inv => MutualExclusion
  BY DEF Inv, OwnerInv, MutualExclusion, Granted, Owning
<1> QED
  BY <1>1, Invariance, PTL

(* initialize() never reinitializes a mutex in use and nobody locks one    *)
(* that is not initialized.                                                *)
THEOREM InitBeforeUseHolds == Spec => []InitBeforeUse
<1>1. Inv => InitBeforeUse
  BY DEF Inv, InitInv, InitBeforeUse, Unused, FirstUse
<1> QED
  BY <1>1, Invariance, PTL

(* The owner fields name the thread that holds the mutex.                  *)
THEOREM OwnerRecordedHolds == Spec => []OwnerRecorded
<1>1. Inv => OwnerRecorded
  BY DEF Inv, OwnerInv, OwnerRecorded
<1> QED
  BY <1>1, Invariance, PTL

-----------------------------------------------------------------------------
(* Refinement of AbstractLock                                              *)

LEMMA HoldersEmpty == Init => Abstract!Init
BY DEF Init, Abstract!Init, Granted

holding == {t \in Thread : pc[t] \in Granted}

(* Only three actions change who is granted the mutex.                     *)
LEMMA HoldersStep == Inv /\ [Next]_vars => [Abstract!Next]_holding
<1> SUFFICES ASSUME Inv, [Next]_vars PROVE Abstract!Next \/ holding' = holding
  BY DEF holding
<1> USE DEF Inv, TypeOK, OwnerInv, holding, Granted, Owning
<1>1. ASSUME NEW t \in Thread, RecordAcquisition(t) PROVE Abstract!Enter(t)
  BY <1>1 DEF RecordAcquisition, Abstract!Enter
<1>2. ASSUME NEW t \in Thread, UnlockReleases(t) PROVE Abstract!Leave(t)
  BY <1>2 DEF UnlockReleases, Abstract!Leave
<1>3. ASSUME NEW t \in Thread, TouchUnmapped(t)
      PROVE Abstract!Leave(t) \/ holding' = holding
  BY <1>3 DEF TouchUnmapped, Abstract!Leave
<1>4. ASSUME NEW p \in Process, Crash(p)
      PROVE (\E t \in Thread : Abstract!Leave(t)) \/ holding' = holding
  BY <1>4 DEF Crash, Proc, Abstract!Leave
<1>5. ASSUME NEW t \in Thread,
             \/ Running(t) /\ ~RecordAcquisition(t) /\ ~UnlockReleases(t)
             \/ InitializeMutex(t) \/ InitializeThrows(t)
             \/ Lock(t) \/ ProbeLock(t) \/ UnlockClearsOwner(t)
      PROVE holding' = holding
  BY <1>5 DEF Running, InitializeMutex, TakeFlock, TakeMultithreadMutex, ResizeShmFile, OpenPthreadMutex, PthreadMutexInit, SetInitializedFlag, ClearOwnerFields, LeaveMultithreadMutex, LeaveFlock, InitializeThrows, Lock, ProbeLock, PthreadLock, ProbeFails, PthreadMutexConsistent, UnlockClearsOwner
<1>6. ASSUME NEW o \in Object, ClearMutex(o) PROVE holding' = holding
  BY <1>6 DEF ClearMutex
<1>7. ASSUME UNCHANGED vars PROVE holding' = holding
  BY <1>7 DEF vars
<1> QED
  BY <1>1, <1>2, <1>3, <1>4, <1>5, <1>6, <1>7 DEF Next, Abstract!Next

(* The robust mutex implements the abstract lock: every behaviour of the   *)
(* detailed specification, crashes and destructions included, is one of    *)
(* AbstractLock under the refinement mapping of RobustMutex!Abstract.      *)
THEOREM Refinement == Spec => ImplementsAbstractLock
<1>1. Spec => Abstract!Init
  BY HoldersEmpty DEF Spec
<1> QED
  BY <1>1, Invariance, HoldersStep, PTL DEF Spec, ImplementsAbstractLock, Abstract!Spec, holding

-----------------------------------------------------------------------------
(* Recovery after a crash                                                  *)

(* A step that pulls no mapping from under an owner.                       *)
LEMMA RecoverStep ==
  ASSUME Inv, RecoverInv, [Next]_vars, ~dangling' PROVE RecoverInv'
<1> USE DEF RecoverInv, Inv, TypeOK, OwnerInv, Owning
(* Steps that leave the mutex, its owner and the owner's counter alone.    *)
<1>1. ASSUME NEW t \in Thread, pc[t] \notin Owning,
             UNCHANGED <<mutex, owner, dangling>>,
             \E label \in Labels : pc' = [pc EXCEPT ![t] = label]
      PROVE RecoverInv'
  BY <1>1
<1>2. ASSUME NEW t \in Thread,
             \/ InitializeMutex(t) \/ TakeFlock(t) \/ TakeMultithreadMutex(t)
             \/ ResizeShmFile(t) \/ OpenPthreadMutex(t) \/ SetInitializedFlag(t)
             \/ ClearOwnerFields(t) \/ LeaveMultithreadMutex(t) \/ LeaveFlock(t)
             \/ InitializeThrows(t) \/ Lock(t) \/ ProbeLock(t) \/ ProbeFails(t)
      PROVE RecoverInv'
  BY <1>1, <1>2 DEF InitializeMutex, TakeFlock, TakeMultithreadMutex, ResizeShmFile,
     OpenPthreadMutex, SetInitializedFlag, ClearOwnerFields, LeaveMultithreadMutex,
     LeaveFlock, InitializeThrows, Lock, ProbeLock, ProbeFails,
     Labels, InitLabels, LockLabels
<1>3. ASSUME NEW t \in Thread, PthreadMutexInit(t) PROVE RecoverInv'
  BY <1>3 DEF PthreadMutexInit
<1>4. ASSUME NEW t \in Thread, PthreadLock(t) PROVE RecoverInv'
  BY <1>4 DEF PthreadLock
<1>5. ASSUME NEW t \in Thread, PthreadMutexConsistent(t) PROVE RecoverInv'
  BY <1>5 DEF PthreadMutexConsistent
<1>6. ASSUME NEW t \in Thread,
             RecordAcquisition(t) \/ UnlockClearsOwner(t) \/ TouchUnmapped(t)
      PROVE RecoverInv'
  BY <1>6 DEF RecordAcquisition, UnlockClearsOwner, TouchUnmapped
<1>7. ASSUME NEW t \in Thread, UnlockReleases(t) PROVE RecoverInv'
  BY <1>7 DEF UnlockReleases
<1>8. ASSUME NEW o \in Object, ClearMutex(o) PROVE RecoverInv'
  BY <1>8 DEF ClearMutex
<1>9. ASSUME NEW p \in Process, Crash(p) PROVE RecoverInv'
  BY <1>9 DEF Crash, Proc
<1>10. ASSUME UNCHANGED vars PROVE RecoverInv'
  BY <1>10 DEF vars
<1> QED
  BY <1>2, <1>3, <1>4, <1>5, <1>6, <1>7, <1>8, <1>9, <1>10 DEF Next, Running

(* Destroyed between calls only, an entry whose thread owns the mutex has  *)
(* a positive count: close_mutex leaks its mapping.                        *)
LEMMA NothingPulled ==
  ASSUME ~MidCall, Inv, RecoverInv, [Next]_vars PROVE ~dangling'
<1> USE DEF RecoverInv, Inv, TypeOK, OwnerInv, Owning
<1>1. ASSUME NEW o \in Object, ClearMutex(o) PROVE ~dangling'
  <2>1. ~(active[o] = 0 /\ owner \in ThreadsOf(o) /\ ~gone[owner])
    BY <1>1 DEF ClearMutex, Quiet, ThreadsOf, ActiveInv
  <2> QED
    BY <1>1, <2>1 DEF ClearMutex
<1>2. ASSUME NEW p \in Process, Crash(p) PROVE ~dangling'
  BY <1>2 DEF Crash
<1>3. ASSUME NEW t \in Thread,
             \/ Running(t) \/ InitializeMutex(t) \/ InitializeThrows(t)
             \/ Lock(t) \/ ProbeLock(t) \/ UnlockClearsOwner(t) \/ TouchUnmapped(t)
      PROVE ~dangling'
  BY <1>3 DEF Running, InitializeMutex, TakeFlock, TakeMultithreadMutex, ResizeShmFile,
     OpenPthreadMutex, PthreadMutexInit, SetInitializedFlag, ClearOwnerFields,
     LeaveMultithreadMutex, LeaveFlock, InitializeThrows, Lock, ProbeLock, PthreadLock,
     ProbeFails, PthreadMutexConsistent, RecordAcquisition, UnlockClearsOwner,
     UnlockReleases, TouchUnmapped
<1>4. ASSUME UNCHANGED vars PROVE ~dangling'
  BY <1>4 DEF vars
<1> QED
  BY <1>1, <1>2, <1>3, <1>4 DEF Next

(* Unless an entry is destroyed in the middle of a lock() or unlock() call *)
(* of one of its threads, no crash leaves the mutex locked by a dead       *)
(* thread or ENOTRECOVERABLE: the leak of the mapping in close_mutex and   *)
(* pthread_mutex_consistent in lock() and probe_lock() are enough.         *)
THEOREM Recoverability == ~MidCall => (Spec => []AlwaysRecoverable)
<1> SUFFICES ASSUME ~MidCall PROVE Spec => []AlwaysRecoverable
  OBVIOUS
<1>1. Init => RecoverInv
  BY DEF Init, RecoverInv
<1>2. Inv /\ RecoverInv /\ [Next]_vars => RecoverInv'
  BY RecoverStep, NothingPulled
<1>3. RecoverInv => AlwaysRecoverable
  BY DEF RecoverInv, AlwaysRecoverable
<1> QED
  BY <1>1, <1>2, <1>3, Invariance, PTL DEF Spec

(* A step of the model with its history variable, or of the other lock.    *)
LEMMA TornStep ==
  ASSUME [RobustNext \/ KernelNext]_<<robustVars, kmdVars, part>>
  PROVE  [Next]_vars /\ (Remember \/ UNCHANGED robustVars)
BY DEF RobustNext, KernelNext, robustVars, vars

(* With entries destroyed at any point: active_locks_ never goes below     *)
(* zero, and until close_mutex has unmapped a mutex in the middle of a     *)
(* lock() or unlock(), every crash, destruction and failed initialization  *)
(* leaves a mutex that a later lock() can take or recover.                 *)
THEOREM RecoverableUntilTorn == MCSpec => []RecoverableUnlessTorn
<1> DEFINE TornInv == Inv /\ torn \in BOOLEAN /\ (~torn => RecoverInv)
<1>1. MCInit => TornInv
  BY InitInvariant DEF MCInit, Init, RecoverInv
<1>2. TornInv /\ [RobustNext \/ KernelNext]_<<robustVars, kmdVars, part>> => TornInv'
  <2> SUFFICES ASSUME TornInv, [RobustNext \/ KernelNext]_<<robustVars, kmdVars, part>>
               PROVE  TornInv'
    OBVIOUS
  <2>1. [Next]_vars /\ (Remember \/ UNCHANGED robustVars)
    BY TornStep
  <2>2. Inv'
    BY <2>1, NextInvariant
  <2>3. CASE Remember
    <3>1. ~torn' => ~torn /\ ~dangling'
      BY <2>3 DEF Remember
    <3>2. torn' \in BOOLEAN
      BY <2>3, <2>2 DEF Remember, Inv, TypeOK
    <3> QED
      BY <2>1, <2>2, <3>1, <3>2, RecoverStep
  <2>4. CASE UNCHANGED robustVars
    BY <2>2, <2>4 DEF robustVars, vars, RecoverInv
  <2> QED
    BY <2>1, <2>3, <2>4
<1>3. TornInv => RecoverableUnlessTorn
  BY DEF Inv, RecoverInv, RecoverableUnlessTorn, AlwaysRecoverable
<1> QED
  BY <1>1, <1>2, <1>3, PTL DEF MCSpec

-----------------------------------------------------------------------------
(***************************************************************************)
(* Proofs about KmdMutex, for any number of processes, objects and threads *)
(* and any number of resets.  KmdInv ties the program counters to the call *)
(* a thread is in (CallInv) and, when every thread has an object of its    *)
(* own, the threads that were granted the lock to the handle the driver    *)
(* has it recorded against and to that handle still being there            *)
(* (GrantInv).                                                             *)
(***************************************************************************)

(* A thread is in a call exactly while it is at one of its labels, and     *)
(* unlock() does not try again after it has reopened the handle.           *)
CallInv ==
  \A t \in KmdThread :
    /\ call[t] = "none" <=> at[t] \in {"out", "held"}
    /\ call[t] = "unlock" => at[t] # "retry"

(* The lock is recorded against the handle of the thread it was granted    *)
(* to, and that handle is there, if only as one open across a reset: the   *)
(* object has something to close before it opens the device again.         *)
GrantInv ==
  /\ \A t \in KmdGranted : holder = uses[t] /\ device[uses[t]] # "none"
  /\ holder # NoHandle => \E t \in KmdGranted : holder = uses[t]

KmdInv == KmdTypeOK /\ CallInv /\ (OneObjectEach => GrantInv)

USE KmdPlacement

(* Init establishes the invariant.                                         *)
LEMMA KmdInitInvariant == KmdInit => KmdInv
<1> SUFFICES ASSUME KmdInit PROVE KmdInv
  OBVIOUS
<1>1. KmdTypeOK
  BY DEF KmdInit, KmdTypeOK
<1>2. CallInv
  BY DEF KmdInit, CallInv
<1>3. GrantInv
  BY DEF KmdInit, GrantInv, KmdGranted
<1> QED
  BY <1>1, <1>2, <1>3 DEF KmdInv

(* The threads keep an object each: only a move changes which object a     *)
(* thread uses, and it exchanges two of them.                              *)
LEMMA ObjectsStayApart ==
  ASSUME KmdTypeOK, [KmdNext]_kmdVars
  PROVE  OneObjectEach' <=> OneObjectEach
<1>1. CASE \E to, from \in KmdObject : KmdMove(to, from)
  <2> PICK to \in KmdObject, from \in KmdObject : KmdMove(to, from)
    BY <1>1
  <2>1. uses \in [KmdThread -> KmdObject] /\ to # from
    BY DEF KmdTypeOK, KmdMove
  <2>2. \A t \in KmdThread :
          uses'[t] = IF uses[t] = from THEN to ELSE IF uses[t] = to THEN from ELSE uses[t]
    BY <2>1 DEF KmdMove
  <2>3. \A t, u \in KmdThread : uses'[t] = uses'[u] <=> uses[t] = uses[u]
    BY <2>1, <2>2
  <2> QED
    BY <2>3 DEF OneObjectEach
<1>2. CASE ~\E to, from \in KmdObject : KmdMove(to, from)
  <2>1. uses' = uses
    BY <1>2 DEF KmdNext, kmdVars, KmdRunning, KmdInitialize, KmdCall, TtLockAcquire,
       TtLockBusy, TtLockRelease, Enodev, NoDevice, KmdClose, KmdOpen, KmdDestroy,
       KmdCrash, ResetStarts, ResetEnds
  <2> QED
    BY <2>1 DEF OneObjectEach
<1> QED
  BY <1>1, <1>2

(* Every step of a thread preserves the invariant: one step per action,    *)
(* one substep per part of the invariant.                                  *)
LEMMA KmdThreadInvariant ==
  ASSUME KmdInv, NEW t \in KmdThread,
         KmdInitialize(t) \/ KmdCall(t) \/ KmdRunning(t)
  PROVE  KmdInv'
<1> USE DEF KmdInv, KmdTypeOK
<1>0. OneObjectEach' => OneObjectEach
  BY ObjectsStayApart DEF KmdNext
<1>1. CASE KmdInitialize(t)
  <2>1. KmdTypeOK'
    BY <1>1 DEF KmdInitialize, OpenDevice
  <2>2. CallInv'
    BY <1>1 DEF CallInv, KmdInitialize, OpenDevice
  <2>3. ASSUME OneObjectEach PROVE GrantInv'
    BY <1>1, <2>3 DEF CallInv, GrantInv, KmdGranted, OneObjectEach, KmdInitialize, OpenDevice
  <2> QED
    BY <2>1, <2>2, <2>3, <1>0
<1>2. CASE KmdCall(t)
  <2>1. KmdTypeOK'
    BY <1>2 DEF KmdCall
  <2>2. CallInv'
    BY <1>2 DEF CallInv, KmdCall
  <2>3. ASSUME OneObjectEach PROVE GrantInv'
    BY <1>2, <2>3 DEF CallInv, GrantInv, KmdGranted, OneObjectEach, KmdCall
  <2> QED
    BY <2>1, <2>2, <2>3, <1>0
<1>3. CASE TtLockAcquire(t)
  <2>1. KmdTypeOK'
    BY <1>3 DEF TtLockAcquire, Leave
  <2>2. CallInv'
    BY <1>3 DEF CallInv, TtLockAcquire, Leave
  <2>3. ASSUME OneObjectEach PROVE GrantInv'
    BY <1>3, <2>3 DEF CallInv, GrantInv, KmdGranted, OneObjectEach, TtLockAcquire, Leave
  <2> QED
    BY <2>1, <2>2, <2>3, <1>0
<1>4. CASE TtLockBusy(t)
  <2>1. KmdTypeOK'
    BY <1>4 DEF TtLockBusy, Proceed, Leave
  <2>2. CallInv'
    BY <1>4 DEF CallInv, TtLockBusy, Proceed, Leave
  <2>3. ASSUME OneObjectEach PROVE GrantInv'
    BY <1>4, <2>3 DEF CallInv, GrantInv, KmdGranted, OneObjectEach, TtLockBusy, Proceed, Leave
  <2> QED
    BY <2>1, <2>2, <2>3, <1>0
<1>5. CASE TtLockRelease(t)
  <2>1. KmdTypeOK'
    BY <1>5 DEF TtLockRelease, Leave
  <2>2. CallInv'
    BY <1>5 DEF CallInv, TtLockRelease, Leave
  <2>3. ASSUME OneObjectEach PROVE GrantInv'
    BY <1>5, <2>3 DEF CallInv, GrantInv, KmdGranted, OneObjectEach, TtLockRelease, Leave
  <2> QED
    BY <2>1, <2>2, <2>3, <1>0
<1>6. CASE Enodev(t)
  <2>1. KmdTypeOK'
    BY <1>6 DEF Enodev, Proceed, Leave
  <2>2. CallInv'
    BY <1>6 DEF CallInv, Enodev, Proceed, Leave
  <2>3. ASSUME OneObjectEach PROVE GrantInv'
    BY <1>6, <2>3 DEF CallInv, GrantInv, KmdGranted, OneObjectEach, Enodev, Proceed, Leave
  <2> QED
    BY <2>1, <2>2, <2>3, <1>0
<1>7. CASE NoDevice(t)
  <2>1. KmdTypeOK'
    BY <1>7 DEF NoDevice, Leave
  <2>2. CallInv'
    BY <1>7 DEF CallInv, NoDevice, Leave
  <2>3. ASSUME OneObjectEach PROVE GrantInv'
    BY <1>7, <2>3 DEF CallInv, GrantInv, KmdGranted, OneObjectEach, NoDevice, Leave
  <2> QED
    BY <2>1, <2>2, <2>3, <1>0
<1>8. CASE KmdClose(t)
  <2>1. KmdTypeOK'
    BY <1>8 DEF KmdClose, CloseDevice, Proceed
  <2>2. CallInv'
    BY <1>8 DEF CallInv, KmdClose, CloseDevice, Proceed
  <2>3. ASSUME OneObjectEach PROVE GrantInv'
    BY <1>8, <2>3 DEF CallInv, GrantInv, KmdGranted, OneObjectEach, KmdClose, CloseDevice, Proceed
  <2> QED
    BY <2>1, <2>2, <2>3, <1>0
<1>9. CASE KmdOpen(t)
  <2>1. KmdTypeOK'
    BY <1>9 DEF KmdOpen, OpenDevice, Proceed, Leave
  <2>2. CallInv'
    BY <1>9 DEF CallInv, KmdOpen, OpenDevice, Proceed, Leave
  <2>3. ASSUME OneObjectEach PROVE GrantInv'
    BY <1>9, <2>3 DEF CallInv, GrantInv, KmdGranted, OneObjectEach, KmdOpen, OpenDevice, Proceed, Leave
  <2> QED
    BY <2>1, <2>2, <2>3, <1>0
<1> QED
  BY <1>1, <1>2, <1>3, <1>4, <1>5, <1>6, <1>7, <1>8, <1>9 DEF KmdRunning

(* So does every step of the surroundings: destructions, moves, deaths of  *)
(* processes and resets of the device.                                     *)
LEMMA KmdSurroundingsInvariant ==
  ASSUME KmdInv,
         \/ \E o \in KmdObject : KmdDestroy(o) \/ \E from \in KmdObject : KmdMove(o, from)
         \/ \E p \in KmdProcess : KmdCrash(p)
         \/ ResetStarts \/ ResetEnds
  PROVE  KmdInv'
<1> USE DEF KmdInv, KmdTypeOK
<1>0. OneObjectEach' => OneObjectEach
  BY ObjectsStayApart DEF KmdNext
<1>1. ASSUME NEW o \in KmdObject, KmdDestroy(o) PROVE KmdInv'
  <2>1. KmdTypeOK'
    BY <1>1 DEF KmdDestroy, CloseDevice, BetweenCalls
  <2>2. CallInv'
    BY <1>1 DEF CallInv, KmdDestroy, CloseDevice, BetweenCalls
  <2>3. ASSUME OneObjectEach PROVE GrantInv'
    BY <1>1, <2>3 DEF CallInv, GrantInv, KmdGranted, OneObjectEach, KmdDestroy, CloseDevice, BetweenCalls
  <2> QED
    BY <2>1, <2>2, <2>3, <1>0
<1>2. ASSUME NEW to \in KmdObject, NEW from \in KmdObject, KmdMove(to, from) PROVE KmdInv'
  <2>1. KmdTypeOK'
    BY <1>2 DEF KmdMove, BetweenCalls
  <2>2. CallInv'
    BY <1>2 DEF CallInv, KmdMove, BetweenCalls
  <2>3. ASSUME OneObjectEach PROVE GrantInv'
    BY <1>2, <2>3 DEF CallInv, GrantInv, KmdGranted, OneObjectEach, KmdMove, BetweenCalls
  <2> QED
    BY <2>1, <2>2, <2>3, <1>0
<1>3. ASSUME NEW p \in KmdProcess, KmdCrash(p) PROVE KmdInv'
  <2>1. KmdTypeOK'
    BY <1>3 DEF KmdCrash, KmdProc
  <2>2. CallInv'
    BY <1>3 DEF CallInv, KmdCrash, KmdProc
  <2>3. ASSUME OneObjectEach PROVE GrantInv'
    BY <1>3, <2>3 DEF CallInv, GrantInv, KmdGranted, OneObjectEach, KmdCrash, KmdProc
  <2> QED
    BY <2>1, <2>2, <2>3, <1>0
<1>4. CASE ResetStarts
  <2>0. resets' \in 0..MaxResets
    BY <1>4 DEF ResetStarts
  <2>1. KmdTypeOK'
    BY <1>4, <2>0, Zenon DEF ResetStarts
  <2>2. CallInv'
    BY <1>4 DEF CallInv, ResetStarts
  <2>3. ASSUME OneObjectEach PROVE GrantInv'
    BY <1>4, <2>3 DEF CallInv, GrantInv, KmdGranted, OneObjectEach, ResetStarts
  <2> QED
    BY <2>1, <2>2, <2>3, <1>0
<1>5. CASE ResetEnds
  <2>1. KmdTypeOK'
    BY <1>5 DEF ResetEnds
  <2>2. CallInv'
    BY <1>5 DEF CallInv, ResetEnds
  <2>3. ASSUME OneObjectEach PROVE GrantInv'
    BY <1>5, <2>3 DEF CallInv, GrantInv, KmdGranted, OneObjectEach, ResetEnds
  <2> QED
    BY <2>1, <2>2, <2>3, <1>0
<1> QED
  BY <1>1, <1>2, <1>3, <1>4, <1>5

\* The inductive invariant holds in every reachable state.
LEMMA KmdInvariant == KmdSpec => []KmdInv
<1>1. KmdInv /\ [KmdNext]_kmdVars => KmdInv'
  <2> SUFFICES ASSUME KmdInv, [KmdNext]_kmdVars PROVE KmdInv'
    OBVIOUS
  <2>1. CASE UNCHANGED kmdVars
    BY <2>1 DEF kmdVars, KmdInv, KmdTypeOK, CallInv, GrantInv, KmdGranted, OneObjectEach
  <2>2. CASE KmdNext
    BY <2>2, KmdThreadInvariant, KmdSurroundingsInvariant DEF KmdNext
  <2> QED
    BY <2>1, <2>2
<1> QED
  BY <1>1, KmdInitInvariant, PTL DEF KmdSpec

(* The lock of KMD is always backed: it is recorded against the handle of  *)
(* the thread that was granted it and against no other, through resets,    *)
(* reopened handles, moves, destructions and deaths, and                   *)
(* is_locked_by_anyone() says so.                                          *)
THEOREM KmdLockIsBacked == KmdSpec => []KmdLockBacked
<1>1. KmdInv => KmdLockBacked
  <2> SUFFICES ASSUME KmdInv, OneObjectEach
               PROVE  /\ \A t \in KmdGranted : holder = uses[t]
                      /\ holder # NoHandle => \E t \in KmdGranted : holder = uses[t]
                      /\ \A o \in KmdObject :
                           device[o] = "open" => (IsLockedByAnyone(o) <=> KmdGranted # {})
    BY DEF KmdInv, KmdLockBacked
  <2>1. GrantInv
    BY DEF KmdInv
  <2>2. KmdGranted # {} <=> holder # NoHandle
    BY <2>1 DEF GrantInv, KmdGranted, KmdInv, KmdTypeOK
  <2> QED
    BY <2>1, <2>2 DEF GrantInv, IsLockedByAnyone
<1> QED
  BY <1>1, KmdInvariant, PTL

(* Only tt_lock_acquire grants the lock, and only while nobody has it.     *)
LEMMA GrantsAreAcquisitions ==
  ASSUME KmdInv, [KmdNext]_kmdVars, OneObjectEach,
         NEW u \in KmdThread, u \in KmdGranted', u \notin KmdGranted
  PROVE  KmdGranted = {}
<1> USE DEF KmdInv, KmdTypeOK, KmdGranted
<1>1. ASSUME NEW t \in KmdThread, TtLockAcquire(t) PROVE KmdGranted = {}
  BY <1>1 DEF TtLockAcquire, GrantInv
<1>2. ASSUME NEW t \in KmdThread, KmdInitialize(t) \/ KmdCall(t) \/ KmdRunning(t)
      PROVE  KmdGranted = {}
  BY <1>1, <1>2 DEF KmdRunning, KmdInitialize, KmdCall, TtLockBusy, TtLockRelease, Enodev,
     NoDevice, KmdClose, KmdOpen, Proceed, Leave
<1>3. ASSUME NEW o \in KmdObject, KmdDestroy(o) \/ \E from \in KmdObject : KmdMove(o, from)
      PROVE  KmdGranted = {}
  BY <1>3 DEF KmdDestroy, KmdMove
<1>4. ASSUME NEW p \in KmdProcess, KmdCrash(p) PROVE KmdGranted = {}
  BY <1>4 DEF KmdCrash
<1>5. CASE ResetStarts \/ ResetEnds \/ UNCHANGED kmdVars
  BY <1>5 DEF ResetStarts, ResetEnds, kmdVars
<1> QED
  BY <1>2, <1>3, <1>4, <1>5 DEF KmdNext

(* The lock of KMD implements the abstract lock.                           *)
THEOREM KmdRefinement == KmdSpec => KmdImplementsLock
<1> DEFINE H == IF OneObjectEach THEN KmdGranted ELSE {}
<1>1. KmdInit => KmdAbstract!Init
  BY DEF KmdInit, KmdAbstract!Init, KmdGranted
<1>2. KmdInv /\ KmdInv' /\ [KmdNext]_kmdVars => [KmdAbstract!Next]_H
  <2> SUFFICES ASSUME KmdInv, KmdInv', [KmdNext]_kmdVars PROVE [KmdAbstract!Next]_H
    OBVIOUS
  <2>1. OneObjectEach' <=> OneObjectEach
    BY ObjectsStayApart DEF KmdInv
  <2>2. CASE ~OneObjectEach
    BY <2>1, <2>2
  <2>3. CASE OneObjectEach
    <3>1. H = KmdGranted /\ H' = KmdGranted'
      BY <2>1, <2>3
    <3>2. /\ KmdGranted \subseteq KmdThread
          /\ \A t, u \in KmdGranted : t = u
      BY <2>3 DEF KmdInv, GrantInv, OneObjectEach, KmdGranted
    <3>3. /\ KmdGranted' \subseteq KmdThread
          /\ \A t, u \in KmdGranted' : t = u
      BY <2>1, <2>3 DEF KmdInv, GrantInv, OneObjectEach, KmdGranted
    <3>4. CASE KmdGranted' \subseteq KmdGranted
      BY <3>1, <3>2, <3>4 DEF KmdAbstract!Next, KmdAbstract!Enter, KmdAbstract!Leave
    <3>5. ASSUME NEW u \in KmdGranted', u \notin KmdGranted PROVE KmdAbstract!Next
      <4>1. KmdGranted = {} /\ KmdGranted' = {u}
        BY <2>3, <3>3, <3>5, GrantsAreAcquisitions
      <4> QED
        BY <4>1, <3>1, <3>3 DEF KmdAbstract!Next, KmdAbstract!Enter
    <3> QED
      BY <3>4, <3>5
  <2> QED
    BY <2>2, <2>3
<1> QED
  BY <1>1, <1>2, KmdInvariant, PTL DEF KmdSpec, KmdImplementsLock, KmdAbstract!Spec
=============================================================================
