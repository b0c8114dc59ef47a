---------------------------- MODULE AbstractLock ----------------------------
(***************************************************************************)
(* What a cross-process lock of the driver promises to the code that uses  *)
(* it: the set of threads that have been granted the lock never holds two  *)
(* members, a grant ends when the thread releases it, and it also ends     *)
(* when the process the thread belongs to dies.                            *)
(***************************************************************************)
CONSTANT Thread

VARIABLE holders

Init == holders = {}

(* A thread is granted the lock only while nobody else has it.             *)
Enter(t) == holders = {} /\ holders' = {t}

(* The holder gives the lock back, or disappears with its process.         *)
Leave(t) == t \in holders /\ holders' = {}

Next == \E t \in Thread : Enter(t) \/ Leave(t)

Spec == Init /\ [][Next]_holders
=============================================================================
