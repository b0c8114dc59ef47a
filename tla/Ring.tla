-------------------------------- MODULE Ring --------------------------------
(***************************************************************************)
(* Ring queues in device memory with double-wrapping pointers, as used for *)
(* the ARC message queue of Blackhole and for the command queues of the    *)
(* Wormhole ethernet cores: a ring of Size entries whose read and write    *)
(* pointers wrap at 2 * Size, so that full and empty differ.               *)
(***************************************************************************)
EXTENDS Integers

CONSTANT Size   \* entries of a ring

ASSUME SizeAssumption == Size \in Nat \ {0}

Slot == 0 .. Size - 1
Pointer == 0 .. 2 * Size - 1

(* Mutant: the pointers never wrap.                                        *)
AdvanceUnwrapped(p) == p + 1

Advance(p) == (p + 1) % (2 * Size)

(* The number of occupied entries: the definition in the comment on        *)
(* BlackholeArcMessageQueue.                                               *)
Occupied(wptr, rptr) == (wptr - rptr) % (2 * Size)

(* The occupied entries, oldest first.                                     *)
Contents(entries, wptr, rptr) ==
  [i \in 1 .. Occupied(wptr, rptr) |-> entries[(rptr + i - 1) % Size]]
=============================================================================
